------------------------- MODULE RefreshLedger_proof -------------------------
(***************************************************************************)
(* Proofs about RefreshLedger for every number of runs, manual commands,   *)
(* old attempts and stages, every lease lifetime and every bound.          *)
(***************************************************************************)
EXTENDS RefreshLedger, TLAPS, SequenceTheorems

USE BoundsAssumption, NamesAssumption

LEMMA OldRunsAreLedgered ==
  /\ OldRuns \in Seq(Ledgered)
  /\ \A n \in 0..Len(OldRuns) : SubSeq(OldRuns, 1, n) \in Seq(Ledgered)
  /\ \A n \in 1..Len(OldRuns) : OldRuns[n] \in Ledgered
<1>1. OldRuns \in Seq(Ledgered)
  BY DEF Ledgered
<1>2. ASSUME NEW n \in 0..Len(OldRuns)
      PROVE  SubSeq(OldRuns, 1, n) \in Seq(Ledgered)
  <2>1. CASE n = 0
    BY <1>1, <2>1, SMT
  <2>2. CASE n # 0
    BY <1>1, <2>2, SubSeqProperties
  <2> QED BY <2>1, <2>2
<1> QED BY <1>1, <1>2

LEMMA ReadsAreTimes ==
  ASSUME NEW h, NEW t \in Reads(h)
  PROVE  t \in Nat /\ t \in Time
BY DEF Reads, Time

LEMMA TypeInitially == Init => TypeOK
<1> SUFFICES ASSUME Init PROVE TypeOK
  OBVIOUS
<1>1. PICK n \in 0..Len(OldRuns) :
        /\ receipt \in OldReceipts(n)
        /\ started = [r \in Ledgered |->
                        IF \E i \in 1..n : OldRuns[i] = r THEN 0 ELSE NotBegun]
        /\ history = SubSeq(OldRuns, 1, n)
        /\ tip = IF n = 0 THEN None ELSE OldRuns[n]
  BY DEF Init
<1>2. history \in Seq(Ledgered) /\ tip \in Ledgered \cup {None}
  BY <1>1, OldRunsAreLedgered
<1>3. started \in [Ledgered -> Time \cup {NotBegun}]
  BY <1>1 DEF Time
<1>4. receipt \in [Ledgered -> ReceiptRecords]
  BY <1>1 DEF OldReceipts, ReceiptRecords
<1>5. events \in [Ledgered -> Seq(EventRecords)]
  BY DEF Init
<1> QED
  BY <1>2, <1>3, <1>4, <1>5
  DEF Init, TypeOK, NoLease, NoTxn, LeaseRecords, ControlPoints, Time

-----------------------------------------------------------------------------
(* Type correctness *)

LEMMA AppendingKeepsType ==
  ASSUME TypeOK, NEW r \in Runs, NEW s \in Stages,
         NEW st \in {"started", "completed", "failed"},
         AppendEvent(r, s, st) \/ RefusedEvent(r, s, st)
  PROVE  events' \in [Ledgered -> Seq(EventRecords)]
<1>1. Event(s, st) \in EventRecords
  BY DEF Event, EventRecords
<1>2. r \in Ledgered /\ events[r] \in Seq(EventRecords)
  BY DEF TypeOK, Ledgered
<1>3. Append(events[r], Event(s, st)) \in Seq(EventRecords)
  BY <1>1, <1>2, AppendProperties
<1>4. events' = events \/ events' = [events EXCEPT ![r] = Append(@, Event(s, st))]
  BY DEF AppendEvent, RefusedEvent
<1> QED
  BY <1>2, <1>3, <1>4 DEF TypeOK

LEMMA RenewingKeepsType ==
  ASSUME TypeOK, NEW h \in Holders, NEW t \in Reads(h), Renew(h, t)
  PROVE  lease' \in LeaseRecords
<1>1. t + TTL \in Nat /\ lease.expires \in Nat
  BY ReadsAreTimes DEF TypeOK, LeaseRecords
<1>2. Later(lease.expires, t + TTL) \in Nat
  BY <1>1 DEF Later
<1> QED BY <1>2 DEF TypeOK, Renew, LeaseRecords

LEMMA FailingKeepsType ==
  ASSUME TypeOK, NEW r \in Runs, FailWork(r)
  PROVE  /\ pc' \in [Holders -> ControlPoints]
         /\ untried' \in [Holders -> SUBSET Stages]
<1>1. CASE Active(events[r]) = {} /\ Goto(r, "terminating") /\ untried' = untried
  BY <1>1 DEF TypeOK, Goto, ControlPoints
<1>2. ASSUME NEW s \in Active(events[r]),
             Goto(r, "closing"),
             untried' = [untried EXCEPT ![r] = Active(events[r]) \ {s}]
      PROVE  /\ pc' \in [Holders -> ControlPoints]
             /\ untried' \in [Holders -> SUBSET Stages]
  <2>1. Active(events[r]) \ {s} \in SUBSET Stages
    BY DEF Active
  <2> QED BY <1>2, <2>1 DEF TypeOK, Goto, ControlPoints
<1> QED BY <1>1, <1>2 DEF FailWork

LEMMA TypeStep == TypeOK /\ [Next]_vars => TypeOK'
<1> SUFFICES ASSUME TypeOK, [Next]_vars PROVE TypeOK'
  OBVIOUS
<1> USE DEF TypeOK
<1>1. CASE Tick
  BY <1>1 DEF Tick, db, local, Time
<1>2. CASE Finished \/ UNCHANGED vars
  BY <1>2 DEF Finished, vars, db, local
<1>3. ASSUME NEW h \in Holders, LeaseStep(h)
      PROVE  TypeOK'
  <2>1. CASE Acquire(h)
    <3>1. PICK t \in Reads(h) :
            lease' = [holder |-> h, acquired |-> t, expires |-> t + TTL]
      BY <2>1 DEF Acquire
    <3>2. lease' \in LeaseRecords
      BY <3>1, ReadsAreTimes DEF LeaseRecords
    <3> QED BY <2>1, <3>2 DEF Acquire, Goto, ControlPoints
  <2>2. CASE Heartbeat(h)
    <3>1. lease' \in LeaseRecords
      BY <2>2, RenewingKeepsType DEF Heartbeat
    <3> QED BY <2>2, <3>1 DEF Heartbeat, local
  <2>3. CASE Release(h)
    BY <2>3 DEF Release, NoLease, LeaseRecords, Goto, ControlPoints, Final
  <2>4. CASE AcquireRefused(h) \/ ReleaseFailed(h)
    BY <2>4 DEF AcquireRefused, ReleaseFailed, db, Goto, ControlPoints, Final
  <2>5. CASE HeartbeatFailed(h)
    BY <2>5 DEF HeartbeatFailed, db
  <2> QED BY <1>3, <2>1, <2>2, <2>3, <2>4, <2>5 DEF LeaseStep
<1>4. ASSUME NEW h \in Holders, FencedWrite(h)
      PROVE  TypeOK'
  <2>0. /\ Failed(h, job[h]) \in ControlPoints
        /\ \A k \in Jobs(h) : Failed(h, k) \in ControlPoints
        /\ Home(h) \in ControlPoints
    BY DEF Failed, Home, Jobs, ControlPoints
  <2>1. ASSUME NEW k \in Jobs(h), Check(h, k)
        PROVE  TypeOK'
    <3>1. lease' \in LeaseRecords
      BY <2>1, RenewingKeepsType DEF Check
    <3>2. writes' \in [Holders -> 0..MaxWrites]
      BY <2>1 DEF Check
    <3> QED BY <2>1, <3>1, <3>2 DEF Check, Goto, ControlPoints, Jobs
  <2>2. ASSUME NEW k \in Jobs(h), CheckFailed(h, k)
        PROVE  TypeOK'
    BY <2>0, <2>2 DEF CheckFailed, db, Goto
  <2>3. CASE OpenTxn(h) \/ SealTxn(h)
    <3>1. txn' \in [by : Holders \cup {None}, expires : Nat]
      BY <2>3 DEF OpenTxn, SealTxn, Later, Time, LeaseRecords
    <3> QED BY <2>3, <3>1 DEF OpenTxn, SealTxn, Goto, ControlPoints
  <2>4. CASE OpenTxnFailed(h)
    BY <2>0, <2>4 DEF OpenTxnFailed, db, Goto
  <2>5. CASE AbortTxn(h)
    BY <2>0, <2>5 DEF AbortTxn, NoTxn, Goto
  <2>6. CASE CommitWrite(h)
    <3>1. lease' \in LeaseRecords
      BY <2>6 DEF CommitWrite, LeaseRecords
    <3> QED BY <2>0, <2>6, <3>1 DEF CommitWrite, NoTxn, Goto, ControlPoints
  <2> QED BY <1>4, <2>1, <2>2, <2>3, <2>4, <2>5, <2>6 DEF FencedWrite
<1>5. ASSUME NEW h \in Holders, Crash(h)
      PROVE  TypeOK'
  BY <1>5 DEF Crash, NoTxn, Goto, ControlPoints, Final
<1>6. ASSUME NEW r \in Runs, RunStep(r)
      PROVE  TypeOK'
  <2>0. r \in Holders /\ r \in Ledgered /\ WorkStages \subseteq Stages
    BY DEF Holders, Ledgered, Stages
  <2>00. Active(events[r]) \subseteq Stages
    BY DEF Active
  <2>1. CASE Begin(r)
    <3>1. started' \in [Ledgered -> Time \cup {NotBegun}]
      BY <2>1, ReadsAreTimes DEF Begin
    <3>2. receipt' \in [Ledgered -> ReceiptRecords]
      <4>1. \A q \in Ledgered : Len(events[q]) \in Nat
        BY LenProperties
      <4> QED BY <2>1, <4>1 DEF Begin, AfterAbandoning, ReceiptRecords
    <3>3. tip' \in Ledgered \cup {None}
      <4>1. \A i \in 1..Len(history) : history[i] \in Ledgered
        BY ElementOfSeq
      <4> QED BY <2>1, <4>1 DEF Begin, RecoverTip, Candidates
    <3> QED BY <2>1, <3>1, <3>2, <3>3 DEF Begin, Goto, ControlPoints
  <2>2. CASE BeginRefused(r) \/ TerminateRefused(r)
    BY <2>2 DEF BeginRefused, TerminateRefused, db, Goto, ControlPoints
  <2>3. CASE Terminate(r)
    <3>1. Len(events[r]) \in Nat
      BY <2>0, LenProperties
    <3> QED BY <2>3, <3>1 DEF Terminate, ReceiptRecords, Goto, ControlPoints
  <2>4. CASE StageError(r)
    BY <2>4, FailingKeepsType DEF StageError, db
  <2>5. ASSUME NEW s \in WorkStages, StartStage(r, s) \/ FinishStage(r, s)
        PROVE  TypeOK'
    <3>1. events' \in [Ledgered -> Seq(EventRecords)]
      BY <2>0, <2>5, AppendingKeepsType DEF StartStage, FinishStage
    <3>2. pc' \in [Holders -> ControlPoints] /\ untried' \in [Holders -> SUBSET Stages]
      BY <2>5, FailingKeepsType DEF StartStage, FinishStage
    <3> QED BY <2>5, <3>1, <3>2 DEF StartStage, FinishStage
  <2>6. ASSUME NEW s \in WorkStages, CloseSibling(r, s)
        PROVE  TypeOK'
    <3>1. events' \in [Ledgered -> Seq(EventRecords)]
      BY <2>0, <2>6, AppendingKeepsType DEF CloseSibling
    <3> QED BY <2>6, <3>1 DEF CloseSibling
  <2>7. CASE ClosePrimary(r)
    <3>1. events' \in [Ledgered -> Seq(EventRecords)]
      BY <2>00, <2>7, AppendingKeepsType DEF ClosePrimary
    <3> QED BY <2>7, <3>1 DEF ClosePrimary, Goto, ControlPoints
  <2>8. CASE PublishStart(r) \/ MarkFailed(r)
    <3>1. events' \in [Ledgered -> Seq(EventRecords)]
      BY <2>8, AppendingKeepsType DEF PublishStart, MarkFailed, Stages
    <3> QED BY <2>8, <3>1 DEF PublishStart, MarkFailed, Goto, ControlPoints
  <2>9. CASE CommitPublication(r)
    <3>1. PublicationEvents \in Seq(EventRecords)
      BY DEF PublicationEvents, Event, EventRecords, Stages
    <3>2. events' \in [Ledgered -> Seq(EventRecords)]
      BY <2>0, <2>9, <3>1, ConcatProperties DEF CommitPublication
    <3>3. receipt' \in [Ledgered -> ReceiptRecords]
      <4>1. Len(events'[r]) \in Nat
        BY <2>0, <3>2, LenProperties
      <4> QED BY <2>0, <2>9, <4>1 DEF CommitPublication, ReceiptRecords
    <3>4. lease' \in LeaseRecords
      BY <2>9 DEF CommitPublication, LeaseRecords
    <3> QED
      BY <2>0, <2>9, <3>2, <3>3, <3>4
      DEF CommitPublication, NoTxn, Goto, ControlPoints
  <2> QED
    BY <1>6, <2>1, <2>2, <2>3, <2>4, <2>5, <2>6, <2>7, <2>8, <2>9 DEF RunStep
<1>7. ASSUME NEW r \in Runs, Cancel(r)
      PROVE  TypeOK'
  BY <1>7 DEF Cancel, db
<1> QED BY <1>1, <1>2, <1>3, <1>4, <1>5, <1>6, <1>7 DEF Next

(* Every reachable state of the ledger, the lease and the actors has the   *)
(* types TypeOK gives them, whatever the constants are.                    *)
THEOREM TypeCorrect == Spec => []TypeOK
BY TypeInitially, TypeStep, PTL DEF Spec

-----------------------------------------------------------------------------
(* Receipts seal their chains.  The claim is not inductive: it needs to    *)
(* know that the write lock is held by exactly the actor inside a          *)
(* transaction, so that nothing a publication found when it sealed its     *)
(* transaction has changed when it commits.                                *)

LockInv == \A h \in Holders : pc[h] \in {"open", "sealed"} <=> txn.by = h

SealInv ==
  \A r \in Runs : pc[r] = "sealed" /\ job[r] = "publish" =>
    ~Terminated(r) /\ Active(events[r]) = {"score.persist"}

ReceiptInv == TypeOK /\ LockInv /\ SealInv /\ SealedByReceipt

(* The closing events of a publication leave no stage open. *)
LEMMA PublicationClosesChain ==
  ASSUME NEW es \in Seq(EventRecords), Active(es) = {"score.persist"}
  PROVE  Active(es \o PublicationEvents) = {}
<1> DEFINE n == Len(es)
           fs == es \o PublicationEvents
<1>1. /\ PublicationEvents \in Seq(EventRecords)
      /\ Len(PublicationEvents) = 3
  BY DEF PublicationEvents, Event, EventRecords, Stages
<1>2. /\ n \in Nat
      /\ Len(fs) = n + 3
      /\ \A i \in 1..n : fs[i] = es[i]
      /\ fs[n + 1] = Event("score.persist", "completed")
      /\ fs[n + 2] = Event("forecast.capture", "started")
      /\ fs[n + 3] = Event("forecast.capture", "completed")
  BY <1>1, ConcatProperties, LenProperties DEF PublicationEvents
<1>3. SUFFICES ASSUME NEW s \in Stages, NEW i \in 1..Len(fs),
                      fs[i] = Event(s, "started"),
                      \A j \in (i + 1)..Len(fs) : fs[j].stage # s
               PROVE  FALSE
  BY DEF Active
<1> HIDE DEF n, fs
<1>4. CASE i \in 1..n
  <2>1. es[i] = Event(s, "started")
    BY <1>2, <1>3, <1>4
  <2>2. \A j \in (i + 1)..n : es[j].stage # s
    BY <1>2, <1>3, <1>4
  <2>3. s \in Active(es)
    BY <1>4, <2>1, <2>2 DEF Active, n
  <2>4. s = "score.persist"
    BY <2>3
  <2>5. fs[n + 1].stage # s
    BY <1>2, <1>3, <1>4
  <2> QED BY <1>2, <2>4, <2>5 DEF Event
<1>5. CASE i = n + 1
  BY <1>2, <1>3, <1>5 DEF Event
<1>6. CASE i = n + 2
  <2>1. fs[n + 3].stage # s
    BY <1>2, <1>3, <1>6
  <2> QED BY <1>2, <1>3, <1>6, <2>1 DEF Event
<1>7. CASE i = n + 3
  BY <1>2, <1>3, <1>7 DEF Event
<1> QED BY <1>2, <1>3, <1>4, <1>5, <1>6, <1>7

LEMMA ReceiptInitially == Init => ReceiptInv
<1> SUFFICES ASSUME Init PROVE ReceiptInv
  OBVIOUS
<1>1. TypeOK
  BY TypeInitially
<1>2. LockInv
  BY DEF Init, LockInv, NoTxn
<1>3. SealInv
  BY DEF Init, SealInv, Holders
<1>4. SealedByReceipt
  <2>1. PICK n \in 0..Len(OldRuns) : receipt \in OldReceipts(n)
    BY DEF Init
  <2>2. \A r \in Runs : \A i \in 1..n : OldRuns[i] # r
    BY DEF Old, Holders
  <2>3. \A r \in Runs : receipt[r] = NoReceipt
    BY <2>1, <2>2 DEF OldReceipts, Ledgered
  <2> QED BY <2>3 DEF SealedByReceipt, Terminated, NoReceipt
<1> QED BY <1>1, <1>2, <1>3, <1>4 DEF ReceiptInv

(* A step that leaves every chain and receipt alone, and lets nobody into  *)
(* the sealed state of a publication, keeps what receipts promise.         *)
LEMMA QuietStep ==
  ASSUME SealInv, SealedByReceipt, UNCHANGED <<events, receipt>>,
         \A r \in Runs : pc'[r] = "sealed" /\ job'[r] = "publish" =>
                           pc[r] = "sealed" /\ job[r] = "publish"
  PROVE  SealInv' /\ SealedByReceipt'
BY DEF SealInv, SealedByReceipt, Terminated

(* So does a step that gives some attempts a receipt over their chain. *)
LEMMA SealingStep ==
  ASSUME SealedByReceipt, events' = events,
         \A q \in Ledgered :
           \/ receipt'[q] = receipt[q]
           \/ /\ receipt'[q].count = Len(events[q])
              /\ receipt'[q].status = "abandoned" \/ Active(events[q]) = {}
  PROVE  SealedByReceipt'
<1> SUFFICES ASSUME NEW r \in Runs, Terminated(r)'
             PROVE  /\ receipt'[r].count = Len(events'[r])
                    /\ Active(events[r]) # {} => receipt'[r].status = "abandoned"
  BY DEF SealedByReceipt
<1> QED BY DEF SealedByReceipt, Terminated, Ledgered

(* An event joins a chain only while no transaction is open and no receipt *)
(* is there.                                                               *)
LEMMA AppendStep ==
  ASSUME ReceiptInv, NEW r \in Runs, NEW s, NEW st,
         AppendEvent(r, s, st) \/ RefusedEvent(r, s, st),
         receipt' = receipt, job' = job, pc[r] # "sealed",
         \E l : pc' = [pc EXCEPT ![r] = l] /\ l # "sealed"
  PROVE  SealInv' /\ SealedByReceipt'
<1>0. r \in Holders /\ r \in Ledgered
  BY DEF Holders, Ledgered
<1>1. PICK l : pc' = [pc EXCEPT ![r] = l] /\ l # "sealed"
  OBVIOUS
<1>2. \A q \in Runs : pc'[q] = "sealed" => q # r /\ pc[q] = "sealed"
  BY <1>0, <1>1 DEF ReceiptInv, TypeOK, Holders
<1>3. \A q \in Runs \ {r} : events'[q] = events[q]
  BY DEF AppendEvent, RefusedEvent, ReceiptInv, TypeOK, Ledgered
<1>4. Terminated(r) => events'[r] = events[r]
  BY DEF AppendEvent, RefusedEvent, Appendable
<1>5. SealInv'
  BY <1>2, <1>3 DEF SealInv, ReceiptInv, Terminated
<1>6. SealedByReceipt'
  BY <1>3, <1>4 DEF SealedByReceipt, ReceiptInv, Terminated
<1> QED BY <1>5, <1>6

(* Moving an actor between points outside a transaction. *)
LEMMA OutsideStep ==
  ASSUME TypeOK, LockInv, NEW h \in Holders, txn' = txn,
         pc[h] \notin {"open", "sealed"},
         \E l : pc' = [pc EXCEPT ![h] = l] /\ l \notin {"open", "sealed"}
  PROVE  LockInv'
BY DEF TypeOK, LockInv

LEMMA LockStep == TypeOK /\ LockInv /\ [Next]_vars => LockInv'
<1> SUFFICES ASSUME TypeOK, LockInv, [Next]_vars PROVE LockInv'
  OBVIOUS
<1> USE DEF Goto
<1>1. CASE Tick \/ Finished \/ UNCHANGED vars
  BY <1>1 DEF Tick, Finished, vars, db, local, LockInv
<1>2. ASSUME NEW h \in Holders, LeaseStep(h)
      PROVE  LockInv'
  <2>1. CASE Acquire(h) \/ AcquireRefused(h)
    <3>1. /\ txn' = txn /\ pc[h] = "idle"
          /\ \E l : pc' = [pc EXCEPT ![h] = l] /\ l \notin {"open", "sealed"}
      BY <2>1 DEF Acquire, AcquireRefused, db
    <3> QED BY <3>1, OutsideStep
  <2>2. CASE Heartbeat(h) \/ HeartbeatFailed(h)
    BY <2>2 DEF Heartbeat, HeartbeatFailed, db, local, LockInv
  <2>3. CASE Release(h) \/ ReleaseFailed(h)
    <3>1. /\ txn' = txn /\ pc[h] \notin {"open", "sealed"}
          /\ pc' = [pc EXCEPT ![h] = "done"]
      BY <2>3 DEF Release, ReleaseFailed, db
    <3> DEFINE l == "done"
    <3>2. pc' = [pc EXCEPT ![h] = l] /\ l \notin {"open", "sealed"}
      BY <3>1
    <3> HIDE DEF l
    <3> QED BY <3>1, <3>2, OutsideStep
  <2> QED BY <1>2, <2>1, <2>2, <2>3 DEF LeaseStep
<1>3. ASSUME NEW h \in Holders, FencedWrite(h)
      PROVE  LockInv'
  <2>0. /\ Failed(h, job[h]) \notin {"open", "sealed"}
        /\ \A k \in Jobs(h) : Failed(h, k) \notin {"open", "sealed"}
        /\ \A k \in Jobs(h) : Before(h, k) \notin {"open", "sealed"}
        /\ Home(h) \notin {"open", "sealed"}
    BY DEF Failed, Before, Home, Jobs, TypeOK
  <2>1. ASSUME NEW k \in Jobs(h), Check(h, k) \/ CheckFailed(h, k)
        PROVE  LockInv'
    <3>1. /\ txn' = txn /\ pc[h] \notin {"open", "sealed"}
          /\ \E l : pc' = [pc EXCEPT ![h] = l] /\ l \notin {"open", "sealed"}
      <4>1. CASE Check(h, k)
        <5>1. pc' = [pc EXCEPT ![h] = "checked"]
          BY <4>1 DEF Check
        <5> QED BY <2>0, <4>1, <5>1 DEF Check
      <4>2. CASE CheckFailed(h, k)
        <5>1. pc' = [pc EXCEPT ![h] = Failed(h, k)]
          BY <4>2 DEF CheckFailed
        <5> QED BY <2>0, <4>2, <5>1 DEF CheckFailed, db
      <4> QED BY <2>1, <4>1, <4>2
    <3> QED BY <3>1, OutsideStep
  <2>2. CASE OpenTxn(h)
    <3>1. txn.by = None /\ txn'.by = h /\ None \notin Holders
      BY <2>2 DEF OpenTxn, Free
    <3>2. pc' = [pc EXCEPT ![h] = "open"]
      BY <2>2 DEF OpenTxn
    <3>3. \A g \in Holders : pc[g] \notin {"open", "sealed"}
      BY <3>1 DEF LockInv
    <3> QED BY <3>1, <3>2, <3>3 DEF LockInv, TypeOK
  <2>3. CASE OpenTxnFailed(h)
    <3>1. /\ txn' = txn /\ pc[h] = "checked"
          /\ \E l : pc' = [pc EXCEPT ![h] = l] /\ l \notin {"open", "sealed"}
      BY <2>0, <2>3 DEF OpenTxnFailed, db
    <3> QED BY <3>1, OutsideStep
  <2>4. CASE SealTxn(h)
    <3>1. txn'.by = txn.by
      BY <2>4 DEF SealTxn, TypeOK
    <3> QED BY <2>4, <3>1 DEF SealTxn, LockInv, TypeOK
  <2>5. CASE AbortTxn(h) \/ CommitWrite(h)
    <3>1. txn.by = h /\ txn'.by = None /\ None \notin Holders
      <4>1. pc[h] \in {"open", "sealed"}
        BY <2>5 DEF AbortTxn, CommitWrite
      <4>2. txn' = NoTxn
        BY <2>5 DEF AbortTxn, CommitWrite
      <4> QED BY <4>1, <4>2 DEF NoTxn, LockInv
    <3> DEFINE l == IF AbortTxn(h) THEN Failed(h, job[h])
                    ELSE IF job[h] = "write" THEN Home(h) ELSE "terminating"
    <3>2. l \notin {"open", "sealed"}
      BY <2>0
    <3>3. pc' = [pc EXCEPT ![h] = l]
      BY <2>5 DEF AbortTxn, CommitWrite
    <3> HIDE DEF l
    <3> QED BY <3>1, <3>2, <3>3 DEF LockInv, TypeOK
  <2> QED BY <1>3, <2>1, <2>2, <2>3, <2>4, <2>5 DEF FencedWrite
<1>4. ASSUME NEW h \in Holders, Crash(h)
      PROVE  LockInv'
  <2>1. /\ txn' = IF txn.by = h THEN NoTxn ELSE txn
        /\ pc' = [pc EXCEPT ![h] = "crashed"]
        /\ None \notin Holders
    BY <1>4 DEF Crash
  <2> QED BY <2>1 DEF LockInv, TypeOK, NoTxn
<1>5. ASSUME NEW r \in Runs, RunStep(r)
      PROVE  LockInv'
  <2>0. r \in Holders
    BY DEF Holders
  <2>1. CASE CommitPublication(r)
    <3>1. txn.by = r /\ txn'.by = None /\ None \notin Holders
      BY <2>0, <2>1 DEF CommitPublication, NoTxn, LockInv
    <3>2. pc' = [pc EXCEPT ![r] = "releasing"]
      BY <2>1 DEF CommitPublication
    <3> QED BY <2>0, <3>1, <3>2 DEF LockInv, TypeOK
  <2>2. ASSUME NEW s \in WorkStages, CloseSibling(r, s)
        PROVE  LockInv'
    BY <2>2 DEF CloseSibling, LockInv
  <2>3. ASSUME NEW s \in WorkStages, StartStage(r, s) \/ FinishStage(r, s)
        PROVE  LockInv'
    <3>1. CASE pc' = pc
      BY <2>3, <3>1 DEF StartStage, FinishStage, LockInv
    <3>2. CASE FailWork(r)
      <4>1. /\ txn' = txn /\ pc[r] = "working"
            /\ \E l : pc' = [pc EXCEPT ![r] = l] /\ l \notin {"open", "sealed"}
        BY <2>3, <3>2 DEF StartStage, FinishStage, FailWork
      <4> QED BY <2>0, <4>1, OutsideStep
    <3> QED BY <2>3, <3>1, <3>2 DEF StartStage, FinishStage
  <2>4. CASE StageError(r)
    <3>1. /\ txn' = txn /\ pc[r] = "working"
          /\ \E l : pc' = [pc EXCEPT ![r] = l] /\ l \notin {"open", "sealed"}
      BY <2>4 DEF StageError, FailWork, db
    <3> QED BY <2>0, <3>1, OutsideStep
  <2>5. CASE \/ Begin(r) \/ BeginRefused(r) \/ ClosePrimary(r) \/ Terminate(r)
             \/ TerminateRefused(r) \/ PublishStart(r) \/ MarkFailed(r)
    <3>1. /\ txn' = txn /\ pc[r] \notin {"open", "sealed"}
          /\ \E l : pc' = [pc EXCEPT ![r] = l] /\ l \notin {"open", "sealed"}
      BY <2>5 DEF Begin, BeginRefused, ClosePrimary, Terminate,
                  TerminateRefused, PublishStart, MarkFailed, db
    <3> QED BY <2>0, <3>1, OutsideStep
  <2> QED BY <1>5, <2>1, <2>2, <2>3, <2>4, <2>5 DEF RunStep
<1>6. ASSUME NEW r \in Runs, Cancel(r)
      PROVE  LockInv'
  BY <1>6 DEF Cancel, db, LockInv
<1> QED BY <1>1, <1>2, <1>3, <1>4, <1>5, <1>6 DEF Next

(* What a step may do to receipts: an open attempt gets one over its whole *)
(* chain, and nothing else changes.                                        *)
LEMMA ReceiptStep ==
  ReceiptInv /\ [Next]_vars =>
    /\ SealInv' /\ SealedByReceipt'
    /\ \A r \in Ledgered : Terminated(r) => receipt'[r] = receipt[r]
<1> SUFFICES ASSUME ReceiptInv, [Next]_vars
             PROVE  /\ SealInv' /\ SealedByReceipt'
                    /\ \A r \in Ledgered : Terminated(r) => receipt'[r] = receipt[r]
  OBVIOUS
<1> DEFINE Goal == /\ SealInv' /\ SealedByReceipt'
                   /\ \A r \in Ledgered : Terminated(r) => receipt'[r] = receipt[r]
<1>0. TypeOK /\ LockInv /\ SealInv /\ SealedByReceipt
  BY DEF ReceiptInv
<1>1. CASE Tick \/ Finished \/ UNCHANGED vars
  BY <1>0, <1>1, QuietStep DEF Tick, Finished, vars, db, local
<1>2. ASSUME NEW h \in Holders, LeaseStep(h)
      PROVE  Goal
  <2>1. /\ UNCHANGED <<events, receipt, job>>
        /\ \A r \in Runs : pc'[r] = "sealed" => pc[r] = "sealed"
    BY <1>0, <1>2
    DEF LeaseStep, Acquire, AcquireRefused, Heartbeat, HeartbeatFailed, Release,
        ReleaseFailed, db, local, Goto, TypeOK, Holders
  <2> QED BY <1>0, <2>1, QuietStep
<1>3. ASSUME NEW h \in Holders, FencedWrite(h)
      PROVE  Goal
  <2>0. /\ Failed(h, job[h]) # "sealed"
        /\ \A k \in Jobs(h) : Failed(h, k) # "sealed"
        /\ Home(h) # "sealed"
    BY <1>0 DEF Failed, Home, Jobs, TypeOK
  <2>1. ASSUME NEW k \in Jobs(h), Check(h, k)
        PROVE  Goal
    <3>1. /\ UNCHANGED <<events, receipt>>
          /\ pc' = [pc EXCEPT ![h] = "checked"]
          /\ job' = [job EXCEPT ![h] = k]
      BY <2>1 DEF Check, Goto
    <3>2. \A r \in Runs : pc'[r] = "sealed" =>
            r # h /\ pc[r] = "sealed" /\ job'[r] = job[r]
      BY <1>0, <3>1 DEF TypeOK, Holders
    <3> QED BY <1>0, <3>1, <3>2, QuietStep
  <2>2. ASSUME NEW k \in Jobs(h), CheckFailed(h, k)
        PROVE  Goal
    <3>1. /\ UNCHANGED <<events, receipt, job>>
          /\ pc' = [pc EXCEPT ![h] = Failed(h, k)]
      BY <2>2 DEF CheckFailed, Goto, db
    <3>2. \A r \in Runs : pc'[r] = "sealed" => pc[r] = "sealed"
      BY <1>0, <2>0, <3>1 DEF TypeOK, Holders
    <3> QED BY <1>0, <3>1, <3>2, QuietStep
  <2>3. CASE OpenTxn(h) \/ OpenTxnFailed(h) \/ AbortTxn(h) \/ CommitWrite(h)
    <3>1. UNCHANGED <<events, receipt, job>>
      BY <2>3 DEF OpenTxn, OpenTxnFailed, AbortTxn, CommitWrite, db
    <3>2. \A r \in Runs : pc'[r] = "sealed" => pc[r] = "sealed"
      BY <1>0, <2>0, <2>3
      DEF OpenTxn, OpenTxnFailed, AbortTxn, CommitWrite, Goto, TypeOK, Holders
    <3> QED BY <1>0, <3>1, <3>2, QuietStep
  <2>4. CASE SealTxn(h)
    <3>1. /\ UNCHANGED <<events, receipt, job>>
          /\ pc' = [pc EXCEPT ![h] = "sealed"]
          /\ job[h] = "publish" => ~Terminated(h) /\ Active(events[h]) = {"score.persist"}
      BY <2>4 DEF SealTxn, Goto
    <3>2. \A r \in Runs : r # h => pc'[r] = pc[r]
      BY <1>0, <3>1 DEF TypeOK, Holders
    <3>3. SealInv'
      BY <1>0, <3>1, <3>2 DEF SealInv, Terminated
    <3> QED BY <1>0, <3>1, <3>3 DEF SealedByReceipt, Terminated
  <2> QED BY <1>3, <2>1, <2>2, <2>3, <2>4 DEF FencedWrite
<1>4. ASSUME NEW h \in Holders, Crash(h)
      PROVE  Goal
  <2>1. /\ UNCHANGED <<events, receipt, job>>
        /\ \A r \in Runs : pc'[r] = "sealed" => pc[r] = "sealed"
    BY <1>0, <1>4 DEF Crash, Goto, TypeOK, Holders
  <2> QED BY <1>0, <2>1, QuietStep
<1>5. ASSUME NEW r \in Runs, RunStep(r)
      PROVE  Goal
  <2>0. /\ r \in Holders /\ r \in Ledgered
        /\ Free => \A q \in Holders : pc[q] # "sealed"
    BY <1>0 DEF Holders, Ledgered, Free, LockInv
  <2>1. CASE Begin(r)
    <3>1. /\ UNCHANGED <<events, job>>
          /\ receipt' = AfterAbandoning(r)
          /\ \A q \in Runs : pc'[q] # "sealed"
      BY <1>0, <2>0, <2>1 DEF Begin, Goto, TypeOK, Holders
    <3>2. \A q \in Ledgered :
            \/ receipt'[q] = receipt[q]
            \/ /\ ~Terminated(q)
               /\ receipt'[q] = [status |-> "abandoned", count |-> Len(events[q])]
      BY <3>1 DEF AfterAbandoning, Expired, Opened
    <3>3. SealInv'
      BY <3>1 DEF SealInv
    <3>4. SealedByReceipt'
      <4>1. \A q \in Ledgered :
              \/ receipt'[q] = receipt[q]
              \/ /\ receipt'[q].count = Len(events[q])
                 /\ receipt'[q].status = "abandoned"
        <5> TAKE q \in Ledgered
        <5>1. CASE receipt'[q] = receipt[q]
          BY <5>1
        <5>2. CASE receipt'[q] = [status |-> "abandoned", count |-> Len(events[q])]
          BY <5>2
        <5> QED BY <3>2, <5>1, <5>2
      <4>2. events' = events
        BY <3>1
      <4> QED BY <1>0, <4>1, <4>2, SealingStep
    <3> QED BY <3>2, <3>3, <3>4
  <2>2. CASE Terminate(r)
    <3>1. /\ UNCHANGED <<events, job>>
          /\ ~Terminated(r)
          /\ Active(events[r]) = {}
          /\ receipt' = [receipt EXCEPT ![r] =
                           [status |-> "failure", count |-> Len(events[r])]]
          /\ \A q \in Runs : pc'[q] # "sealed"
      BY <1>0, <2>0, <2>2 DEF Terminate, Goto, TypeOK, Holders
    <3>2. \A q \in Ledgered :
            receipt'[q] = IF q = r THEN [status |-> "failure", count |-> Len(events[r])]
                          ELSE receipt[q]
      BY <1>0, <3>1 DEF TypeOK
    <3>3. SealInv'
      BY <3>1 DEF SealInv
    <3>4. SealedByReceipt'
      <4>1. \A q \in Ledgered :
              \/ receipt'[q] = receipt[q]
              \/ receipt'[q].count = Len(events[q]) /\ Active(events[q]) = {}
        BY <3>1, <3>2
      <4> QED BY <1>0, <3>1, <4>1, SealingStep
    <3> QED BY <3>1, <3>2, <3>3, <3>4
  <2>3. CASE CommitPublication(r)
    <3> DEFINE chain == events[r] \o PublicationEvents
    <3>1. /\ job' = job
          /\ events' = [events EXCEPT ![r] = chain]
          /\ receipt' = [receipt EXCEPT ![r] =
                           [status |-> "success", count |-> Len(events'[r])]]
          /\ pc[r] = "sealed" /\ job[r] = "publish"
          /\ pc' = [pc EXCEPT ![r] = "releasing"]
      BY <2>3 DEF CommitPublication, Goto
    <3>2. ~Terminated(r) /\ Active(events[r]) = {"score.persist"}
      BY <1>0, <3>1 DEF SealInv
    <3>3. Active(chain) = {}
      BY <1>0, <2>0, <3>2, PublicationClosesChain DEF TypeOK
    <3> HIDE DEF chain
    <3>4. \A q \in Ledgered :
            /\ events'[q] = IF q = r THEN chain ELSE events[q]
            /\ receipt'[q] = IF q = r THEN [status |-> "success", count |-> Len(chain)]
                             ELSE receipt[q]
      BY <1>0, <2>0, <3>1 DEF TypeOK
    <3>5. \A q \in Runs : pc'[q] # "sealed"
      <4>1. \A q \in Runs \ {r} : pc[q] # "sealed"
        BY <1>0, <2>0, <3>1 DEF LockInv, Holders
      <4> QED BY <1>0, <2>0, <3>1, <4>1 DEF TypeOK, Holders
    <3>6. SealInv'
      BY <3>5 DEF SealInv
    <3>7. SealedByReceipt'
      BY <1>0, <3>3, <3>4 DEF SealedByReceipt, Terminated, Ledgered
    <3> QED BY <3>2, <3>4, <3>6, <3>7
  <2>4. ASSUME NEW s \in WorkStages, StartStage(r, s) \/ FinishStage(r, s)
        PROVE  Goal
    <3>1. UNCHANGED <<receipt, job>> /\ pc[r] = "working"
      BY <2>4 DEF StartStage, FinishStage
    <3>2. PICK st \in {"started", "completed"} :
            AppendEvent(r, s, st) \/ RefusedEvent(r, s, st)
      BY <2>4 DEF StartStage, FinishStage
    <3>3. pc' = pc \/ \E l : pc' = [pc EXCEPT ![r] = l] /\ l # "sealed"
      BY <2>4 DEF StartStage, FinishStage, FailWork, Goto
    <3>4. pc' = pc => pc' = [pc EXCEPT ![r] = "working"]
      BY <1>0, <2>0, <3>1 DEF TypeOK
    <3> QED BY <2>0, <3>1, <3>2, <3>3, <3>4, AppendStep
  <2>5. ASSUME NEW s \in WorkStages, CloseSibling(r, s)
        PROVE  Goal
    <3>1. UNCHANGED <<receipt, job, pc>> /\ pc[r] = "closing"
      BY <2>5 DEF CloseSibling
    <3>2. AppendEvent(r, s, "completed") \/ RefusedEvent(r, s, "completed")
      BY <2>5 DEF CloseSibling
    <3>3. pc' = [pc EXCEPT ![r] = "closing"]
      BY <1>0, <2>0, <3>1 DEF TypeOK
    <3> QED BY <3>1, <3>2, <3>3, AppendStep
  <2>6. CASE ClosePrimary(r)
    <3>1. /\ UNCHANGED <<receipt, job>> /\ pc[r] = "closing"
          /\ pc' = [pc EXCEPT ![r] = "terminating"]
      BY <2>6 DEF ClosePrimary, Goto
    <3>2. \/ \E s : AppendEvent(r, s, "failed") \/ RefusedEvent(r, s, "failed")
          \/ events' = events
      BY <2>6 DEF ClosePrimary
    <3>3. CASE events' = events
      <4>1. \A q \in Runs : pc'[q] = "sealed" => pc[q] = "sealed"
        BY <1>0, <3>1 DEF TypeOK, Holders
      <4> QED BY <1>0, <3>1, <3>3, <4>1, QuietStep
    <3>4. ASSUME NEW s, AppendEvent(r, s, "failed") \/ RefusedEvent(r, s, "failed")
          PROVE  Goal
      <4>1. \E l : pc' = [pc EXCEPT ![r] = l] /\ l # "sealed"
        <5> DEFINE l == "terminating"
        <5>1. pc' = [pc EXCEPT ![r] = l] /\ l # "sealed"
          BY <3>1
        <5> HIDE DEF l
        <5> QED BY <5>1
      <4>2. receipt' = receipt /\ job' = job /\ pc[r] # "sealed"
        BY <3>1
      <4>3. SealInv' /\ SealedByReceipt'
        BY <3>4, <4>1, <4>2, AppendStep
      <4> QED BY <4>2, <4>3
    <3> QED BY <3>2, <3>3, <3>4
  <2>7. CASE PublishStart(r) \/ MarkFailed(r)
    <3>1. /\ UNCHANGED <<receipt, job>> /\ pc[r] # "sealed"
          /\ \E l : pc' = [pc EXCEPT ![r] = l] /\ l # "sealed"
      BY <2>7 DEF PublishStart, MarkFailed, Goto
    <3>2. PICK st \in {"started", "failed"} :
            \/ AppendEvent(r, "score.persist", st)
            \/ RefusedEvent(r, "score.persist", st)
      BY <2>7 DEF PublishStart, MarkFailed
    <3> QED BY <3>1, <3>2, AppendStep
  <2>8. CASE BeginRefused(r) \/ TerminateRefused(r) \/ StageError(r)
    <3>1. /\ UNCHANGED <<events, receipt, job>>
          /\ \E l : pc' = [pc EXCEPT ![r] = l] /\ l # "sealed"
      BY <2>8 DEF BeginRefused, TerminateRefused, StageError, FailWork, Goto, db
    <3>2. \A q \in Runs : pc'[q] = "sealed" => pc[q] = "sealed"
      BY <1>0, <3>1 DEF TypeOK, Holders
    <3> QED BY <1>0, <3>1, <3>2, QuietStep
  <2> QED
    BY <1>5, <2>1, <2>2, <2>3, <2>4, <2>5, <2>6, <2>7, <2>8 DEF RunStep
<1>6. ASSUME NEW r \in Runs, Cancel(r)
      PROVE  Goal
  BY <1>0, <1>6, QuietStep DEF Cancel, db
<1> QED BY <1>1, <1>2, <1>3, <1>4, <1>5, <1>6 DEF Next

(* The inductive invariant behind the two theorems below: types, at most   *)
(* one open transaction and its owner in a transaction, the state a sealed *)
(* publication waits to commit in, and the seal of every receipt.          *)
THEOREM ReceiptInvariant == Spec => []ReceiptInv
<1>1. ReceiptInv /\ [Next]_vars => ReceiptInv'
  BY TypeStep, LockStep, ReceiptStep DEF ReceiptInv
<1> QED BY <1>1, ReceiptInitially, PTL DEF Spec

(* A receipt counts exactly the events of its run, then and ever after,    *)
(* and only an abandoned run has a stage left open: the order of the       *)
(* checks in appendRefreshOperationStageEvent and                          *)
(* appendRefreshCaptureReceipt, and the write lock held by a publication,  *)
(* leave no interleaving in which a late event joins a sealed chain.       *)
THEOREM ReceiptsSealChains == Spec => []SealedByReceipt
<1>1. ReceiptInv => SealedByReceipt
  BY DEF ReceiptInv
<1> QED BY <1>1, ReceiptInvariant, PTL

(* No step replaces a receipt: not the success of a run that lost its      *)
(* lease in the meantime, not the abandonment by a successor.              *)
THEOREM ReceiptsAreFinal == Spec => TerminalIsFinal
<1>1. ReceiptInv /\ [Next]_vars =>
        [\A r \in Ledgered : Terminated(r) => receipt'[r] = receipt[r]]_vars
  BY ReceiptStep
<1> QED BY <1>1, ReceiptInvariant, PTL DEF Spec, TerminalIsFinal

-----------------------------------------------------------------------------
(* The steps that touch the lease, the outcome of a run or what is         *)
(* published; all others leave these alone.                                *)
Quiet == UNCHANGED <<lease, started, receipt, history, tip, evidence>>

LEMMA StepKinds ==
  [Next]_vars =>
    \/ Quiet
    \/ \E h \in Holders :
         \/ Acquire(h) \/ Release(h) \/ Heartbeat(h) \/ CommitWrite(h)
         \/ \E k \in Jobs(h) : Check(h, k)
    \/ \E r \in Runs : Begin(r) \/ Terminate(r) \/ CommitPublication(r)
<1> SUFFICES ASSUME [Next]_vars
             PROVE  \/ Quiet
                    \/ \E h \in Holders :
                         \/ Acquire(h) \/ Release(h) \/ Heartbeat(h) \/ CommitWrite(h)
                         \/ \E k \in Jobs(h) : Check(h, k)
                    \/ \E r \in Runs : Begin(r) \/ Terminate(r) \/ CommitPublication(r)
  OBVIOUS
<1> USE DEF Quiet
<1>1. CASE Tick \/ Finished \/ UNCHANGED vars
  BY <1>1 DEF Tick, Finished, vars, db
<1>2. ASSUME NEW h \in Holders,
             \/ AcquireRefused(h) \/ HeartbeatFailed(h) \/ ReleaseFailed(h)
             \/ Crash(h)
             \/ \E k \in Jobs(h) : CheckFailed(h, k)
             \/ OpenTxn(h) \/ OpenTxnFailed(h) \/ SealTxn(h) \/ AbortTxn(h)
      PROVE  Quiet
  BY <1>2 DEF AcquireRefused, HeartbeatFailed, ReleaseFailed, Crash,
              CheckFailed, OpenTxn, OpenTxnFailed, SealTxn, AbortTxn, db
<1>3. ASSUME NEW r \in Runs,
             \/ BeginRefused(r) \/ StageError(r) \/ ClosePrimary(r)
             \/ TerminateRefused(r) \/ PublishStart(r) \/ MarkFailed(r)
             \/ Cancel(r)
      PROVE  Quiet
  BY <1>3 DEF BeginRefused, StageError, ClosePrimary, TerminateRefused,
              PublishStart, MarkFailed, Cancel, db
<1>4. ASSUME NEW r \in Runs, NEW s \in WorkStages,
             StartStage(r, s) \/ FinishStage(r, s) \/ CloseSibling(r, s)
      PROVE  Quiet
  BY <1>4 DEF StartStage, FinishStage, CloseSibling
<1> HIDE DEF Quiet
<1> QED
  BY <1>1, <1>2, <1>3, <1>4 DEF Next, LeaseStep, FencedWrite, RunStep

-----------------------------------------------------------------------------
(* Who is where.  An attempt begins once, in the step that takes its run   *)
(* from "acquired" to work; a publication is only under way in a run whose *)
(* signal is clear; and the transaction belongs to the holder of the lease.*)

Unbegun == {"idle", "acquired"}
Underway == {"working", "closing", "terminating", "persisting", "checked",
             "open", "sealed", "failing", "recording"}
InTransaction == {"checked", "open", "sealed"}

FlowInv ==
  /\ \A r \in Runs : pc[r] \in Unbegun =>
       started[r] = NotBegun /\ receipt[r].status = "none"
  /\ \A r \in Runs : pc[r] \in Underway => started[r] # NotBegun
  /\ \A h \in Holders : txn.by = h => lease.holder = h
  /\ \A r \in Runs : pc[r] \in InTransaction /\ job[r] = "publish" =>
       signal[r] = "clear"

LEMMA FlowInitially == Init => FlowInv
<1> SUFFICES ASSUME Init PROVE FlowInv
  OBVIOUS
<1>1. PICK n \in 0..Len(OldRuns) :
        /\ receipt \in OldReceipts(n)
        /\ started = [r \in Ledgered |->
                        IF \E i \in 1..n : OldRuns[i] = r THEN 0 ELSE NotBegun]
  BY DEF Init
<1>2. \A r \in Runs : /\ r \in Holders /\ r \in Ledgered
                      /\ \A i \in 1..n : OldRuns[i] # r
  BY DEF Old, Holders, Ledgered
<1>3. \A r \in Runs : started[r] = NotBegun /\ receipt[r].status = "none"
  <2>1. \A r \in Runs : started[r] = NotBegun
    BY <1>1, <1>2
  <2>2. \A r \in Runs : receipt[r] = NoReceipt
    BY <1>1, <1>2 DEF OldReceipts
  <2>3. NoReceipt.status = "none"
    BY DEF NoReceipt
  <2> QED BY <2>1, <2>2, <2>3
<1> QED
  <2>1. \A r \in Runs : pc[r] = "idle"
    BY <1>2 DEF Init
  <2>2. \A h \in Holders : txn.by # h
    BY DEF Init, NoTxn
  <2> QED BY <1>3, <2>1, <2>2 DEF FlowInv, Underway, InTransaction

(* Where a step may take an actor. *)
LEMMA Moves ==
  ASSUME TypeOK, [Next]_vars, NEW r \in Runs
  PROVE  /\ pc'[r] \in Unbegun => pc[r] \in Unbegun
         /\ pc'[r] \in Underway => pc[r] \in Underway \/ Begin(r)
         /\ pc'[r] \in InTransaction /\ job'[r] = "publish" =>
              \/ pc[r] \in InTransaction /\ job[r] = "publish"
              \/ Check(r, "publish")
         /\ signal'[r] # "clear" =>
              \/ signal[r] # "clear"
              \/ pc'[r] \notin InTransaction
<1> DEFINE Goal ==
         /\ pc'[r] \in Unbegun => pc[r] \in Unbegun
         /\ pc'[r] \in Underway => pc[r] \in Underway \/ Begin(r)
         /\ pc'[r] \in InTransaction /\ job'[r] = "publish" =>
              \/ pc[r] \in InTransaction /\ job[r] = "publish"
              \/ Check(r, "publish")
         /\ signal'[r] # "clear" =>
              \/ signal[r] # "clear"
              \/ pc'[r] \notin InTransaction
<1>0. r \in Holders /\ Home(r) = "working"
  BY DEF Holders, Home
<1> USE DEF Unbegun, Underway, InTransaction, Goto, Final
<1>1. CASE Tick \/ Finished \/ UNCHANGED vars
  BY <1>1 DEF Tick, Finished, vars, local
<1>2. ASSUME NEW h \in Holders, LeaseStep(h)
      PROVE  Goal
  BY <1>0, <1>2 DEF LeaseStep, Acquire, AcquireRefused, Heartbeat,
       HeartbeatFailed, Release, ReleaseFailed, local, TypeOK
<1>3. ASSUME NEW h \in Holders, FencedWrite(h)
      PROVE  Goal
  <2>0. /\ \A k \in Jobs(h) : k \in {"write", "publish", "record"}
        /\ h \in Runs => Home(h) = "working"
        /\ Home(h) \notin InTransaction /\ Home(h) \notin Unbegun
    BY DEF Home, Jobs
  <2>00. \A k \in {"write", "publish", "record"} :
           /\ Failed(h, k) \notin InTransaction /\ Failed(h, k) \notin Unbegun
           /\ h \in Runs => Before(h, k) \in Underway
    BY <2>0 DEF Failed, Before
  <2>1. ASSUME NEW k \in Jobs(h), Check(h, k)
        PROVE  Goal
    <3>1. /\ pc' = [pc EXCEPT ![h] = "checked"] /\ job' = [job EXCEPT ![h] = k]
          /\ signal' = signal /\ pc[h] = Before(h, k)
      BY <2>1 DEF Check
    <3>2. CASE h # r
      BY <3>1, <3>2 DEF TypeOK
    <3>3. CASE h = r
      <4>1. pc[r] \in Underway
        <5>1. Before(h, k) \in Underway
          BY <2>0, <2>00, <3>3
        <5> QED BY <3>1, <3>3, <5>1
      <4>2. pc'[r] = "checked" /\ job'[r] = k
        BY <1>0, <3>1, <3>3 DEF TypeOK
      <4>3. CASE k = "publish"
        BY <2>1, <3>1, <3>3, <4>1, <4>2, <4>3
      <4>4. CASE k # "publish"
        BY <3>1, <4>1, <4>2, <4>4
      <4> QED BY <4>3, <4>4
    <3> QED BY <3>2, <3>3
  <2>2. ASSUME NEW k \in Jobs(h), CheckFailed(h, k)
        PROVE  Goal
    <3>1. /\ pc' = [pc EXCEPT ![h] = Failed(h, k)] /\ job' = job
          /\ pc[h] = Before(h, k)
          /\ signal' = signal \/ signal' = [signal EXCEPT ![h] = "lost"]
      BY <2>2 DEF CheckFailed
    <3>2. CASE h # r
      BY <1>0, <3>1, <3>2 DEF TypeOK
    <3>3. CASE h = r
      <4>1. pc[r] \in Underway
        <5>1. Before(h, k) \in Underway
          BY <2>0, <2>00, <3>3
        <5> QED BY <3>1, <3>3, <5>1
      <4>2. pc'[r] = Failed(h, k)
        BY <1>0, <3>1, <3>3 DEF TypeOK
      <4>3. Failed(h, k) \notin InTransaction /\ Failed(h, k) \notin Unbegun
        BY <2>0, <2>00
      <4> QED BY <4>1, <4>2, <4>3
    <3> QED BY <3>2, <3>3
  <2>3. CASE OpenTxn(h) \/ SealTxn(h)
    BY <1>0, <2>3 DEF OpenTxn, SealTxn, TypeOK
  <2>4. CASE OpenTxnFailed(h) \/ AbortTxn(h)
    BY <1>0, <2>0, <2>00, <2>4 DEF OpenTxnFailed, AbortTxn, TypeOK
  <2>5. CASE CommitWrite(h)
    BY <1>0, <2>0, <2>00, <2>5 DEF CommitWrite, TypeOK
  <2> QED BY <1>3, <2>1, <2>2, <2>3, <2>4, <2>5 DEF FencedWrite
<1>4. ASSUME NEW h \in Holders, Crash(h)
      PROVE  Goal
  BY <1>0, <1>4 DEF Crash, TypeOK
<1>5. ASSUME NEW q \in Runs, RunStep(q)
      PROVE  Goal
  <2>0. q \in Holders
    BY DEF Holders
  <2>1. CASE Begin(q) \/ BeginRefused(q)
    BY <1>0, <2>0, <2>1 DEF Begin, BeginRefused, TypeOK
  <2>2. ASSUME NEW s \in WorkStages,
               StartStage(q, s) \/ FinishStage(q, s) \/ CloseSibling(q, s)
        PROVE  Goal
    BY <1>0, <2>0, <2>2
    DEF StartStage, FinishStage, CloseSibling, FailWork, TypeOK
  <2>3. CASE \/ StageError(q) \/ ClosePrimary(q) \/ Terminate(q)
             \/ TerminateRefused(q)
    BY <1>0, <2>0, <2>3
    DEF StageError, FailWork, ClosePrimary, Terminate, TerminateRefused, TypeOK
  <2>4. CASE PublishStart(q) \/ CommitPublication(q) \/ MarkFailed(q)
    BY <1>0, <2>0, <2>4 DEF PublishStart, CommitPublication, MarkFailed, TypeOK
  <2> QED BY <1>5, <2>1, <2>2, <2>3, <2>4 DEF RunStep
<1>6. ASSUME NEW q \in Runs, Cancel(q)
      PROVE  Goal
  BY <1>0, <1>6 DEF Cancel, TypeOK, Holders
<1> QED BY <1>1, <1>2, <1>3, <1>4, <1>5, <1>6 DEF Next

(* The owner of a row changes only while nobody is in a transaction. *)
LEMMA OwnerMoves ==
  ASSUME TypeOK, [Next]_vars
  PROVE  \/ lease'.holder = lease.holder /\ lease'.acquired = lease.acquired
         \/ Free /\ txn' = txn /\ \E h \in Holders : Acquire(h) \/ Release(h)
<1>1. CASE Quiet
  BY <1>1 DEF Quiet
<1>2. ASSUME NEW h \in Holders, Acquire(h) \/ Release(h)
      PROVE  Free /\ txn' = txn
  BY <1>2 DEF Acquire, Release
<1>3. ASSUME NEW h \in Holders,
             Heartbeat(h) \/ \E k \in Jobs(h) : Check(h, k)
      PROVE  lease'.holder = lease.holder /\ lease'.acquired = lease.acquired
  <2>1. PICK t : Renew(h, t)
    BY <1>3 DEF Heartbeat, Check
  <2> QED BY <2>1 DEF Renew, TypeOK, LeaseRecords
<1>4. ASSUME NEW h \in Holders, CommitWrite(h) \/ CommitPublication(h)
      PROVE  lease'.holder = lease.holder /\ lease'.acquired = lease.acquired
  BY <1>4 DEF CommitWrite, CommitPublication, TypeOK, LeaseRecords
<1>5. ASSUME NEW r \in Runs, Begin(r) \/ Terminate(r)
      PROVE  lease' = lease
  BY <1>5 DEF Begin, Terminate
<1>6. Runs \subseteq Holders
  BY DEF Holders
<1> QED BY <1>1, <1>2, <1>3, <1>4, <1>5, <1>6, StepKinds

LEMMA TxnMoves ==
  ASSUME [Next]_vars
  PROVE  \/ txn' = txn \/ txn' = NoTxn
         \/ \E h \in Holders : OpenTxn(h) \/ SealTxn(h)
<1>1. ASSUME NEW g \in Holders, FencedWrite(g), ~OpenTxn(g), ~SealTxn(g)
      PROVE  txn' = txn \/ txn' = NoTxn
  BY <1>1 DEF FencedWrite, Check, CheckFailed, OpenTxnFailed, AbortTxn,
              CommitWrite, db
<1>2. ASSUME NEW g \in Holders, LeaseStep(g) \/ Crash(g)
      PROVE  txn' = txn \/ txn' = NoTxn
  BY <1>2 DEF LeaseStep, Acquire, AcquireRefused, Heartbeat, HeartbeatFailed,
              Release, ReleaseFailed, Crash, db
<1>3. ASSUME NEW r \in Runs, RunStep(r) \/ Cancel(r)
      PROVE  txn' = txn \/ txn' = NoTxn
  BY <1>3 DEF RunStep, Begin, BeginRefused, StartStage, FinishStage,
              CloseSibling, StageError, ClosePrimary, Terminate,
              TerminateRefused, PublishStart, CommitPublication, MarkFailed,
              Cancel, db
<1>4. CASE Tick \/ Finished \/ UNCHANGED vars
  BY <1>4 DEF Tick, Finished, vars, db
<1> QED BY <1>1, <1>2, <1>3, <1>4 DEF Next

LEMMA LockMoves ==
  ASSUME TypeOK, [Next]_vars, NEW h \in Holders, txn'.by = h
  PROVE  txn.by = h \/ OpenTxn(h)
<1>1. None \notin Holders /\ NoTxn.by = None
  BY DEF NoTxn
<1>2. ASSUME NEW g \in Holders, OpenTxn(g)
      PROVE  OpenTxn(h)
  <2>1. txn'.by = g
    BY <1>2 DEF OpenTxn
  <2> QED BY <1>2, <2>1
<1>3. ASSUME NEW g \in Holders, SealTxn(g)
      PROVE  txn.by = h
  BY <1>3 DEF SealTxn, TypeOK
<1> QED BY <1>1, <1>2, <1>3, TxnMoves

(* Time passes in a step of its own, and only a crash is dated. *)
LEMMA ClockMoves ==
  ASSUME [Next]_vars
  PROVE  /\ clock' = clock \/ clock' = clock + 1
         /\ died' = died \/ \E h \in Holders : Crash(h)
<1>1. ASSUME NEW h \in Holders, LeaseStep(h)
      PROVE  clock' = clock /\ died' = died
  BY <1>1 DEF LeaseStep, Acquire, AcquireRefused, Heartbeat, HeartbeatFailed,
              Release, ReleaseFailed, local
<1>2. ASSUME NEW h \in Holders, FencedWrite(h)
      PROVE  clock' = clock /\ died' = died
  BY <1>2 DEF FencedWrite, Check, CheckFailed, OpenTxn, OpenTxnFailed, SealTxn,
              AbortTxn, CommitWrite
<1>3. ASSUME NEW r \in Runs, RunStep(r) \/ Cancel(r)
      PROVE  clock' = clock /\ died' = died
  BY <1>3 DEF RunStep, Begin, BeginRefused, StartStage, FinishStage,
              CloseSibling, StageError, ClosePrimary, Terminate,
              TerminateRefused, PublishStart, CommitPublication, MarkFailed,
              Cancel
<1>4. CASE Tick \/ Finished \/ UNCHANGED vars
  BY <1>4 DEF Tick, Finished, vars, local
<1>5. ASSUME NEW h \in Holders, Crash(h)
      PROVE  clock' = clock
  BY <1>5 DEF Crash
<1> QED BY <1>1, <1>2, <1>3, <1>4, <1>5 DEF Next

LEMMA CrashMoves ==
  ASSUME TypeOK, [Next]_vars, NEW h \in Holders, pc'[h] = "crashed"
  PROVE  pc[h] = "crashed" \/ Crash(h)
<1> DEFINE Goal == pc[h] = "crashed" \/ Crash(h)
<1> USE DEF Goto, TypeOK
<1>1. CASE Tick \/ Finished \/ UNCHANGED vars
  BY <1>1 DEF Tick, Finished, vars, local
<1>2. ASSUME NEW g \in Holders, LeaseStep(g)
      PROVE  Goal
  BY <1>2 DEF LeaseStep, Acquire, AcquireRefused, Heartbeat, HeartbeatFailed,
              Release, ReleaseFailed, local
<1>3. ASSUME NEW g \in Holders, FencedWrite(g)
      PROVE  Goal
  <2>1. /\ \A k \in Jobs(g) : Failed(g, k) # "crashed"
        /\ Failed(g, job[g]) # "crashed"
        /\ Home(g) # "crashed"
    BY DEF Failed, Home, Jobs
  <2>2. ASSUME NEW k \in Jobs(g), Check(g, k) \/ CheckFailed(g, k)
        PROVE  Goal
    BY <2>1, <2>2 DEF Check, CheckFailed
  <2>3. CASE \/ OpenTxn(g) \/ OpenTxnFailed(g) \/ SealTxn(g) \/ AbortTxn(g)
             \/ CommitWrite(g)
    BY <2>1, <2>3 DEF OpenTxn, OpenTxnFailed, SealTxn, AbortTxn, CommitWrite
  <2> QED BY <1>3, <2>2, <2>3 DEF FencedWrite
<1>4. ASSUME NEW g \in Holders, Crash(g)
      PROVE  Goal
  <2>1. CASE g = h
    BY <1>4, <2>1
  <2>2. CASE g # h
    BY <1>4, <2>2 DEF Crash
  <2> QED BY <2>1, <2>2
<1>5. ASSUME NEW r \in Runs, RunStep(r) \/ Cancel(r)
      PROVE  Goal
  <2>1. \A s \in WorkStages :
          StartStage(r, s) \/ FinishStage(r, s) \/ CloseSibling(r, s) => Goal
    BY DEF StartStage, FinishStage, CloseSibling, FailWork
  <2>2. CASE \/ Begin(r) \/ BeginRefused(r) \/ StageError(r) \/ ClosePrimary(r)
             \/ Terminate(r) \/ TerminateRefused(r) \/ PublishStart(r)
             \/ CommitPublication(r) \/ MarkFailed(r) \/ Cancel(r)
    BY <2>2 DEF Begin, BeginRefused, StageError, FailWork, ClosePrimary, Terminate,
           TerminateRefused, PublishStart, CommitPublication, MarkFailed, Cancel
  <2> QED BY <1>5, <2>1, <2>2 DEF RunStep
<1> QED BY <1>1, <1>2, <1>3, <1>4, <1>5 DEF Next

(* What a step does to attempts: one begins, one gets a receipt, or some   *)
(* that were open are given up.                                            *)
LEMMA AttemptMoves ==
  ASSUME TypeOK, [Next]_vars
  PROVE  \A q \in Ledgered :
           /\ started'[q] # started[q] => q \in Runs /\ Begin(q)
           /\ receipt'[q] # receipt[q] =>
                \/ q \in Runs /\ Terminate(q)
                \/ q \in Runs /\ CommitPublication(q)
                \/ \E r \in Runs : Begin(r) /\ q \in Expired(r)
                                 /\ receipt'[q].status = "abandoned"
<1>1. CASE UNCHANGED <<started, receipt>>
  BY <1>1
<1>2. ASSUME NEW r \in Runs, Begin(r)
      PROVE  \A q \in Ledgered :
               /\ started'[q] # started[q] => q = r
               /\ receipt'[q] # receipt[q] =>
                    q \in Expired(r) /\ receipt'[q].status = "abandoned"
  BY <1>2 DEF Begin, AfterAbandoning, TypeOK
<1>3. ASSUME NEW r \in Runs, Terminate(r) \/ CommitPublication(r)
      PROVE  \A q \in Ledgered :
               /\ started'[q] = started[q]
               /\ receipt'[q] # receipt[q] => q = r
  BY <1>3 DEF Terminate, CommitPublication, TypeOK
<1>4. ASSUME NEW h \in Holders,
             \/ Acquire(h) \/ Release(h) \/ Heartbeat(h) \/ CommitWrite(h)
             \/ \E k \in Jobs(h) : Check(h, k)
      PROVE  UNCHANGED <<started, receipt>>
  BY <1>4 DEF Acquire, Release, Heartbeat, CommitWrite, Check
<1>5. Quiet => UNCHANGED <<started, receipt>>
  BY DEF Quiet
<1> QED BY <1>1, <1>2, <1>3, <1>4, <1>5, StepKinds
LEMMA FlowStep == TypeOK /\ LockInv /\ FlowInv /\ [Next]_vars => FlowInv'
<1> SUFFICES ASSUME TypeOK, LockInv, FlowInv, [Next]_vars PROVE FlowInv'
  OBVIOUS
<1>0. \A r \in Runs : r \in Holders /\ r \in Ledgered
  BY DEF Holders, Ledgered
<1>1. ASSUME NEW r \in Runs, pc'[r] \in Unbegun
      PROVE  started'[r] = NotBegun /\ receipt'[r].status = "none"
  <2>1. pc[r] \in Unbegun
    BY <1>1, Moves
  <2>2. started[r] = NotBegun /\ receipt[r].status = "none"
    BY <2>1 DEF FlowInv
  <2>3. ~Begin(r) /\ ~Terminate(r) /\ ~CommitPublication(r)
    BY <1>0, <1>1, <2>1
    DEF Begin, Terminate, CommitPublication, Goto, Unbegun, TypeOK
  <2>4. \A q \in Runs : r \notin Expired(q)
    BY <2>2 DEF Expired, Opened
  <2> QED BY <1>0, <2>2, <2>3, <2>4, AttemptMoves
<1>2. ASSUME NEW r \in Runs, pc'[r] \in Underway
      PROVE  started'[r] # NotBegun
  <2>1. CASE Begin(r)
    <3>1. PICK t \in Reads(r) : started' = [started EXCEPT ![r] = t]
      BY <2>1 DEF Begin
    <3>2. t \in Nat
      BY ReadsAreTimes
    <3> QED BY <1>0, <3>1, <3>2 DEF NotBegun, TypeOK
  <2>2. CASE ~Begin(r)
    <3>1. started[r] # NotBegun
      BY <1>2, <2>2, Moves DEF FlowInv
    <3> QED BY <1>0, <2>2, <3>1, AttemptMoves
  <2> QED BY <2>1, <2>2
<1>3. ASSUME NEW h \in Holders, txn'.by = h
      PROVE  lease'.holder = h
  <2>1. CASE txn.by = h
    <3>1. ~Free
      BY <2>1 DEF Free
    <3> QED BY <2>1, <3>1, OwnerMoves DEF FlowInv
  <2>2. CASE OpenTxn(h)
    <3>1. lease' = lease /\ lease.holder = h
      BY <2>2 DEF OpenTxn, Fenced, Renewable
    <3> QED BY <3>1
  <2> QED BY <1>3, <2>1, <2>2, LockMoves
<1>4. ASSUME NEW r \in Runs, pc'[r] \in InTransaction, job'[r] = "publish"
      PROVE  signal'[r] = "clear"
  <2>1. CASE Check(r, "publish")
    BY <2>1 DEF Check, Allowed
  <2>2. CASE pc[r] \in InTransaction /\ job[r] = "publish"
    <3>1. signal[r] = "clear"
      BY <2>2 DEF FlowInv
    <3> QED BY <1>4, <3>1, Moves
  <2> QED BY <1>4, <2>1, <2>2, Moves
<1> QED BY <1>1, <1>2, <1>3, <1>4 DEF FlowInv

-----------------------------------------------------------------------------
(* How long a lease lasts *)

LeaseInv ==
  /\ lease.expires <= clock + TTL
  /\ txn.by # None => txn.expires <= clock + TTL
  /\ CrashedHolderBlocksAtMostTTL

LEMMA LeaseInitially == Init => LeaseInv
BY DEF Init, LeaseInv, CrashedHolderBlocksAtMostTTL, NoLease, NoTxn

LEMMA RenewalIsShort ==
  ASSUME TypeOK, LeaseInv, NEW h \in Holders, NEW t \in Reads(h), Renew(h, t)
  PROVE  lease'.expires <= clock + TTL /\ lease'.holder = h /\ lease.holder = h
<1>1. /\ t \in Nat /\ t <= clock /\ clock \in Nat /\ TTL \in Nat
      /\ lease.expires \in Nat
  BY ReadsAreTimes DEF Reads, TypeOK, LeaseRecords, Time
<1>2. Later(lease.expires, t + TTL) <= clock + TTL
  BY <1>1 DEF Later, LeaseInv
<1> QED BY <1>2 DEF Renew, Renewable, TypeOK, LeaseRecords

LEMMA LeaseStepsKeep ==
  TypeOK /\ LockInv /\ FlowInv /\ LeaseInv /\ [Next]_vars => LeaseInv'
<1> SUFFICES ASSUME TypeOK, LockInv, FlowInv, LeaseInv, [Next]_vars
             PROVE  LeaseInv'
  OBVIOUS
<1>0. /\ clock \in Nat /\ TTL \in Nat /\ clock' \in Nat /\ clock' >= clock
      /\ lease.expires \in Nat /\ txn.expires \in Nat
  BY ClockMoves DEF TypeOK, Time, LeaseRecords
<1>00. None \notin Holders /\ Runs \subseteq Holders
  BY DEF Holders
<1> DEFINE Kept(h) == lease'.expires <= clock + TTL /\ lease'.holder = h
                      /\ pc[h] # "crashed" /\ ~Crash(h)
<1>1. ASSUME NEW h \in Holders, Acquire(h)
      PROVE  lease'.expires <= clock + TTL /\ lease'.holder = h /\ pc[h] # "crashed"
  <2>1. PICK t \in Reads(h) :
          lease' = [holder |-> h, acquired |-> t, expires |-> t + TTL]
    BY <1>1 DEF Acquire
  <2>2. t \in Nat /\ t <= clock
    BY ReadsAreTimes DEF Reads
  <2> QED BY <1>0, <1>1, <2>1, <2>2 DEF Acquire
<1>2. ASSUME NEW h \in Holders, Heartbeat(h) \/ \E k \in Jobs(h) : Check(h, k)
      PROVE  lease'.expires <= clock + TTL /\ lease'.holder = h /\ pc[h] # "crashed"
  <2>1. PICK t \in Reads(h) : Renew(h, t)
    BY <1>2 DEF Heartbeat, Check
  <2>2. pc[h] # "crashed"
    BY <1>2 DEF Heartbeat, Check, Before, Home, Jobs
  <2> QED BY <2>1, <2>2, RenewalIsShort
<1>3. ASSUME NEW h \in Holders, CommitWrite(h) \/ CommitPublication(h)
      PROVE  lease'.expires <= clock + TTL /\ lease'.holder = h /\ pc[h] # "crashed"
  <2>1. /\ pc[h] = "sealed"
        /\ lease' = [lease EXCEPT !.expires = txn.expires]
    BY <1>3 DEF CommitWrite, CommitPublication
  <2>2. txn.by = h /\ lease.holder = h
    BY <2>1 DEF LockInv, FlowInv
  <2>3. txn.expires <= clock + TTL
    BY <1>00, <2>2 DEF LeaseInv
  <2> QED BY <2>1, <2>2, <2>3 DEF TypeOK, LeaseRecords
<1>4. ASSUME NEW h \in Holders, Release(h)
      PROVE  lease' = lease \/ (lease'.expires <= clock + TTL /\ lease'.holder = None)
  <2>1. NoLease.expires = 0 /\ NoLease.holder = None
    BY DEF NoLease
  <2>2. lease' = lease \/ lease' = NoLease
    BY <1>4 DEF Release
  <2> QED BY <1>0, <2>1, <2>2
<1>5. \/ lease' = lease
      \/ /\ lease'.expires <= clock + TTL
         /\ \/ lease'.holder = None
            \/ \E h \in Holders : lease'.holder = h /\ pc[h] # "crashed"
  <2>1. Quiet => lease' = lease
    BY DEF Quiet
  <2>2. \A r \in Runs : Begin(r) \/ Terminate(r) => lease' = lease
    BY DEF Begin, Terminate
  <2> QED BY <1>00, <1>1, <1>2, <1>3, <1>4, <2>1, <2>2, StepKinds
<1>6. lease'.expires <= clock' + TTL
  <2>1. lease'.expires \in Nat
    BY TypeStep DEF TypeOK, LeaseRecords
  <2> QED BY <1>0, <1>5, <2>1 DEF LeaseInv
<1>7. txn'.by # None => txn'.expires <= clock' + TTL
  <2>1. CASE txn' = txn
    BY <1>0, <2>1 DEF LeaseInv
  <2>2. CASE txn' = NoTxn
    BY <2>2 DEF NoTxn
  <2>3. ASSUME NEW h \in Holders, OpenTxn(h) \/ SealTxn(h)
        PROVE  txn'.expires <= clock' + TTL
    <3>1. CASE OpenTxn(h)
      <4>1. txn'.expires = Later(lease.expires, clock + TTL)
        BY <3>1 DEF OpenTxn
      <4> QED BY <1>0, <4>1 DEF Later, LeaseInv
    <3>2. CASE SealTxn(h)
      <4>1. txn'.expires = Later(txn.expires, clock + TTL)
        BY <3>2 DEF SealTxn, TypeOK
      <4>2. txn.by = h
        BY <3>2 DEF SealTxn, LockInv
      <4> QED BY <1>0, <1>00, <4>1, <4>2 DEF Later, LeaseInv
    <3> QED BY <2>3, <3>1, <3>2
  <2> QED BY <2>1, <2>2, <2>3, TxnMoves
<1>8. ASSUME NEW h \in Holders, pc'[h] = "crashed", lease'.holder = h
      PROVE  lease'.expires <= died'[h] + TTL
  <2>1. CASE Crash(h)
    <3>1. lease' = lease /\ died'[h] = clock
      BY <2>1 DEF Crash, TypeOK
    <3> QED BY <3>1 DEF LeaseInv
  <2>2. CASE ~Crash(h)
    <3>1. pc[h] = "crashed"
      BY <1>8, <2>2, CrashMoves
    <3>2. died'[h] = died[h]
      BY <2>2, ClockMoves DEF Crash, TypeOK
    <3>3. lease' = lease
      BY <1>00, <1>5, <1>8, <3>1
    <3> QED BY <1>8, <3>1, <3>2, <3>3 DEF LeaseInv, CrashedHolderBlocksAtMostTTL
  <2> QED BY <2>1, <2>2
<1>9. CrashedHolderBlocksAtMostTTL'
  BY <1>8 DEF CrashedHolderBlocksAtMostTTL
<1> QED BY <1>6, <1>7, <1>9 DEF LeaseInv

-----------------------------------------------------------------------------
(* What is open under a lease *)

LEMMA NoStaleStep ==
  ReceiptInv /\ FlowInv /\ NoStaleOpenAttempt /\ [Next]_vars =>
    NoStaleOpenAttempt'
<1> SUFFICES ASSUME ReceiptInv, FlowInv, NoStaleOpenAttempt, [Next]_vars,
                    NEW s \in Runs, lease'.holder = s, Opened(s)',
                    NEW q \in Ledgered \ {s}, Opened(q)'
             PROVE  started'[q] >= lease'.acquired
  BY DEF NoStaleOpenAttempt
<1>0. TypeOK /\ s \in Holders /\ s \in Ledgered /\ None \notin Holders
  BY DEF ReceiptInv, Holders, Ledgered
<1>1. CASE Begin(s)
  <2>1. /\ lease' = lease /\ receipt' = AfterAbandoning(s)
        /\ started'[q] = started[q]
    BY <1>0, <1>1 DEF Begin, TypeOK
  <2>2. q \notin Expired(s)
    <3>1. receipt'[q].status = "none"
      BY DEF Opened, Terminated
    <3> QED BY <2>1, <3>1 DEF AfterAbandoning
  <2>3. Opened(q)
    BY <2>1, <2>2 DEF Opened, Terminated, AfterAbandoning
  <2>4. started[q] \in Int /\ lease.acquired \in Nat
    BY <1>0 DEF TypeOK, LeaseRecords, Time, NotBegun
  <2> QED BY <2>1, <2>2, <2>3, <2>4 DEF Expired
<1>2. CASE ~Begin(s)
  <2>1. started'[s] = started[s]
    BY <1>0, <1>2, AttemptMoves
  <2>2. ASSUME NEW p \in Ledgered, Opened(p)', started'[p] = started[p]
        PROVE  Opened(p)
    BY <2>2, ReceiptStep DEF Opened, Terminated
  <2>3. Opened(s)
    BY <1>0, <2>1, <2>2
  <2>4. pc[s] # "idle"
    BY <2>3 DEF FlowInv, Opened, Unbegun
  <2>5. lease'.holder = lease.holder /\ lease'.acquired = lease.acquired
    <3>1. ~Acquire(s)
      BY <2>4 DEF Acquire
    <3>2. \A h \in Holders : Acquire(h) => lease'.holder = h
      BY DEF Acquire
    <3>3. \A h \in Holders : Release(h) => lease' = lease \/ lease'.holder = None
      BY DEF Release, NoLease
    <3> QED BY <1>0, <3>1, <3>2, <3>3, OwnerMoves
  <2>6. started'[q] = started[q]
    <3>1. \A r \in Runs : Begin(r) => lease.holder = r
      BY DEF Begin, Fenced, Renewable
    <3> QED BY <1>0, <2>5, <3>1, AttemptMoves
  <2> QED BY <2>2, <2>3, <2>5, <2>6 DEF NoStaleOpenAttempt
<1> QED BY <1>1, <1>2

-----------------------------------------------------------------------------
(* What is published *)

Succeeded(rec) == {i \in 1..Len(history) : rec[history[i]].status = "success"}

(* Abandonment makes no success and undoes none. *)
LEMMA AbandoningKeepsSuccess ==
  ASSUME TypeOK, NEW r \in Runs
  PROVE  /\ Succeeded(AfterAbandoning(r)) = Succeeded(receipt)
         /\ \A q \in Ledgered :
              AfterAbandoning(r)[q].status = "success" <=>
                receipt[q].status = "success"
<1>1. \A q \in Ledgered :
        AfterAbandoning(r)[q].status = "success" <=> receipt[q].status = "success"
  BY DEF AfterAbandoning, Expired, Opened, Terminated
<1>2. \A i \in 1..Len(history) : history[i] \in Ledgered
  BY ElementOfSeq DEF TypeOK
<1> QED BY <1>1, <1>2 DEF Succeeded

LEMMA TipInitially == Init => PublishedTip
<1> SUFFICES ASSUME Init PROVE PublishedTip
  OBVIOUS
<1>1. PICK n \in 0..Len(OldRuns) :
        /\ history = SubSeq(OldRuns, 1, n)
        /\ tip = IF n = 0 THEN None ELSE OldRuns[n]
  BY DEF Init
<1>2. CASE n = 0
  <2>1. history = <<>> /\ tip = None
    BY <1>1, <1>2, SMT
  <2> QED BY <2>1 DEF PublishedTip
<1>3. CASE n # 0
  <2>1. n \in 1..Len(OldRuns) /\ OldRuns \in Seq(Old)
    BY <1>3
  <2>2. Len(history) = n /\ history[n] = OldRuns[n]
    BY <1>1, <2>1, SubSeqProperties
  <2>3. tip = history[n] /\ tip \in Old
    BY <1>1, <1>3, <2>1, <2>2 DEF Old
  <2>4. CASE receipt[history[n]].status = "success"
    BY <2>1, <2>2, <2>3, <2>4 DEF PublishedTip
  <2>5. CASE receipt[history[n]].status # "success"
    BY <2>1, <2>2, <2>3, <2>5 DEF PublishedTip
  <2> QED BY <2>4, <2>5
<1> QED BY <1>2, <1>3

(* The publication a recovery puts back is the newest that succeeded.  The *)
(* code looks only at those before the displaced one: PublishedTip says    *)
(* that there are no others.                                               *)
LEMMA RecoveryFindsNewest ==
  ASSUME TypeOK, PublishedTip, NEW r \in Runs, NEW rec,
         rec = AfterAbandoning(r), NeedsRecovery(rec), RecoverTip(rec)
  PROVE  \/ tip' = None /\ Succeeded(rec) = {}
         \/ \E i \in Succeeded(rec) :
              /\ tip' = history[i]
              /\ \A j \in (i + 1)..Len(history) : j \notin Succeeded(rec)
<1>0. Len(history) \in Nat /\ \A i \in 1..Len(history) : history[i] \in Ledgered
  BY ElementOfSeq, LenProperties DEF TypeOK
<1>1. Succeeded(rec) = Succeeded(receipt)
  BY AbandoningKeepsSuccess
<1>2. \A i \in Succeeded(rec) : tip # history[i]
  BY DEF NeedsRecovery, Unsuccessful, Succeeded
<1>3. CASE tip = None /\ Succeeded(receipt) = {}
  BY <1>3 DEF NeedsRecovery
<1>4. CASE tip = history[Len(history)] /\ Len(history) \notin Succeeded(receipt)
  <2>1. ASSUME Candidates(rec) = {}
        PROVE  Succeeded(rec) = {}
    <3>1. SUFFICES ASSUME NEW i \in Succeeded(rec) PROVE FALSE
      OBVIOUS
    <3>2. i \in 1..Len(history) /\ i # Len(history) /\ rec[history[i]].status = "success"
      BY <1>1, <1>4, <3>1 DEF Succeeded
    <3>3. Len(history) \in (i + 1)..Len(history)
      BY <1>0, <3>2
    <3>4. i \in Candidates(rec)
      BY <1>4, <3>2, <3>3 DEF Candidates
    <3> QED BY <2>1, <3>4
  <2>2. ASSUME NEW i \in Candidates(rec), Restorable(i, rec)
        PROVE  /\ i \in Succeeded(rec)
               /\ \A j \in (i + 1)..Len(history) : j \notin Succeeded(rec)
    BY <2>2 DEF Candidates, Restorable, Succeeded, Unsuccessful
  <2> QED BY <2>1, <2>2 DEF RecoverTip
<1>5. CASE \E i \in Succeeded(receipt) : tip = history[i]
  BY <1>1, <1>2, <1>5
<1> QED BY <1>3, <1>4, <1>5 DEF PublishedTip, Succeeded

LEMMA TipStep == ReceiptInv /\ PublishedTip /\ [Next]_vars => PublishedTip'
<1> SUFFICES ASSUME ReceiptInv, PublishedTip, [Next]_vars PROVE PublishedTip'
  OBVIOUS
<1>0. /\ TypeOK /\ Len(history) \in Nat /\ history \in Seq(Ledgered)
      /\ \A i \in 1..Len(history) : history[i] \in Ledgered
      /\ \A r \in Runs : r \in Ledgered /\ r \in Holders
  BY ElementOfSeq, LenProperties DEF ReceiptInv, TypeOK, Ledgered, Holders
<1>1. ASSUME history' = history, tip' = tip,
             \A q \in Ledgered : receipt'[q].status = "success" <=>
                                   receipt[q].status = "success"
      PROVE  PublishedTip'
  BY <1>0, <1>1 DEF PublishedTip
<1>2. ASSUME NEW r \in Runs, Begin(r)
      PROVE  PublishedTip'
  <2> DEFINE rec == AfterAbandoning(r)
  <2>1. receipt' = rec /\ RecoverTip(rec) /\ history' = history
    BY <1>2 DEF Begin
  <2>2. CASE ~NeedsRecovery(rec)
    <3>1. tip' = tip
      BY <2>1, <2>2 DEF RecoverTip
    <3> QED BY <1>0, <1>1, <2>1, <3>1, AbandoningKeepsSuccess
  <2>3. CASE NeedsRecovery(rec)
    <3> HIDE DEF rec
    <3>1. \/ tip' = None /\ Succeeded(rec) = {}
          \/ \E i \in Succeeded(rec) :
               /\ tip' = history[i]
               /\ \A j \in (i + 1)..Len(history) : j \notin Succeeded(rec)
      BY <1>0, <2>1, <2>3, RecoveryFindsNewest DEF rec
    <3>2. {i \in 1..Len(history') : receipt'[history'[i]].status = "success"}
            = Succeeded(rec)
      BY <2>1 DEF Succeeded
    <3>3. \A i, j \in Succeeded(rec) : j \in (i + 1)..Len(history) \/ j <= i
      BY <1>0 DEF Succeeded
    <3>4. CASE tip' = None /\ Succeeded(rec) = {}
      BY <3>2, <3>4 DEF PublishedTip
    <3>5. ASSUME NEW i \in Succeeded(rec), tip' = history[i],
                 \A j \in (i + 1)..Len(history) : j \notin Succeeded(rec)
          PROVE  PublishedTip'
      <4>1. \A j \in Succeeded(rec) : j <= i
        BY <3>3, <3>5
      <4>2. tip' = history'[i]
        BY <2>1, <3>5
      <4> QED BY <3>2, <3>5, <4>1, <4>2 DEF PublishedTip
    <3> QED BY <3>1, <3>4, <3>5
  <2> QED BY <2>2, <2>3
<1>3. ASSUME NEW r \in Runs, Terminate(r)
      PROVE  PublishedTip'
  <2>1. /\ history' = history /\ tip' = tip /\ ~Terminated(r)
        /\ receipt' = [receipt EXCEPT ![r] =
                         [status |-> "failure", count |-> Len(events[r])]]
    BY <1>3 DEF Terminate
  <2>2. \A q \in Ledgered : receipt'[q].status = "success" <=>
                              receipt[q].status = "success"
    <3> TAKE q \in Ledgered
    <3>1. CASE q = r
      <4>1. receipt'[r].status = "failure"
        BY <1>0, <2>1 DEF TypeOK
      <4> QED BY <2>1, <3>1, <4>1 DEF Terminated
    <3>2. CASE q # r
      BY <1>0, <2>1, <3>2 DEF TypeOK
    <3> QED BY <3>1, <3>2
  <2> QED BY <1>1, <2>1, <2>2
<1>4. ASSUME NEW r \in Runs, CommitPublication(r)
      PROVE  PublishedTip'
  <2> DEFINE n == Len(history) + 1
  <2>1. history' = Append(history, r) /\ tip' = r
    BY <1>4 DEF CommitPublication
  <2>2. receipt'[r].status = "success"
    <3>1. receipt' = [receipt EXCEPT ![r] =
                        [status |-> "success", count |-> Len(events'[r])]]
      BY <1>4 DEF CommitPublication
    <3> QED BY <1>0, <3>1 DEF TypeOK
  <2>3. Len(history') = n /\ history'[n] = r /\ n \in Nat
    BY <1>0, <2>1, AppendProperties
  <2>4. /\ n \in {i \in 1..Len(history') : receipt'[history'[i]].status = "success"}
        /\ \A j \in {i \in 1..Len(history') : receipt'[history'[i]].status = "success"} :
             j <= n
    BY <1>0, <2>2, <2>3
  <2> QED BY <2>1, <2>3, <2>4 DEF PublishedTip
<1>5. ASSUME NEW h \in Holders,
             \/ Acquire(h) \/ Release(h) \/ Heartbeat(h) \/ CommitWrite(h)
             \/ \E k \in Jobs(h) : Check(h, k)
      PROVE  UNCHANGED <<receipt, history, tip>>
  BY <1>5 DEF Acquire, Release, Heartbeat, CommitWrite, Check
<1>6. Quiet => UNCHANGED <<receipt, history, tip>>
  BY DEF Quiet
<1>7. UNCHANGED <<receipt, history, tip>> => PublishedTip'
  BY <1>1
<1> QED BY <1>2, <1>3, <1>4, <1>5, <1>6, <1>7, StepKinds

LEMMA PublishesClear ==
  ASSUME TypeOK, FlowInv, [Next]_vars, NEW r \in Runs, signal[r] # "clear",
         history' # history
  PROVE  tip' # r
<1>1. PICK q \in Runs : CommitPublication(q)
  <2>1. ASSUME NEW h \in Holders,
               \/ Acquire(h) \/ Release(h) \/ Heartbeat(h) \/ CommitWrite(h)
               \/ \E k \in Jobs(h) : Check(h, k)
        PROVE  history' = history
    BY <2>1 DEF Acquire, Release, Heartbeat, CommitWrite, Check
  <2>2. \A q \in Runs : Begin(q) \/ Terminate(q) => history' = history
    BY DEF Begin, Terminate
  <2>3. Quiet => history' = history
    BY DEF Quiet
  <2> QED BY <2>1, <2>2, <2>3, StepKinds
<1>2. tip' = q /\ pc[q] = "sealed" /\ job[q] = "publish"
  BY <1>1 DEF CommitPublication
<1>3. signal[q] = "clear"
  BY <1>2 DEF FlowInv, InTransaction
<1> QED BY <1>2, <1>3

-----------------------------------------------------------------------------
(* The inductive invariant, and what follows from it *)

LedgerInv ==
  ReceiptInv /\ FlowInv /\ LeaseInv /\ NoStaleOpenAttempt /\ PublishedTip

(* Receipts, control, the lease, stale attempts and the tip hold together: *)
(* each of the five is preserved by every step with the help of those      *)
(* before it.                                                              *)
THEOREM LedgerInvariant == Spec => []LedgerInv
<1>1. Init => LedgerInv
  <2>1. Init => NoStaleOpenAttempt
    BY DEF Init, NoLease, NoStaleOpenAttempt, Holders
  <2> QED
    BY <2>1, ReceiptInitially, FlowInitially, LeaseInitially, TipInitially
    DEF LedgerInv
<1>2. LedgerInv /\ [Next]_vars => LedgerInv'
  <2>1. ReceiptInv /\ [Next]_vars => ReceiptInv'
    BY TypeStep, LockStep, ReceiptStep DEF ReceiptInv
  <2> QED
    BY <2>1, FlowStep, LeaseStepsKeep, NoStaleStep, TipStep
    DEF LedgerInv, ReceiptInv
<1> QED BY <1>1, <1>2, PTL DEF Spec

(* A killed holder blocks others for at most one lifetime of the lease:    *)
(* renewRefreshLease and the renewals inside a transaction never add up.   *)
THEOREM DeadHoldersBlockShortly == Spec => []CrashedHolderBlocksAtMostTTL
<1>1. LedgerInv => CrashedHolderBlocksAtMostTTL
  BY DEF LedgerInv, LeaseInv
<1> QED BY <1>1, LedgerInvariant, PTL

(* beginRefreshOperationAttempt leaves no earlier attempt open under the   *)
(* lease it runs on, whatever the clocks that the two actors read.         *)
THEOREM SuccessorsCloseAttempts == Spec => []NoStaleOpenAttempt
<1>1. LedgerInv => NoStaleOpenAttempt
  BY DEF LedgerInv
<1> QED BY <1>1, LedgerInvariant, PTL

(* The current publication is the newest whose run succeeded, for files of *)
(* any number of earlier attempts and through any number of recoveries.    *)
THEOREM NewestSuccessIsCurrent == Spec => []PublishedTip
<1>1. LedgerInv => PublishedTip
  BY DEF LedgerInv
<1> QED BY <1>1, LedgerInvariant, PTL

(* throwIfAborted before the publishing transaction is enough: nothing     *)
(* between it and the commit lets a signal through.                        *)
THEOREM CancelledRunsDoNotPublish == Spec => CancelledNeverPublishes
<1>1. LedgerInv /\ [Next]_vars =>
        [\A r \in Runs : signal[r] # "clear" /\ history' # history => tip' # r]_vars
  BY PublishesClear DEF LedgerInv, ReceiptInv
<1> QED BY <1>1, LedgerInvariant, PTL DEF Spec, CancelledNeverPublishes

-----------------------------------------------------------------------------
(* Refinement *)

LEMMA AuthorityInitially == Init => Authority!Init
<1> SUFFICES ASSUME Init PROVE Authority!Init
  OBVIOUS
<1>1. TypeOK
  BY TypeInitially
<1>2. \A r \in Ledgered : Outcome(r) \in Authority!Outcomes
  BY <1>1 DEF Outcome, Authority!Outcomes, TypeOK, ReceiptRecords
<1>3. \A r \in Runs : r \in Ledgered /\ Outcome(r) = "none"
  <2>1. \A r \in Runs : pc[r] \in Unbegun
    BY DEF Init, Unbegun, Holders
  <2> QED BY <2>1, FlowInitially DEF FlowInv, Outcome, Terminated, Ledgered
<1>4. tip = IF history = <<>> THEN None ELSE history[Len(history)]
  <2>1. PICK n \in 0..Len(OldRuns) :
          /\ history = SubSeq(OldRuns, 1, n)
          /\ tip = IF n = 0 THEN None ELSE OldRuns[n]
    BY DEF Init
  <2>2. CASE n = 0
    <3>1. history = <<>>
      BY <2>1, <2>2, SMT
    <3> QED BY <2>1, <2>2, <3>1
  <2>3. CASE n # 0
    <3>1. n \in 1..Len(OldRuns) /\ OldRuns \in Seq(Old)
      BY <2>3
    <3>2. Len(history) = n /\ history[n] = OldRuns[n]
      BY <2>1, <3>1, SubSeqProperties
    <3>3. history # <<>>
      BY <3>1, <3>2
    <3> QED BY <2>1, <2>3, <3>2, <3>3
  <2> QED BY <2>2, <2>3
<1> QED
  BY <1>1, <1>2, <1>3, <1>4 DEF Authority!Init, Init, NoLease, TypeOK

(* The outcome of a run after a step that changes its receipt or start. *)
LEMMA OutcomesOfAbandoning ==
  ASSUME LedgerInv, NEW r \in Runs, Begin(r)
  PROVE  /\ Outcome(r) = "none"
         /\ \A q \in Ledgered :
              Outcome(q)' = IF q = r THEN "open"
                            ELSE IF q \in Expired(r) THEN "abandoned"
                            ELSE Outcome(q)
<1>0. TypeOK /\ r \in Ledgered
  BY DEF LedgerInv, ReceiptInv, Ledgered
<1>1. started[r] = NotBegun /\ receipt[r].status = "none"
  BY DEF LedgerInv, FlowInv, Begin, Unbegun
<1>2. PICK t \in Reads(r) : started' = [started EXCEPT ![r] = t]
  BY DEF Begin
<1>3. t # NotBegun
  BY ReadsAreTimes DEF NotBegun
<1>4. receipt' = AfterAbandoning(r)
  BY DEF Begin
<1>5. Outcome(r) = "none"
  BY <1>1 DEF Outcome, Terminated
<1>6. ASSUME NEW q \in Ledgered
      PROVE  Outcome(q)' = IF q = r THEN "open"
                           ELSE IF q \in Expired(r) THEN "abandoned"
                           ELSE Outcome(q)
  <2>1. CASE q = r
    <3>1. receipt'[q].status = "none" /\ started'[q] = t
      BY <1>0, <1>1, <1>2, <1>4, <2>1 DEF AfterAbandoning, Expired, TypeOK
    <3> QED BY <1>3, <2>1, <3>1 DEF Outcome, Terminated
  <2>2. CASE q # r /\ q \in Expired(r)
    <3>1. receipt'[q].status = "abandoned"
      BY <1>4, <2>2 DEF AfterAbandoning
    <3> QED BY <2>2, <3>1 DEF Outcome, Terminated
  <2>3. CASE q # r /\ q \notin Expired(r)
    <3>1. receipt'[q] = receipt[q] /\ started'[q] = started[q]
      BY <1>0, <1>2, <1>4, <2>3 DEF AfterAbandoning, TypeOK
    <3> QED BY <2>3, <3>1 DEF Outcome, Terminated
  <2> QED BY <2>1, <2>2, <2>3
<1> QED BY <1>5, <1>6

LEMMA BeginOpens ==
  ASSUME LedgerInv, NEW r \in Runs, Begin(r)
  PROVE  Authority!Open(r)
<1> DEFINE out == [q \in Ledgered |-> Outcome(q)]
           rec == AfterAbandoning(r)
           A == Expired(r)
<1>0. /\ TypeOK /\ PublishedTip /\ r \in Ledgered
      /\ Len(history) \in Nat
      /\ \A i \in 1..Len(history) : history[i] \in Ledgered
  BY ElementOfSeq, LenProperties
  DEF LedgerInv, ReceiptInv, TypeOK, Ledgered
<1>1. lease.holder = r /\ lease' = lease /\ history' = history /\ evidence' = evidence
  BY DEF Begin, Fenced, Renewable
<1>2. receipt' = rec /\ RecoverTip(rec)
  BY DEF Begin
<1>3. out[r] = "none"
  BY <1>0, OutcomesOfAbandoning
<1>4. A \in SUBSET {q \in Ledgered \ {r} : out[q] = "open"}
  BY DEF Expired, Opened, Outcome
<1>5. out' = [q \in Ledgered |-> IF q = r THEN "open"
                                 ELSE IF q \in A THEN "abandoned" ELSE out[q]]
  BY OutcomesOfAbandoning
<1>6. \A q \in Ledgered :
        /\ out'[q] = "success" <=> rec[q].status = "success"
        /\ out'[q] \in {"failure", "abandoned"} <=> Unsuccessful(rec[q])
  BY <1>2 DEF Outcome, Terminated, Unsuccessful
<1> HIDE DEF out, rec, A
<1>7. CASE ~NeedsRecovery(rec)
  <2>1. tip' = tip
    BY <1>2, <1>7 DEF RecoverTip
  <2>2. ~(tip # None /\ out'[tip] \in {"failure", "abandoned"})
    BY <1>0, <1>6, <1>7 DEF NeedsRecovery, TypeOK
  <2> QED BY <1>1, <1>3, <1>4, <1>5, <2>1, <2>2 DEF Authority!Open, out
<1>8. CASE NeedsRecovery(rec)
  <2>1. tip # None /\ out'[tip] \in {"failure", "abandoned"}
    BY <1>0, <1>6, <1>8 DEF NeedsRecovery, TypeOK
  <2>2. \/ tip' = None /\ Succeeded(rec) = {}
        \/ \E i \in Succeeded(rec) :
             /\ tip' = history[i]
             /\ \A j \in (i + 1)..Len(history) : j \notin Succeeded(rec)
    BY <1>0, <1>2, <1>8, RecoveryFindsNewest DEF rec
  <2>3. \A i \in 1..Len(history) : out'[history[i]] = "success" <=> i \in Succeeded(rec)
    BY <1>0, <1>6 DEF Succeeded
  <2>4. Authority!NewestSuccess(history, out', tip')
    <3>1. CASE tip' = None /\ Succeeded(rec) = {}
      BY <2>3, <3>1 DEF Authority!NewestSuccess
    <3>2. ASSUME NEW i \in Succeeded(rec), tip' = history[i],
                 \A j \in (i + 1)..Len(history) : j \notin Succeeded(rec)
          PROVE  Authority!NewestSuccess(history, out', tip')
      <4>1. i \in 1..Len(history) /\ out'[history[i]] = "success"
        BY <2>3 DEF Succeeded
      <4>2. \A j \in (i + 1)..Len(history) : out'[history[j]] # "success"
        BY <1>0, <2>3, <3>2, <4>1
      <4> QED BY <3>2, <4>1, <4>2 DEF Authority!NewestSuccess
    <3> QED BY <2>2, <3>1, <3>2
  <2> QED BY <1>1, <1>3, <1>4, <1>5, <2>1, <2>4 DEF Authority!Open, out
<1> QED BY <1>7, <1>8

LEMMA AuthorityStep == LedgerInv /\ [Next]_vars => [Authority!Next]_(Authority!vars)
<1> SUFFICES ASSUME LedgerInv, [Next]_vars
             PROVE  Authority!Next \/ UNCHANGED Authority!vars
  OBVIOUS
<1> DEFINE out == [q \in Ledgered |-> Outcome(q)]
<1>0. /\ TypeOK /\ LockInv /\ SealInv /\ FlowInv
      /\ \A r \in Runs : r \in Ledgered /\ r \in Holders
  BY DEF LedgerInv, ReceiptInv, Ledgered, Holders
<1>1. ASSUME UNCHANGED <<started, receipt>>
      PROVE  out' = out
  BY <1>1 DEF Outcome, Terminated
<1>2. CASE Quiet
  BY <1>1, <1>2 DEF Quiet, Authority!vars
<1>3. ASSUME NEW h \in Holders, Acquire(h)
      PROVE  Authority!Grant(h)
  <2>1. lease'.holder = h
    BY <1>3 DEF Acquire
  <2>2. UNCHANGED <<started, receipt, history, tip, evidence>>
    BY <1>3 DEF Acquire
  <2> QED BY <1>1, <2>1, <2>2 DEF Authority!Grant
<1>4. ASSUME NEW h \in Holders, Release(h)
      PROVE  Authority!Drop \/ UNCHANGED Authority!vars
  <2>1. lease' = lease \/ lease'.holder = None
    BY <1>4 DEF Release, NoLease
  <2>2. UNCHANGED <<started, receipt, history, tip, evidence>>
    BY <1>4 DEF Release
  <2> QED BY <1>1, <2>1, <2>2 DEF Authority!Drop, Authority!vars
<1>5. ASSUME NEW h \in Holders, Heartbeat(h) \/ \E k \in Jobs(h) : Check(h, k)
      PROVE  UNCHANGED Authority!vars
  <2>1. lease'.holder = lease.holder
    <3>1. PICK t : Renew(h, t)
      BY <1>5 DEF Heartbeat, Check
    <3> QED BY <1>0, <3>1 DEF Renew, TypeOK, LeaseRecords
  <2>2. UNCHANGED <<started, receipt, history, tip, evidence>>
    BY <1>5 DEF Heartbeat, Check
  <2> QED BY <1>1, <2>1, <2>2 DEF Authority!vars
<1>6. ASSUME NEW h \in Holders, CommitWrite(h)
      PROVE  Authority!Write(h)
  <2>1. lease.holder = h
    BY <1>0, <1>6 DEF CommitWrite, LockInv, FlowInv
  <2>2. lease'.holder = lease.holder
    BY <1>0, <1>6 DEF CommitWrite, TypeOK, LeaseRecords
  <2>3. evidence' = h /\ UNCHANGED <<started, receipt, history, tip>>
    BY <1>6 DEF CommitWrite
  <2> QED BY <1>1, <2>1, <2>2, <2>3 DEF Authority!Write
<1>7. ASSUME NEW r \in Runs, Terminate(r)
      PROVE  Authority!Fail(r)
  <2>1. /\ lease.holder = r /\ ~Terminated(r) /\ pc[r] = "terminating"
        /\ receipt' = [receipt EXCEPT ![r] =
                         [status |-> "failure", count |-> Len(events[r])]]
        /\ UNCHANGED <<lease, started, history, tip, evidence>>
    BY <1>7 DEF Terminate, Fenced, Renewable
  <2>2. out[r] = "open"
    BY <1>0, <2>1 DEF FlowInv, Underway, Outcome
  <2>3. out' = [out EXCEPT ![r] = "failure"]
    <3>1. \A q \in Ledgered : Outcome(q)' = IF q = r THEN "failure" ELSE Outcome(q)
      <4> TAKE q \in Ledgered
      <4>1. CASE q = r
        <5>1. receipt'[q].status = "failure"
          BY <1>0, <2>1, <4>1 DEF TypeOK
        <5> QED BY <4>1, <5>1 DEF Outcome, Terminated
      <4>2. CASE q # r
        <5>1. receipt'[q] = receipt[q] /\ started'[q] = started[q]
          BY <1>0, <2>1, <4>2 DEF TypeOK
        <5> QED BY <4>2, <5>1 DEF Outcome, Terminated
      <4> QED BY <4>1, <4>2
    <3> QED BY <3>1
  <2> QED BY <2>1, <2>2, <2>3 DEF Authority!Fail
<1>8. ASSUME NEW r \in Runs, CommitPublication(r)
      PROVE  Authority!Publish(r)
  <2>1. /\ pc[r] = "sealed" /\ job[r] = "publish"
        /\ receipt' = [receipt EXCEPT ![r] =
                         [status |-> "success", count |-> Len(events'[r])]]
        /\ history' = Append(history, r) /\ tip' = r
        /\ UNCHANGED <<started, evidence>>
        /\ lease' = [lease EXCEPT !.expires = txn.expires]
    BY <1>8 DEF CommitPublication
  <2>2. lease.holder = r /\ lease'.holder = lease.holder
    BY <1>0, <2>1 DEF LockInv, FlowInv, TypeOK, LeaseRecords
  <2>3. out[r] = "open"
    BY <1>0, <2>1 DEF SealInv, FlowInv, Underway, Outcome
  <2>4. out' = [out EXCEPT ![r] = "success"]
    <3>1. \A q \in Ledgered : Outcome(q)' = IF q = r THEN "success" ELSE Outcome(q)
      <4> TAKE q \in Ledgered
      <4>1. CASE q = r
        <5>1. receipt'[q].status = "success"
          BY <1>0, <2>1, <4>1 DEF TypeOK
        <5> QED BY <4>1, <5>1 DEF Outcome, Terminated
      <4>2. CASE q # r
        <5>1. receipt'[q] = receipt[q] /\ started'[q] = started[q]
          BY <1>0, <2>1, <4>2 DEF TypeOK
        <5> QED BY <4>2, <5>1 DEF Outcome, Terminated
      <4> QED BY <4>1, <4>2
    <3> QED BY <3>1
  <2> QED BY <2>1, <2>2, <2>3, <2>4 DEF Authority!Publish
<1> HIDE DEF out
<1> QED
  BY <1>0, <1>2, <1>3, <1>4, <1>5, <1>6, <1>7, <1>8, BeginOpens, StepKinds
  DEF Authority!Next

(* The ledger implements the abstract publication authority: only the      *)
(* owner of the lease opens, writes, publishes or ends, a score is current *)
(* in the step in which its run succeeds, and whoever lost the right is    *)
(* closed by a later owner.                                                *)
THEOREM RefinesAuthority == Spec => ImplementsAuthority
<1>1. LedgerInv /\ [Next]_vars => [Authority!Next]_(Authority!vars)
  BY AuthorityStep
<1> QED
  BY <1>1, AuthorityInitially, LedgerInvariant, PTL
  DEF Spec, ImplementsAuthority, Authority!Spec

=============================================================================
