---------------------------- MODULE RefreshLedger ----------------------------
(***************************************************************************)
(* The refresh write lease, the operation ledger and the score publication *)
(* of src/lib/db.ts and src/lib/refresh.ts, shared through one SQLite      *)
(* file by any number of processes.                                        *)
(*                                                                         *)
(* An actor is one refresh() call (a member of Runs) or one manual command *)
(* (a member of Scripts); each has a lease holder id of its own.  A        *)
(* statement outside a transaction is one step; the transactions that      *)
(* check the lease more than once (evidence writes, score publication)     *)
(* are open over several steps, during which the clock runs on and every   *)
(* other writer waits for the SQLite write lock or fails with a busy       *)
(* timeout.  OldRuns are attempts already in the file when the model       *)
(* starts, some of them published without a receipt by earlier versions.   *)
(***************************************************************************)
EXTENDS Integers, Sequences

CONSTANTS
  Runs,        \* refresh() calls, each with its own lease holder id
  Scripts,     \* manual commands that take the same lease, with no attempt
  OldRuns,     \* sequence of runs of earlier versions, oldest first
  WorkStages,  \* the ingestion stages a run goes through
  TTL,         \* lifetime of a lease (REFRESH_WRITE_LEASE_TTL_MS)
  Lag,         \* bound: how old a clock reading is when SQL uses it
  MaxTime,     \* bound: the last instant of the model
  MaxWrites,   \* bound: evidence writes one actor tries while it works
  None

Holders == Runs \cup Scripts
Old == {OldRuns[i] : i \in 1..Len(OldRuns)}
Ledgered == Runs \cup Old
Time == 0..MaxTime
Stages == WorkStages \cup {"score.persist", "forecast.capture"}

ASSUME BoundsAssumption ==
  /\ TTL \in Nat \ {0}
  /\ Lag \in Nat
  /\ MaxTime \in Nat \ {0}
  /\ MaxWrites \in Nat

ASSUME NamesAssumption ==
  /\ Runs \cap Scripts = {}
  /\ OldRuns \in Seq(Old)
  /\ Old \cap Holders = {}
  /\ None \notin Holders \cup Old
  /\ "score.persist" \notin WorkStages
  /\ "forecast.capture" \notin WorkStages

VARIABLES
  clock,       \* wall clock, shared: every process runs on the same host
  lease,       \* the refresh_leases row; holder None when there is no row
  txn,         \* the transaction that holds the write lock, and the lease
               \* expiry as renewed inside it; by None when there is none
  started,     \* refresh_operation_attempts.started_at, or NotBegun
  events,      \* refresh_operation_stage_events of each run
  receipt,     \* refresh_capture_receipts of each run
  history,     \* sealed score publications, oldest first
  tip,         \* operationRunId of score_persistence_last_run, or None
  evidence,    \* who wrote the evidence rows last, or None
  pc,          \* where each actor is
  signal,      \* its abort signal: clear, cancelled, or lost (lease latch)
  untried,     \* sibling stages failActive has still to close
  job,         \* what its fenced transaction is for
  writes,      \* evidence writes tried
  died         \* when the actor crashed

db == <<lease, txn, started, events, receipt, history, tip, evidence>>
local == <<pc, signal, untried, job, writes, died>>
vars == <<clock, db, local>>

-----------------------------------------------------------------------------
(* Data *)

NotBegun == -1
NoLease == [holder |-> None, acquired |-> 0, expires |-> 0]
NoTxn == [by |-> None, expires |-> 0]
NoReceipt == [status |-> "none", count |-> 0]
Final == {"done", "crashed"}

Event(s, st) == [stage |-> s, status |-> st]
PublicationEvents == << Event("score.persist", "completed"),
                        Event("forecast.capture", "started"),
                        Event("forecast.capture", "completed") >>

(* Stages started and not yet closed. *)
Active(es) ==
  {s \in Stages : \E i \in 1..Len(es) :
     /\ es[i] = Event(s, "started")
     /\ \A j \in (i + 1)..Len(es) : es[j].stage # s}

HasFailed(es) == \E i \in 1..Len(es) : es[i].status = "failed"
Begun(s, es) == \E i \in 1..Len(es) : es[i].stage = s

Terminated(r) == receipt[r].status # "none"
Opened(r) == started[r] # NotBegun /\ ~Terminated(r)
Unsuccessful(rec) == rec.status \in {"failure", "abandoned"}

(* Clock readings a statement of h may still carry when SQLite runs it. *)
Reads(h) == {t \in Time : /\ clock - Lag <= t
                          /\ t <= clock
                          /\ lease.holder = h => lease.acquired <= t}

Later(a, b) == IF a > b THEN a ELSE b

(* The write lock is free; somebody else holds it. *)
Free == txn.by = None
Locked(h) == txn.by \notin {None, h}

(* Mutant: the renewal forgets to ask who holds the lease. *)
RenewableByAnyone(h, t) == lease.holder # None /\ lease.expires > t

(* The three conditions SQL puts on the lease row. *)
Grantable(h, t) == lease.holder \in {None, h} \/ lease.expires <= t
Renewable(h, t) == lease.holder = h /\ lease.expires > t
Fenced(r) == Renewable(r, clock)

(* Mutant: the ledger trusts the stage timer of the run. *)
AppendableUnfenced(r, s, st) ==
  /\ ~HasFailed(events[r])
  /\ (st = "started") <=> (s \notin Active(events[r]))

(* An event is accepted while the lease is held, before any receipt, never *)
(* after a failed stage, and a stage is opened and closed alternately.     *)
Appendable(r, s, st) ==
  /\ Fenced(r)
  /\ ~Terminated(r)
  /\ ~HasFailed(events[r])
  /\ (st = "started") <=> (s \notin Active(events[r]))

AppendEvent(r, s, st) ==
  /\ Free
  /\ Appendable(r, s, st)
  /\ events' = [events EXCEPT ![r] = Append(@, Event(s, st))]

RefusedEvent(r, s, st) ==
  /\ Locked(r) \/ ~Appendable(r, s, st)
  /\ events' = events

Goto(h, l) == pc' = [pc EXCEPT ![h] = l]

-----------------------------------------------------------------------------
(* Initial states: what earlier versions may have left in the file. *)

(* Every old attempt published its score; all but the last one have a      *)
(* receipt, and the last one may have died before it was written.          *)
OldReceipts(n) ==
  {rec \in [Ledgered -> [status : {"none", "success", "failure"}, count : {0}]] :
     \A r \in Ledgered :
       /\ (\A i \in 1..n : OldRuns[i] # r) => rec[r] = NoReceipt
       /\ (\E i \in 1..(n - 1) : OldRuns[i] = r) => rec[r] # NoReceipt}

Init ==
  /\ clock = 1
  /\ lease = NoLease
  /\ txn = NoTxn
  /\ \E n \in 0..Len(OldRuns) :
       /\ receipt \in OldReceipts(n)
       /\ started = [r \in Ledgered |->
                       IF \E i \in 1..n : OldRuns[i] = r THEN 0 ELSE NotBegun]
       /\ history = SubSeq(OldRuns, 1, n)
       /\ tip = IF n = 0 THEN None ELSE OldRuns[n]
  /\ events = [r \in Ledgered |-> <<>>]
  /\ evidence = None
  /\ pc = [h \in Holders |-> "idle"]
  /\ signal = [h \in Holders |-> "clear"]
  /\ untried = [h \in Holders |-> {}]
  /\ job = [h \in Holders |-> "write"]
  /\ writes = [h \in Holders |-> 0]
  /\ died = [h \in Holders |-> 0]

-----------------------------------------------------------------------------
(* The lease *)

(* Time passes for everybody; nothing else moves. *)
Tick ==
  /\ clock < MaxTime
  /\ clock' = clock + 1
  /\ UNCHANGED <<db, local>>

(* INSERT ... ON CONFLICT: take a free or expired lease. *)
Acquire(h) ==
  /\ pc[h] = "idle"
  /\ Free
  /\ \E t \in Reads(h) :
       /\ Grantable(h, t)
       /\ lease' = [holder |-> h, acquired |-> t, expires |-> t + TTL]
  /\ Goto(h, IF h \in Runs THEN "acquired" ELSE "holding")
  /\ UNCHANGED <<clock, txn, started, events, receipt, history, tip, evidence,
                 signal, untried, job, writes, died>>

AcquireRefused(h) ==
  /\ pc[h] = "idle"
  /\ Locked(h) \/ \E t \in Reads(h) : ~Grantable(h, t)
  /\ Goto(h, "done")
  /\ UNCHANGED <<clock, db, signal, untried, job, writes, died>>

(* Mutant: renewals add up. *)
RenewStacked(h, t) ==
  /\ Renewable(h, t)
  /\ lease' = [lease EXCEPT !.expires = @ + TTL]

Renew(h, t) ==
  /\ Renewable(h, t)
  /\ lease' = [lease EXCEPT !.expires = Later(@, t + TTL)]

(* The timer fires only while the actor waits for something. *)
Heartbeat(h) ==
  /\ pc[h] \in {"working", "holding"}
  /\ signal[h] # "lost"
  /\ Free
  /\ \E t \in Reads(h) : Renew(h, t)
  /\ UNCHANGED <<clock, txn, started, events, receipt, history, tip, evidence,
                 local>>

HeartbeatFailed(h) ==
  /\ pc[h] \in {"working", "holding"}
  /\ signal[h] # "lost"
  /\ Locked(h) \/ \E t \in Reads(h) : ~Renewable(h, t)
  /\ signal' = [signal EXCEPT ![h] = "lost"]
  /\ UNCHANGED <<clock, db, pc, untried, job, writes, died>>

(* cancelActiveRefresh: a shutdown aborts the run's signal. *)
Cancel(r) ==
  /\ pc[r] = "working"
  /\ signal[r] = "clear"
  /\ signal' = [signal EXCEPT ![r] = "cancelled"]
  /\ UNCHANGED <<clock, db, pc, untried, job, writes, died>>

(* The finally block deletes the row if it is still the actor's own. *)
Release(h) ==
  /\ pc[h] = "releasing" \/ (h \in Scripts /\ pc[h] = "holding")
  /\ Free
  /\ lease' = IF lease.holder = h THEN NoLease ELSE lease
  /\ Goto(h, "done")
  /\ UNCHANGED <<clock, txn, started, events, receipt, history, tip, evidence,
                 signal, untried, job, writes, died>>

ReleaseFailed(h) ==
  /\ pc[h] = "releasing" \/ (h \in Scripts /\ pc[h] = "holding")
  /\ Locked(h)
  /\ Goto(h, "done")
  /\ UNCHANGED <<clock, db, signal, untried, job, writes, died>>

(* A killed process: SQLite rolls its open transaction back. *)
Crash(h) ==
  /\ pc[h] \notin Final \cup {"idle"}
  /\ txn' = IF txn.by = h THEN NoTxn ELSE txn
  /\ died' = [died EXCEPT ![h] = clock]
  /\ Goto(h, "crashed")
  /\ UNCHANGED <<clock, lease, started, events, receipt, history, tip,
                 evidence, signal, untried, job, writes>>

-----------------------------------------------------------------------------
(* Opening an attempt *)

(* Mutant: an attempt is only given up a lease lifetime after it began. *)
ExpiredByAge(r) ==
  {q \in Ledgered \ {r} : Opened(q) /\ started[q] + TTL < lease.acquired}

(* Attempts without a receipt, begun before this lease was acquired. *)
Expired(r) ==
  {q \in Ledgered \ {r} : Opened(q) /\ started[q] < lease.acquired}

AfterAbandoning(r) ==
  [q \in Ledgered |->
     IF q \in Expired(r)
     THEN [status |-> "abandoned", count |-> Len(events[q])]
     ELSE receipt[q]]

(* Publications before the tip that succeeded, and the one of them a       *)
(* recovery may put back: nothing but unsuccessful runs follow it, up to   *)
(* the tip that is displaced.                                              *)
Candidates(rec) ==
  {i \in 1..Len(history) :
     /\ rec[history[i]].status = "success"
     /\ \E j \in (i + 1)..Len(history) : history[j] = tip}

Restorable(i, rec) ==
  /\ \A j \in (i + 1)..Len(history) : Unsuccessful(rec[history[j]])
  /\ history[Len(history)] = tip

NeedsRecovery(rec) == tip # None /\ Unsuccessful(rec[tip])

(* Mutant: a displaced publication leaves no current one. *)
RecoverToNone(rec) ==
  IF NeedsRecovery(rec) THEN tip' = None ELSE tip' = tip

RecoverTip(rec) ==
  IF ~NeedsRecovery(rec)
  THEN tip' = tip
  ELSE \/ Candidates(rec) = {} /\ tip' = None
       \/ \E i \in Candidates(rec) : Restorable(i, rec) /\ tip' = history[i]

(* beginRefreshOperationAttempt, one transaction. *)
Begin(r) ==
  /\ pc[r] = "acquired"
  /\ Free
  /\ Fenced(r)
  /\ \E t \in Reads(r) : started' = [started EXCEPT ![r] = t]
  /\ receipt' = AfterAbandoning(r)
  /\ RecoverTip(AfterAbandoning(r))
  /\ Goto(r, "working")
  /\ UNCHANGED <<clock, lease, txn, events, history, evidence,
                 signal, untried, job, writes, died>>

(* It throws when the lease is gone or the database is busy, and when a    *)
(* recovery finds stored evidence that no longer matches its seals (not    *)
(* modelled: any recovery may); there is no attempt then.                  *)
BeginRefused(r) ==
  /\ pc[r] = "acquired"
  /\ \/ Locked(r)
     \/ ~Fenced(r)
     \/ NeedsRecovery(AfterAbandoning(r))
  /\ Goto(r, "releasing")
  /\ UNCHANGED <<clock, db, signal, untried, job, writes, died>>

-----------------------------------------------------------------------------
(* Stages, and how an error closes them *)

(* The error becomes that of one stage; the others are its siblings. *)
FailWork(r) ==
  \/ /\ Active(events[r]) = {}
     /\ Goto(r, "terminating")
     /\ untried' = untried
  \/ \E s \in Active(events[r]) :
       /\ Goto(r, "closing")
       /\ untried' = [untried EXCEPT ![r] = Active(events[r]) \ {s}]

(* A stage runs at most once here; groups of stages run side by side. *)
StartStage(r, s) ==
  /\ pc[r] = "working"
  /\ ~Begun(s, events[r])
  /\ \/ AppendEvent(r, s, "started") /\ UNCHANGED <<pc, untried>>
     \/ RefusedEvent(r, s, "started") /\ FailWork(r)
  /\ UNCHANGED <<clock, lease, txn, started, receipt, history, tip, evidence,
                 signal, job, writes, died>>

FinishStage(r, s) ==
  /\ pc[r] = "working"
  /\ s \in Active(events[r])
  /\ \/ AppendEvent(r, s, "completed") /\ UNCHANGED <<pc, untried>>
     \/ RefusedEvent(r, s, "completed") /\ FailWork(r)
  /\ UNCHANGED <<clock, lease, txn, started, receipt, history, tip, evidence,
                 signal, job, writes, died>>

(* Anything the run awaits may throw, an aborted signal among the reasons. *)
StageError(r) ==
  /\ pc[r] = "working"
  /\ FailWork(r)
  /\ UNCHANGED <<clock, db, signal, job, writes, died>>

(* Mutant: a sibling is given up only when its event is accepted. *)
CloseSiblingAccepted(r, s) ==
  /\ pc[r] = "closing"
  /\ s \in untried[r]
  /\ AppendEvent(r, s, "completed")
  /\ untried' = [untried EXCEPT ![r] = @ \ {s}]
  /\ UNCHANGED <<clock, lease, txn, started, receipt, history, tip, evidence,
                 pc, signal, job, writes, died>>

(* failActive closes the siblings of the failed stage as completed ... *)
CloseSibling(r, s) ==
  /\ pc[r] = "closing"
  /\ s \in untried[r]
  /\ \/ AppendEvent(r, s, "completed")
     \/ RefusedEvent(r, s, "completed")
  /\ untried' = [untried EXCEPT ![r] = @ \ {s}]
  /\ UNCHANGED <<clock, lease, txn, started, receipt, history, tip, evidence,
                 pc, signal, job, writes, died>>

(* ... and the failed stage itself last, if no sibling is left open. *)
ClosePrimary(r) ==
  /\ pc[r] = "closing"
  /\ untried[r] = {}
  /\ IF \E s \in Stages : Active(events[r]) = {s}
     THEN \E s \in Active(events[r]) :
            AppendEvent(r, s, "failed") \/ RefusedEvent(r, s, "failed")
     ELSE events' = events
  /\ Goto(r, "terminating")
  /\ UNCHANGED <<clock, lease, txn, started, receipt, history, tip, evidence,
                 signal, untried, job, writes, died>>

(* fail(): the failure receipt, written if the lease still allows it. *)
Terminate(r) ==
  /\ pc[r] = "terminating"
  /\ Free
  /\ Fenced(r)
  /\ ~Terminated(r)
  /\ Active(events[r]) = {}
  /\ receipt' = [receipt EXCEPT
                   ![r] = [status |-> "failure", count |-> Len(events[r])]]
  /\ Goto(r, "releasing")
  /\ UNCHANGED <<clock, lease, txn, started, events, history, tip, evidence,
                 signal, untried, job, writes, died>>

TerminateRefused(r) ==
  /\ pc[r] = "terminating"
  /\ Locked(r) \/ ~Fenced(r) \/ Terminated(r) \/ Active(events[r]) # {}
  /\ Goto(r, "releasing")
  /\ UNCHANGED <<clock, db, signal, untried, job, writes, died>>

-----------------------------------------------------------------------------
(* Transactions that check the lease again: before they open, once open,   *)
(* and before they commit.  A job is an evidence write, the publication of *)
(* the score, or the record of a publication that failed; an evidence      *)
(* write returns to where it started, whether it committed or not.         *)

Home(h) == IF h \in Runs THEN "working" ELSE "holding"
Jobs(h) == IF h \in Runs THEN {"write", "publish", "record"} ELSE {"write"}
Before(h, k) == CASE k = "write" -> Home(h)
                  [] k = "publish" -> "persisting"
                  [] k = "record" -> "recording"
Failed(h, k) == CASE k = "write" -> Home(h)
                  [] k = "publish" -> "failing"
                  [] k = "record" -> "terminating"

(* Mutant: only the lease is asked. *)
AllowedByLease(h, k) == signal[h] # "lost"

(* throwIfAborted: a lost lease stops any job, a cancelled run does not    *)
(* publish (some evidence writes only check the lease).                    *)
Allowed(h, k) == signal[h] # "lost" /\ (k = "publish" => signal[h] = "clear")

(* publishScore starts once every stage is closed and none has failed. *)
PublishStart(r) ==
  /\ pc[r] = "working"
  /\ \A s \in WorkStages : Begun(s, events[r])
  /\ Active(events[r]) = {}
  /\ \/ AppendEvent(r, "score.persist", "started") /\ Goto(r, "persisting")
     \/ RefusedEvent(r, "score.persist", "started") /\ Goto(r, "terminating")
  /\ UNCHANGED <<clock, lease, txn, started, receipt, history, tip, evidence,
                 signal, untried, job, writes, died>>

(* The first check, outside the transaction. *)
Check(h, k) ==
  /\ pc[h] = Before(h, k)
  /\ k = "write" => writes[h] < MaxWrites
  /\ Allowed(h, k)
  /\ Free
  /\ \E t \in Reads(h) : Renew(h, t)
  /\ Goto(h, "checked")
  /\ job' = [job EXCEPT ![h] = k]
  /\ writes' = [writes EXCEPT ![h] = IF k = "write" THEN @ + 1 ELSE @]
  /\ UNCHANGED <<clock, txn, started, events, receipt, history, tip, evidence,
                 signal, untried, died>>

CheckFailed(h, k) ==
  /\ pc[h] = Before(h, k)
  /\ k = "write" => writes[h] < MaxWrites
  /\ \/ ~Allowed(h, k) /\ signal' = signal
     \/ /\ Allowed(h, k)
        /\ Locked(h) \/ \E t \in Reads(h) : ~Renewable(h, t)
        /\ signal' = [signal EXCEPT ![h] = "lost"]
  /\ Goto(h, Failed(h, k))
  /\ UNCHANGED <<clock, db, untried, job, writes, died>>

(* BEGIN IMMEDIATE, and the second check, with a clock read under the lock. *)
OpenTxn(h) ==
  /\ pc[h] = "checked"
  /\ Free
  /\ Fenced(h)
  /\ txn' = [by |-> h, expires |-> Later(lease.expires, clock + TTL)]
  /\ Goto(h, "open")
  /\ UNCHANGED <<clock, lease, started, events, receipt, history, tip,
                 evidence, signal, untried, job, writes, died>>

OpenTxnFailed(h) ==
  /\ pc[h] = "checked"
  /\ \/ Locked(h) /\ signal' = signal
     \/ Free /\ ~Fenced(h) /\ signal' = [signal EXCEPT ![h] = "lost"]
  /\ Goto(h, Failed(h, job[h]))
  /\ UNCHANGED <<clock, db, untried, job, writes, died>>

(* The writes are made and the last check before COMMIT passes; a          *)
(* publication has also appended its closing events and its receipt.       *)
SealTxn(h) ==
  /\ pc[h] = "open"
  /\ txn.expires > clock
  /\ job[h] = "publish" => /\ Active(events[h]) = {"score.persist"}
                           /\ ~HasFailed(events[h])
                           /\ ~Terminated(h)
  /\ txn' = [txn EXCEPT !.expires = Later(@, clock + TTL)]
  /\ Goto(h, "sealed")
  /\ UNCHANGED <<clock, lease, started, events, receipt, history, tip,
                 evidence, signal, untried, job, writes, died>>

(* Any error inside the transaction, the lease check among them: ROLLBACK. *)
AbortTxn(h) ==
  /\ pc[h] \in {"open", "sealed"}
  /\ txn' = NoTxn
  /\ \/ signal' = signal
     \/ /\ pc[h] = "open"
        /\ txn.expires <= clock
        /\ signal' = [signal EXCEPT ![h] = "lost"]
  /\ Goto(h, Failed(h, job[h]))
  /\ UNCHANGED <<clock, lease, started, events, receipt, history, tip,
                 evidence, untried, job, writes, died>>

CommitWrite(h) ==
  /\ pc[h] = "sealed"
  /\ job[h] # "publish"
  /\ lease' = [lease EXCEPT !.expires = txn.expires]
  /\ txn' = NoTxn
  /\ evidence' = h
  /\ Goto(h, IF job[h] = "write" THEN Home(h) ELSE "terminating")
  /\ UNCHANGED <<clock, started, events, receipt, history, tip, signal,
                 untried, job, writes, died>>

(* Score, closing events and success receipt become durable together. *)
CommitPublication(r) ==
  /\ pc[r] = "sealed"
  /\ job[r] = "publish"
  /\ lease' = [lease EXCEPT !.expires = txn.expires]
  /\ txn' = NoTxn
  /\ events' = [events EXCEPT ![r] = @ \o PublicationEvents]
  /\ receipt' = [receipt EXCEPT
                   ![r] = [status |-> "success", count |-> Len(events'[r])]]
  /\ history' = Append(history, r)
  /\ tip' = r
  /\ Goto(r, "releasing")
  /\ UNCHANGED <<clock, started, evidence, signal, untried, job, writes, died>>

(* The catch block of publishScore; the failure is then recorded as        *)
(* evidence and fail() follows.                                            *)
MarkFailed(r) ==
  /\ pc[r] = "failing"
  /\ \/ AppendEvent(r, "score.persist", "failed")
     \/ RefusedEvent(r, "score.persist", "failed")
  /\ Goto(r, "recording")
  /\ UNCHANGED <<clock, lease, txn, started, receipt, history, tip, evidence,
                 signal, untried, job, writes, died>>

-----------------------------------------------------------------------------
(* The system *)

Finished ==
  /\ \A h \in Holders : pc[h] \in Final
  /\ UNCHANGED vars

LeaseStep(h) ==
  \/ Acquire(h) \/ AcquireRefused(h)
  \/ Heartbeat(h) \/ HeartbeatFailed(h)
  \/ Release(h) \/ ReleaseFailed(h)

FencedWrite(h) ==
  \/ \E k \in Jobs(h) : Check(h, k) \/ CheckFailed(h, k)
  \/ OpenTxn(h) \/ OpenTxnFailed(h) \/ SealTxn(h) \/ AbortTxn(h)
  \/ CommitWrite(h)

RunStep(r) ==
  \/ Begin(r) \/ BeginRefused(r)
  \/ \E s \in WorkStages :
       StartStage(r, s) \/ FinishStage(r, s) \/ CloseSibling(r, s)
  \/ StageError(r) \/ ClosePrimary(r) \/ Terminate(r) \/ TerminateRefused(r)
  \/ PublishStart(r) \/ CommitPublication(r) \/ MarkFailed(r)

Next ==
  \/ Tick
  \/ Finished
  \/ \E h \in Holders : LeaseStep(h) \/ FencedWrite(h) \/ Crash(h)
  \/ \E r \in Runs : RunStep(r) \/ Cancel(r)

Spec == Init /\ [][Next]_vars

(* What the code does next of its own accord: all its steps but crashes,   *)
(* cancellations and timers.  An actor that was started goes on: database  *)
(* calls return within busy_timeout and every request has a time limit.    *)
Advance(h) ==
  \/ h \in Runs /\ RunStep(h)
  \/ FencedWrite(h)
  \/ Release(h) \/ ReleaseFailed(h)

FairSpec == Spec /\ \A h \in Holders : WF_vars(Advance(h))

-----------------------------------------------------------------------------
(* Properties *)

EventRecords == [stage : Stages, status : {"started", "completed", "failed"}]
ReceiptRecords ==
  [status : {"none", "success", "failure", "abandoned"}, count : Nat]
LeaseRecords == [holder : Holders \cup {None}, acquired : Nat, expires : Nat]
ControlPoints ==
  {"idle", "acquired", "holding", "working", "closing", "terminating",
   "releasing", "persisting", "checked", "open", "sealed", "failing",
   "recording"} \cup Final

TypeOK ==
  /\ clock \in Time
  /\ lease \in LeaseRecords
  /\ txn \in [by : Holders \cup {None}, expires : Nat]
  /\ started \in [Ledgered -> Time \cup {NotBegun}]
  /\ events \in [Ledgered -> Seq(EventRecords)]
  /\ receipt \in [Ledgered -> ReceiptRecords]
  /\ history \in Seq(Ledgered)
  /\ tip \in Ledgered \cup {None}
  /\ evidence \in Holders \cup {None}
  /\ pc \in [Holders -> ControlPoints]
  /\ signal \in [Holders -> {"clear", "cancelled", "lost"}]
  /\ untried \in [Holders -> SUBSET Stages]
  /\ job \in [Holders -> {"write", "publish", "record"}]
  /\ writes \in [Holders -> 0..MaxWrites]
  /\ died \in [Holders -> Time]

(* A receipt seals the stage chain it was written over: whatever a run that *)
(* outlived its lease still tries, no event joins a chain its own receipt  *)
(* or a successor's abandonment has counted, and only an abandoned chain   *)
(* has a stage left open (verifyOperationReceiptLedger).                   *)
SealedByReceipt ==
  \A r \in Runs : Terminated(r) =>
    /\ receipt[r].count = Len(events[r])
    /\ Active(events[r]) # {} => receipt[r].status = "abandoned"

(* The current publication is the newest one whose run succeeded, through  *)
(* any recovery: a run that fails, crashes or is abandoned neither becomes *)
(* current nor costs the last good publication.  The one exception is a    *)
(* publication of an earlier version that no later refresh has looked at.  *)
PublishedTip ==
  LET good == {i \in 1..Len(history) : receipt[history[i]].status = "success"}
  IN  \/ /\ tip \in Old
         /\ tip = history[Len(history)]
         /\ Len(history) \notin good
      \/ tip = None /\ good = {}
      \/ \E i \in good : tip = history[i] /\ \A j \in good : j <= i

(* While a run that holds the lease has its attempt open, no attempt begun *)
(* before that lease was taken is still open: a successor closes every     *)
(* attempt that a crash or an expired lease left behind.                   *)
NoStaleOpenAttempt ==
  \A s \in Runs : lease.holder = s /\ Opened(s) =>
    \A q \in Ledgered \ {s} : Opened(q) => started[q] >= lease.acquired

(* A killed holder blocks a later one for at most one lease lifetime,      *)
(* whatever renewals it made before it died.                               *)
CrashedHolderBlocksAtMostTTL ==
  \A h \in Holders : pc[h] = "crashed" /\ lease.holder = h =>
    lease.expires <= died[h] + TTL

(* The ledger is append-only: a receipt, once there, is never replaced,    *)
(* not even by the abandonment of a successor.                             *)
TerminalIsFinal ==
  [][\A r \in Ledgered : Terminated(r) => receipt'[r] = receipt[r]]_vars

(* A run that was told to stop, or whose heartbeat found the lease gone,   *)
(* publishes nothing any more.                                             *)
CancelledNeverPublishes ==
  [][\A r \in Runs : signal[r] # "clear" /\ history' # history => tip' # r]_vars

(* A run that got the lease ends: whatever is refused on the way (a lost   *)
(* lease, a busy database, a stage left open), it reaches its finally      *)
(* block and returns, unless its process dies.                             *)
RunSettles ==
  \A r \in Runs : pc[r] # "idle" ~> pc[r] \in Final

(* The ledger, with its clock, transactions and stages hidden, is the      *)
(* abstract publication authority.                                         *)
Outcome(r) ==
  IF Terminated(r) THEN receipt[r].status
  ELSE IF started[r] = NotBegun THEN "none" ELSE "open"

Authority == INSTANCE PublicationAuthority
  WITH owner <- lease.holder,
       outcome <- [r \in Ledgered |-> Outcome(r)],
       log <- history

ImplementsAuthority == Authority!Spec
=============================================================================
