------------------------------ MODULE Installer ------------------------------
(***************************************************************************)
(* The deployment transaction of                                           *)
(* ops/viralo/openclaw-release-radar-install-release.sh, with the systemd  *)
(* units that call it and the check of the server's own start              *)
(* (src/lib/startupAuthorization.ts).                                      *)
(*                                                                         *)
(* Every command of the script is a shell that works under one flock and   *)
(* leaves its state in directories: the activation intent, .pending-deploy,*)
(* .pending-deploy.finalized-*, deploy-completions, the `current' symlink, *)
(* the database file, its pre-migration snapshot and the startup           *)
(* authorization.  A shell may be killed between any two of these writes,  *)
(* the machine may reboot, and the lock is given up around every restart   *)
(* of the service, because the restart runs `reconcile --boot' first.      *)
(*                                                                         *)
(* A command is the list of the stages it still has to run (job[p].todo);  *)
(* a stage is one durable write of the script with the checks before it.   *)
(***************************************************************************)
EXTENDS Naturals, Sequences

CONSTANTS
  Txns,           \* transaction IDs
  Releases,       \* release names
  First,          \* the release that is installed before the first transaction
  Target,         \* the release that each transaction installs
  Shells,         \* the shells of the deployment workflow and of an operator
  Watchdogs,      \* the shells of the watchdogs
  Boot,           \* the process of openclaw-release-radar-reconcile-boot.service
  Tick,           \* the process of openclaw-release-radar-reconcile.service
  None,           \* no value
  MaxFaults       \* bound: kills, reboots, crashes of the service and time limits

ASSUME InstallerAssumption ==
  /\ First \in Releases /\ Target \in [Txns -> Releases]
  /\ Shells \cap Watchdogs = {}
  /\ {Boot, Tick} \cap (Shells \cup Watchdogs) = {} /\ Boot # Tick
  /\ None \notin Txns \cup Releases \cup Shells \cup Watchdogs \cup {Boot, Tick}
  /\ MaxFaults \in Nat
  /\ "auth" \notin Txns

VARIABLES
  intent,    \* .deploy-intent-*: None, or the transaction with its previous release
  pending,   \* .pending-deploy: None or a deployment
  decided,   \* .pending-deploy.finalized-*: None or a deployment
  done,      \* deploy-completions: for each transaction None or a deployment
  current,   \* the target of the `current' symlink, or None
  dirs,      \* the release directories that exist
  db,        \* what the installed database file holds
  snap,      \* for each transaction its pre-migration snapshot, or None
  auth,      \* shared/startup-authorization/active.json, or None
  live,      \* the records that name the inode installed now: "auth", or the
             \* promotion binding of a transaction
  armed,     \* the transactions whose watchdog sleeps
  svc,       \* openclaw-release-radar.service
  lock,      \* the holder of deploy-promotion.lock
  job,       \* what each process is doing
  faults,
  strayed    \* history: an activation has gone to its exit trap without the lock

records == <<intent, pending, decided, done>>
site    == <<current, dirs, db, snap, auth, live>>
vars    == <<records, site, armed, svc, lock, job, faults, strayed>>

Jobs == Shells \cup Watchdogs \cup {Boot, Tick}

(* What a database file holds: the state a transaction promoted for a release. *)
Origin == [txn |-> None, rel |-> First]
Databases == [txn : Txns \cup {None}, rel : Releases]

Authorizations ==
  [kind : {"pending", "committed"}, txn : Txns \cup {None}, rel : Releases,
   db : Databases]

Intents == [txn : Txns, rel : Releases, prev : Releases \cup {None}, fresh : BOOLEAN]

Deployments ==
  [txn : Txns, rel : Releases,
   prev : Releases \cup {None},            \* previous_current_target
   fresh : BOOLEAN,                        \* release_created
   saved : Authorizations \cup {None},     \* previous-startup-authorization.json
   phase : {"prepared", "promoted", "activated", "verified"},
   bound : BOOLEAN,                        \* promotion report and binding
   approved : BOOLEAN,                     \* verification-authorization.json
   expired : BOOLEAN,                      \* the deadline has passed
   outcome : {None, "committed", "rolled-back"}]   \* finalization.json

Commands == {"activate", "authorize", "commit", "rollback", "reconcile", "watchdog"}

Idle == [cmd |-> "none", txn |-> None, rel |-> First, out |-> None, sub |-> None,
         prev |-> None, ready |-> None, trap |-> "off", created |-> FALSE, todo |-> <<>>]

(* The stages of each command up to the decisions it takes on the way. *)
Program ==
  [activate  |-> <<"finalized", "intents", "intend", "unpack", "halt",
                   "snapshot", "pend", "arm", "unintend", "promote", "report", "switch",
                   "activated", "permit", "restart", "relock", "confirm">>,
   authorize |-> <<"intents", "approve", "verify">>,
   commit    |-> <<"intents", "completed", "finalized", "commit">>,
   rollback  |-> <<"intents", "completed", "finalized", "undo">>,
   reconcile |-> <<"intents", "finalized", "review">>,
   watchdog  |-> <<"expire">>]

Stages ==
  {"relock", "intents", "unintend", "discard", "finalized", "complete", "grant",
   "drop", "completed", "intend", "unpack", "halt", "snapshot", "pend", "arm", "promote",
   "report", "switch", "activated", "permit", "restart", "confirm", "approve", "verify",
   "valid", "ready", "commit", "undo", "review", "expire", "rollback", "cease",
   "restore", "switchback", "regrant", "decide", "previous", "seal", "trap", "fail",
   "reload_intent", "reload_pending", "reload_decided", "reload_done"}

(* The rest of a rollback once its decision is on disk, and of a commit. *)
Settling == <<"previous", "completed", "finalized", "seal", "finalized", "fail">>
Rolling  == <<"rollback", "cease", "restore", "switchback", "regrant", "decide">>
              \o Settling
Sealing  == <<"seal", "finalized", "fail">>

ASSUME NoneAssumption ==
  None \notin Intents \cup Deployments \cup Authorizations \cup Databases
             \cup {"committed", "rolled-back"}

JobStates ==
  [cmd : Commands \cup {"none"}, txn : Txns \cup {None}, rel : Releases,
   out : {None, "committed", "rolled-back"},
   sub : Txns \cup {None}, prev : Releases \cup {None}, ready : Txns \cup {None},
   trap : {"off", "set", "run"}, created : BOOLEAN,
   todo : Seq(Stages)]

TypeOK ==
  /\ intent \in Intents \cup {None}
  /\ pending \in Deployments \cup {None}
  /\ decided \in Deployments \cup {None}
  /\ done \in [Txns -> Deployments \cup {None}]
  /\ \A r \in {decided} \cup {done[t] : t \in Txns} : r # None => r.outcome # None
  /\ current \in Releases \cup {None}
  /\ dirs \in SUBSET Releases
  /\ db \in Databases
  /\ snap \in [Txns -> Databases \cup {None}]
  /\ auth \in Authorizations \cup {None}
  /\ live \in SUBSET (Txns \cup {"auth"})
  /\ armed \in SUBSET Txns
  /\ svc \in [st : {"stopped", "starting", "checking", "running", "retry"},
              rel : Releases]
  /\ lock \in Jobs \cup {None}
  /\ job \in [Jobs -> JobStates]
  /\ faults \in 0..MaxFaults
  /\ strayed \in BOOLEAN

------------------------------------------------------------------------------
(* The machine starts with First installed by a committed deployment, or with *)
(* nothing installed.                                                         *)
Init ==
  /\ intent = None /\ pending = None /\ decided = None
  /\ done = [t \in Txns |-> None]
  /\ db = Origin
  /\ snap = [t \in Txns |-> None]
  /\ armed = {}
  /\ lock = None
  /\ job = [p \in Jobs |-> Idle]
  /\ faults = 0
  /\ strayed = FALSE
  /\ \/ /\ current = First
        /\ dirs = {First}
        /\ auth = [kind |-> "committed", txn |-> None, rel |-> First, db |-> Origin]
        /\ live = {"auth"}
        /\ svc = [st |-> "running", rel |-> First]
     \/ /\ current = None
        /\ dirs = {}
        /\ auth = None
        /\ live = {}
        /\ svc = [st |-> "stopped", rel |-> First]

(* How a stage ends. *)
At(p, s) == job[p].todo # <<>> /\ Head(job[p].todo) = s
Continue(p) == job' = [job EXCEPT ![p].todo = Tail(@)]
Finish(p) == job' = [job EXCEPT ![p].todo = <<>>]
Trapped(p) == job[p].cmd = "activate" /\ job[p].trap = "set"
Fail(p) ==
  job' = [job EXCEPT ![p].todo = IF Trapped(p) THEN <<"trap">> ELSE <<"fail">>]

(* current_target agrees with the outcome of a deployment. *)
Fits(r) == IF r.outcome = "committed"
           THEN current = r.rel /\ r.rel \in dirs
           ELSE current = r.prev /\ (r.prev # None => r.prev \in dirs)

(* The promotion report binds the database that is installed. *)
ReportValid(r) == r.bound /\ r.txn \in live

IsPending(t) == pending # None /\ pending.txn = t

(* A finalization record may repeat the recorded outcome, never contradict it. *)
MayDecide(out) == pending.outcome \in {None, out}

(* A new file is renamed over the database: no record names its inode. *)
Install(content) == db' = content /\ live' = {}

(* restore_previous_startup_authorization_at: the previous authorization, bound *)
(* to the inode that is installed now; its digest has to match.                 *)
Regrantable(r) == r.saved # None => r.saved.db = db
Regrant(r) == /\ auth' = r.saved
              /\ live' = IF r.saved = None THEN live \ {"auth"} ELSE live \cup {"auth"}

------------------------------------------------------------------------------
(* The lock and the service.                                                  *)

Begin(p, j) ==
  /\ job[p].cmd = "none" /\ lock = None
  /\ lock' = p
  /\ job' = [job EXCEPT ![p] = [j EXCEPT !.todo = Program[j.cmd]]]

(* restart_service_outside_deploy_lock, in two halves: systemctl restart, *)
(* which stops the service and queues its start ...                       *)
Restart(p) ==
  /\ At(p, "restart")
  /\ IF lock = p
     THEN /\ lock' = None
          /\ svc' = [svc EXCEPT !.st = "starting"]
          /\ Continue(p)
     ELSE Fail(p) /\ UNCHANGED <<lock, svc>>
  /\ UNCHANGED <<records, site, armed, faults, strayed>>

(* ... and, when the start has ended, the lock again. *)
Restarted == svc.st \in {"running", "retry", "stopped"}

Relock(p) ==
  /\ At(p, "relock") /\ lock = None /\ Restarted
  /\ lock' = p
  /\ IF svc.st = "running" THEN Continue(p) ELSE Fail(p)
  /\ UNCHANGED <<records, site, armed, svc, faults, strayed>>

(* Mutant: the command goes on without the lock. *)
LockTimeoutIgnored(p) ==
  /\ At(p, "relock") /\ lock # None /\ Restarted
  /\ faults < MaxFaults /\ faults' = faults + 1
  /\ Continue(p)
  /\ UNCHANGED <<records, site, armed, svc, lock, strayed>>

(* flock -w: the script exits when the lock stays taken; an activation through *)
(* its trap, which then works without the lock.                                *)
LockTimeout(p) ==
  /\ At(p, "relock") /\ lock # None /\ Restarted
  /\ faults < MaxFaults /\ faults' = faults + 1
  /\ strayed' = (strayed \/ Trapped(p))
  /\ Fail(p)
  /\ UNCHANGED <<records, site, armed, svc, lock>>

(* The end of a shell closes its lock; systemd takes the exit status of the *)
(* boot reconciler as the fate of the start that waits for it.              *)
Exit(p) ==
  /\ job[p].cmd # "none" /\ (job[p].todo = <<>> \/ At(p, "fail"))
  /\ job' = [job EXCEPT ![p] = Idle]
  /\ lock' = IF lock = p THEN None ELSE lock
  /\ svc' = IF p = Boot /\ svc.st = "starting"
            THEN [svc EXCEPT !.st = IF job[p].todo = <<>> THEN "checking" ELSE "stopped"]
            ELSE svc
  /\ UNCHANGED <<records, site, armed, faults, strayed>>

(* The service Requires= the boot reconciler: every start runs it first. *)
StartBoot ==
  /\ svc.st = "starting"
  /\ Begin(Boot, [Idle EXCEPT !.cmd = "reconcile"])
  /\ UNCHANGED <<records, site, armed, svc, faults, strayed>>

BootTimesOut ==
  /\ svc.st = "starting" /\ job[Boot].cmd = "none" /\ lock # None
  /\ faults < MaxFaults /\ faults' = faults + 1
  /\ svc' = [svc EXCEPT !.st = "stopped"]
  /\ UNCHANGED <<records, site, armed, lock, job, strayed>>

(* verifyProductionStartupAuthorization. *)
Authorized ==
  /\ current # None /\ auth # None
  /\ auth.rel = current
  /\ "auth" \in live /\ auth.db = db
  /\ IF auth.kind = "pending"
     THEN pending # None
     ELSE auth.txn = None \/ (done[auth.txn] # None /\ done[auth.txn].outcome = "committed")

Serve ==
  /\ svc.st = "checking"
  /\ svc' = IF Authorized THEN [st |-> "running", rel |-> current]
                          ELSE [svc EXCEPT !.st = "retry"]
  /\ UNCHANGED <<records, site, armed, lock, job, faults, strayed>>

(* Restart=on-failure. *)
AutoRestart ==
  /\ svc.st = "retry"
  /\ svc' = [svc EXCEPT !.st = "starting"]
  /\ UNCHANGED <<records, site, armed, lock, job, faults, strayed>>

ServiceFails ==
  /\ svc.st = "running" /\ faults < MaxFaults
  /\ faults' = faults + 1
  /\ svc' = [svc EXCEPT !.st = "retry"]
  /\ UNCHANGED <<records, site, armed, lock, job, strayed>>

------------------------------------------------------------------------------
(* Recovery, which every command runs before its own work.                    *)

Terminal(t) == (decided # None /\ decided.txn = t) \/ done[t] # None

(* Mutant: an intent is undone although its deployment is pending. *)
PrePendingLoose == intent # None /\ ~Terminal(intent.txn)
PrePending == intent # None /\ pending = None /\ ~Terminal(intent.txn)
Contradicted == \/ PrePending /\ current # intent.prev
                \/ intent # None /\ pending # None /\ pending.txn # intent.txn

(* recover_activation_intents: an intent whose transaction got no further is *)
(* undone, and the service that its activation may have stopped is started.  *)
RecoverIntents(p) ==
  /\ At(p, "intents")
  /\ IF Contradicted THEN Fail(p) /\ UNCHANGED <<intent, dirs, snap>>
     ELSE IF ~PrePending
     THEN /\ intent' = IF pending = None THEN None ELSE intent
          /\ Continue(p)
          /\ UNCHANGED <<dirs, snap>>
     ELSE /\ snap' = [snap EXCEPT ![intent.txn] = None]
          /\ dirs' = IF intent.fresh THEN dirs \ {intent.rel} ELSE dirs
          /\ intent' = IF intent.prev = None THEN None ELSE intent
          /\ IF intent.prev = None THEN Continue(p)
             ELSE IF p = Boot THEN Finish(p)   \* deferred: status rollback_decided
             ELSE job' = [job EXCEPT
                    ![p].sub = intent.txn, ![p].prev = intent.prev,
                    ![p].todo = <<"restart", "relock", "reload_intent", "discard">>
                                  \o Tail(@)]
  /\ UNCHANGED <<pending, decided, done, current, db, auth, live, armed, svc, lock,
                 faults, strayed>>

DiscardIntent(p) ==
  /\ At(p, "discard")
  /\ intent' = IF intent # None /\ intent.txn = job[p].sub THEN None ELSE intent
  /\ Continue(p)
  /\ UNCHANGED <<pending, decided, done, site, armed, svc, lock, faults, strayed>>

(* After a restart the recovery reads its record again: it has to be where it *)
(* was, and the previous release has to be current and to answer.             *)
Root(s) == CASE s = "reload_intent"  -> {intent}
             [] s = "reload_pending" -> {pending}
             [] s = "reload_decided" -> {decided}
             [] s = "reload_done"    -> {done[t] : t \in Txns}

Reload(p) ==
  \E s \in {"reload_intent", "reload_pending", "reload_decided", "reload_done"} :
    /\ At(p, s)
    /\ IF /\ \/ s = "reload_intent"
             \/ \E r \in Root(s) \ {None} : r.txn = job[p].sub /\ current = job[p].prev
          /\ svc.st = "running" /\ svc.rel = job[p].prev
       THEN job' = [job EXCEPT ![p].todo = Tail(@),
                               ![p].ready = IF s = "reload_intent" THEN @ ELSE job[p].sub]
       ELSE Fail(p)
    /\ UNCHANGED <<records, site, armed, svc, lock, faults, strayed>>

(* Mutant: a seen readiness is forgotten. *)
MustAlwaysRestart(p, r) == r.prev # None

(* ensure_previous_release_ready_after_rollback, of a rolled-back record r: *)
(* nothing to do without a previous release or when this process has seen   *)
(* it ready; at boot it is left for later.                                  *)
MustRestart(p, r) == r.prev # None /\ job[p].ready # r.txn
RestartFor(p, r, reload) ==
  IF p = Boot THEN Finish(p)
  ELSE job' = [job EXCEPT ![p].sub = r.txn, ![p].prev = r.prev,
                          ![p].todo = <<"restart", "relock", reload>> \o @]

(* A watchdog that finds its transaction gone asks for no readiness and takes *)
(* either outcome.                                                            *)
Quiet(p) == job[p].cmd = "watchdog" /\ job[p].out = None

(* recover_finalized_state: up to the cleanup ... *)
RecoverFinalized(p) ==
  /\ At(p, "finalized")
  /\ LET r == decided
         mine == r.txn = job[p].txn /\ job[p].out \in {None, r.outcome}
         any  == job[p].txn = None \/ (job[p].cmd = "activate" /\ job[p].trap = "off")
     IN IF lock # p THEN Fail(p) /\ UNCHANGED <<dirs, snap>>
        ELSE IF r = None THEN Continue(p) /\ UNCHANGED <<dirs, snap>>
        ELSE IF Quiet(p) /\ r.txn # job[p].txn THEN Continue(p) /\ UNCHANGED <<dirs, snap>>
        ELSE IF ~(any \/ mine) \/ ~Fits(r) THEN Fail(p) /\ UNCHANGED <<dirs, snap>>
        ELSE IF r.outcome = "rolled-back" /\ MustRestart(p, r) /\ ~Quiet(p)
        THEN RestartFor(p, r, "reload_decided") /\ UNCHANGED <<dirs, snap>>
        ELSE IF done[r.txn] # None THEN Fail(p) /\ UNCHANGED <<dirs, snap>>
        ELSE /\ snap' = [snap EXCEPT ![r.txn] = None]
             /\ dirs' = IF r.outcome = "rolled-back" /\ r.fresh
                        THEN dirs \ {r.rel} ELSE dirs
             /\ job' = [job EXCEPT
                  ![p].sub = r.txn,
                  ![p].todo = <<"complete", "grant", "drop">> \o Tail(@)]
  /\ UNCHANGED <<records, current, db, auth, live, armed, svc, lock, faults, strayed>>

(* ... then the move into the completion registry ... *)
Complete(p) ==
  /\ At(p, "complete")
  /\ IF decided # None /\ decided.txn = job[p].sub
     THEN /\ done' = [done EXCEPT ![decided.txn] = decided]
          /\ decided' = None
          /\ Continue(p)
     ELSE Fail(p) /\ UNCHANGED <<done, decided>>
  /\ UNCHANGED <<intent, pending, site, armed, svc, lock, faults, strayed>>

(* ... the startup authorization that goes with the outcome, which binds the *)
(* live database or is refused ...                                           *)
Grant(p) ==
  /\ At(p, "grant")
  /\ LET r == done[job[p].sub]
     IN IF r.outcome = "committed"
        THEN IF ReportValid(r)
             THEN /\ auth' = [kind |-> "committed", txn |-> r.txn, rel |-> r.rel, db |-> db]
                  /\ live' = live \cup {"auth"}
                  /\ Continue(p)
             ELSE Fail(p) /\ UNCHANGED <<auth, live>>
        ELSE IF Regrantable(r)
             THEN Regrant(r) /\ Continue(p)
             ELSE Fail(p) /\ UNCHANGED <<auth, live>>
  /\ UNCHANGED <<records, current, dirs, db, snap, armed, svc, lock, faults, strayed>>

(* ... and the activation intent, if one was left.  A command that has recovered *)
(* a finished transaction is done; an activation goes on.                        *)
Drop(p) ==
  /\ At(p, "drop")
  /\ intent' = IF intent # None /\ intent.txn = job[p].sub THEN None ELSE intent
  /\ IF job[p].cmd = "activate" /\ job[p].trap = "off" THEN Continue(p) ELSE Finish(p)
  /\ UNCHANGED <<pending, decided, done, site, armed, svc, lock, faults, strayed>>

(* recover_completed_state of the transaction of the command. *)
RecoverCompleted(p) ==
  /\ At(p, "completed")
  /\ LET r == done[job[p].txn]
     IN IF lock # p THEN Fail(p)
        ELSE IF r = None THEN Continue(p)
        ELSE IF \/ job[p].out \notin {None, r.outcome}
                \/ IsPending(r.txn) \/ ~Fits(r)
             THEN Fail(p)
        ELSE IF r.outcome = "rolled-back" /\ MustRestart(p, r) /\ ~Quiet(p)
             THEN RestartFor(p, r, "reload_done")
        ELSE job' = [job EXCEPT ![p].sub = r.txn,
                                ![p].todo = <<"grant", "drop">> \o Tail(@)]
  /\ UNCHANGED <<records, site, armed, svc, lock, faults, strayed>>

------------------------------------------------------------------------------
(* activate_release.                                                          *)

(* Mutant: a transaction ID is used again. *)
WriteIntentReused(p) ==
  /\ At(p, "intend")
  /\ LET j == job[p]
     IN IF pending # None
        THEN Fail(p) /\ UNCHANGED intent
        ELSE /\ intent' = [txn |-> j.txn, rel |-> j.rel, prev |-> current,
                           fresh |-> j.rel \notin dirs]
             /\ job' = [job EXCEPT ![p].trap = "set", ![p].todo = Tail(@)]
  /\ UNCHANGED <<pending, decided, done, site, armed, svc, lock, faults, strayed>>

(* ensure_transaction_id_unused, the refusal of a second pending deployment, the *)
(* trap on exit, and write_activation_intent.                                    *)
WriteIntent(p) ==
  /\ At(p, "intend")
  /\ LET j == job[p]
     IN IF pending # None \/ Terminal(j.txn)
        THEN Fail(p) /\ UNCHANGED intent
        ELSE /\ intent' = [txn |-> j.txn, rel |-> j.rel, prev |-> current,
                           fresh |-> j.rel \notin dirs]
             /\ job' = [job EXCEPT ![p].trap = "set", ![p].todo = Tail(@)]
  /\ UNCHANGED <<pending, decided, done, site, armed, svc, lock, faults, strayed>>

Unpack(p) ==
  /\ At(p, "unpack")
  /\ dirs' = dirs \cup {job[p].rel}
  /\ Continue(p)
  /\ UNCHANGED <<records, current, db, snap, auth, live, armed, svc, lock, faults, strayed>>

(* Mutant: the service runs on while its database is promoted. *)
StopNothing(p) ==
  /\ At(p, "halt")
  /\ Continue(p)
  /\ UNCHANGED <<records, site, armed, svc, lock, faults, strayed>>

StopService(p) ==
  /\ At(p, "halt")
  /\ svc' = [svc EXCEPT !.st = "stopped"]
  /\ Continue(p)
  /\ UNCHANGED <<records, site, armed, lock, faults, strayed>>

SnapshotDatabase(p) ==
  /\ At(p, "snapshot")
  /\ snap' = [snap EXCEPT ![job[p].txn] = db]
  /\ Continue(p)
  /\ UNCHANGED <<records, current, dirs, db, auth, live, armed, svc, lock, faults, strayed>>

(* write_pending_state with snapshot_previous_startup_authorization: the active *)
(* authorization is a committed one for the previous release and the installed  *)
(* database, or there is none.                                                  *)
WritePending(p) ==
  /\ At(p, "pend")
  /\ LET t == job[p].txn
         valid == auth # None => /\ intent.prev # None /\ auth.kind = "committed"
                                 /\ auth.rel = intent.prev
                                 /\ "auth" \in live /\ auth.db = db
     IN IF valid
        THEN /\ pending' = [txn |-> t, rel |-> job[p].rel, prev |-> intent.prev,
                            fresh |-> intent.fresh, saved |-> auth,
                            phase |-> "prepared", bound |-> FALSE, approved |-> FALSE,
                            expired |-> FALSE, outcome |-> None]
             /\ job' = [job EXCEPT ![p].created = TRUE, ![p].todo = Tail(@)]
        ELSE Fail(p) /\ UNCHANGED pending
  /\ UNCHANGED <<intent, decided, done, site, armed, svc, lock, faults, strayed>>

(* start_watchdog, a process of its own. *)
Arm(p) ==
  /\ At(p, "arm")
  /\ armed' = armed \cup {job[p].txn}
  /\ Continue(p)
  /\ UNCHANGED <<records, site, svc, lock, faults, strayed>>

RemoveIntent(p) ==
  /\ At(p, "unintend")
  /\ intent' = None
  /\ Continue(p)
  /\ UNCHANGED <<pending, decided, done, site, armed, svc, lock, faults, strayed>>

(* run_quality_promotion: the bundled promotion replaces the database ... *)
Promote(p) ==
  /\ At(p, "promote")
  /\ Install([txn |-> job[p].txn, rel |-> job[p].rel])
  /\ Continue(p)
  /\ UNCHANGED <<records, current, dirs, snap, auth, armed, svc, lock, faults, strayed>>

(* ... and its report is bound to the transaction. *)
AcceptReport(p) ==
  /\ At(p, "report")
  /\ pending' = [pending EXCEPT !.bound = TRUE, !.phase = "promoted"]
  /\ live' = live \cup {job[p].txn}
  /\ Continue(p)
  /\ UNCHANGED <<intent, decided, done, current, dirs, db, snap, auth, armed, svc,
                 lock, faults, strayed>>

SwitchCurrent(p) ==
  /\ At(p, "switch")
  /\ current' = job[p].rel
  /\ Continue(p)
  /\ UNCHANGED <<records, dirs, db, snap, auth, live, armed, svc, lock, faults, strayed>>

PhaseActivated(p) ==
  /\ At(p, "activated")
  /\ pending' = [pending EXCEPT !.phase = "activated"]
  /\ Continue(p)
  /\ UNCHANGED <<intent, decided, done, site, armed, svc, lock, faults, strayed>>

(* write_pending_startup_authorization. *)
PermitStart(p) ==
  /\ At(p, "permit")
  /\ IF pending # None /\ pending.phase \in {"activated", "verified"} /\ ReportValid(pending)
     THEN /\ auth' = [kind |-> "pending", txn |-> pending.txn, rel |-> pending.rel, db |-> db]
          /\ live' = live \cup {"auth"}
          /\ Continue(p)
     ELSE Fail(p) /\ UNCHANGED <<auth, live>>
  /\ UNCHANGED <<records, current, dirs, db, snap, armed, svc, lock, faults, strayed>>

(* The candidate is accepted when it is running and ready, which it need not be *)
(* (wait_until_ready), and the restart has changed nothing else.                *)
Answers(rel) == current = rel /\ svc.st = "running" /\ svc.rel = rel

Confirm(p) ==
  /\ At(p, "confirm")
  /\ \/ /\ IsPending(job[p].txn) /\ pending.phase = "activated" /\ Answers(job[p].rel)
        /\ Finish(p)
     \/ Fail(p)
  /\ UNCHANGED <<records, site, armed, svc, lock, faults, strayed>>

OwnIntent(p) == intent # None /\ intent.txn = job[p].txn

(* activation_exit: its own intent is recovered, a deployment this activation made *)
(* pending is rolled back.                                                     *)
ActivationExit(p) ==
  /\ At(p, "trap")
  /\ job' = [job EXCEPT
       ![p].trap = "run", ![p].out = "rolled-back",
       ![p].todo = (IF OwnIntent(p) THEN <<"intents">> ELSE <<>>)
                     \o (IF job[p].created THEN Rolling ELSE <<>>) \o <<"fail">>]
  /\ UNCHANGED <<records, site, armed, svc, lock, faults, strayed>>

(* A signal, or any check of a stage that fails, ends the activation, also while *)
(* it waits for the restart or for the lock after it.                            *)
Interrupt(p) ==
  /\ Trapped(p) /\ job[p].todo # <<>> /\ ~At(p, "trap")
  /\ strayed' = (strayed \/ lock # p)
  /\ Fail(p)
  /\ UNCHANGED <<records, site, armed, svc, lock, faults>>

------------------------------------------------------------------------------
(* authorize_release.                                                         *)

Approve(p) ==
  /\ At(p, "approve")
  /\ IF /\ intent = None /\ IsPending(job[p].txn)
        /\ MayDecide("committed")
        /\ ReportValid(pending) /\ ~pending.expired
        /\ Answers(pending.rel) /\ pending.phase \in {"activated", "verified"}
     THEN pending' = [pending EXCEPT !.approved = TRUE] /\ Continue(p)
     ELSE Fail(p) /\ UNCHANGED pending
  /\ UNCHANGED <<intent, decided, done, site, armed, svc, lock, faults, strayed>>

(* recover_verified_authorization_at: the phase follows the authorization. *)
Verify(p) ==
  /\ At(p, "verify")
  /\ IF pending.approved /\ pending.phase \in {"activated", "verified"}
     THEN pending' = [pending EXCEPT !.phase = "verified"] /\ Continue(p)
     ELSE Fail(p) /\ UNCHANGED pending
  /\ UNCHANGED <<intent, decided, done, site, armed, svc, lock, faults, strayed>>

------------------------------------------------------------------------------
(* commit_release, rollback_release, reconcile_release and watchdog_release:  *)
(* what each decides about the deployment that is pending.                    *)

Decide(p, stages, out) ==
  job' = [job EXCEPT ![p].todo = stages, ![p].out = out,
                     ![p].txn = IF pending = None THEN @ ELSE pending.txn]

Committing == <<"verify", "valid", "ready", "decide">> \o Sealing

CommitDecision(p) ==
  /\ At(p, "commit")
  /\ IF intent # None \/ ~IsPending(job[p].txn) THEN Fail(p)
     ELSE \/ pending.outcome = "committed" /\ Decide(p, Sealing, "committed")
          \/ pending.outcome = "rolled-back" /\ Fail(p)
          \/ /\ pending.outcome = None
             /\ IF ReportValid(pending) THEN Decide(p, Committing, "committed") ELSE Fail(p)
  /\ UNCHANGED <<records, site, armed, svc, lock, faults, strayed>>

RollbackDecision(p) ==
  /\ At(p, "undo")
  /\ IF pending = None THEN Finish(p)
     ELSE IF pending.txn # job[p].txn THEN Fail(p)
     ELSE \/ pending.outcome = "committed" /\ Fail(p)
          \/ pending.outcome = "rolled-back" /\ Decide(p, Settling, "rolled-back")
          \/ pending.outcome = None /\ Decide(p, Rolling, "rolled-back")
  /\ UNCHANGED <<records, site, armed, svc, lock, faults, strayed>>

(* Mutant: the timer leaves verified deployments alone. *)
ReconcileUnverified(p) ==
  /\ At(p, "review")
  /\ IF pending = None THEN Finish(p)
     ELSE \/ pending.outcome = "committed" /\ Decide(p, Sealing, "committed")
          \/ pending.outcome = "rolled-back" /\ Decide(p, Settling, "rolled-back")
          \/ /\ pending.outcome = None /\ pending.approved
             /\ Decide(p, <<"verify", "valid", "permit">>, None)
          \/ /\ pending.outcome = None /\ ~pending.approved
             /\ IF intent # None \/ pending.expired THEN Decide(p, Rolling, "rolled-back")
                ELSE IF p # Boot THEN Finish(p)
                ELSE IF /\ pending.phase = "activated" /\ current = pending.rel
                        /\ ReportValid(pending)
                     THEN Decide(p, <<"permit">>, None)
                     ELSE Decide(p, Rolling, "rolled-back")
  /\ UNCHANGED <<records, site, armed, svc, lock, faults, strayed>>

ReconcileDecision(p) ==
  /\ At(p, "review")
  /\ IF pending = None THEN Finish(p)
     ELSE \/ pending.outcome = "committed" /\ Decide(p, Sealing, "committed")
          \/ pending.outcome = "rolled-back" /\ Decide(p, Settling, "rolled-back")
          \/ /\ pending.outcome = None /\ pending.approved
             /\ IF p = Boot
                THEN Decide(p, <<"verify", "valid", "permit">>, None)
                ELSE Decide(p, <<"verify", "valid", "permit", "ready", "decide">> \o Sealing,
                            "committed")
          \/ /\ pending.outcome = None /\ ~pending.approved
             /\ IF intent # None \/ pending.expired THEN Decide(p, Rolling, "rolled-back")
                ELSE IF p # Boot THEN Finish(p)
                ELSE IF /\ pending.phase = "activated" /\ current = pending.rel
                        /\ ReportValid(pending)
                     THEN Decide(p, <<"permit">>, None)
                     ELSE Decide(p, Rolling, "rolled-back")
  /\ UNCHANGED <<records, site, armed, svc, lock, faults, strayed>>

WatchdogDecision(p) ==
  /\ At(p, "expire")
  /\ LET mine == IsPending(job[p].txn)
     IN /\ intent' = IF mine THEN None ELSE intent
        /\ IF pending = None
           THEN job' = [job EXCEPT ![p].todo = <<"completed", "finalized", "fail">>]
           ELSE IF ~mine THEN Finish(p)
           ELSE IF pending.approved THEN Decide(p, Committing, "committed")
           ELSE Decide(p, Rolling, "rolled-back")
  /\ UNCHANGED <<pending, decided, done, site, armed, svc, lock, faults, strayed>>

CheckCandidate(p) ==
  /\ At(p, "valid")
  /\ IF ReportValid(pending) /\ current = pending.rel THEN Continue(p) ELSE Fail(p)
  /\ UNCHANGED <<records, site, armed, svc, lock, faults, strayed>>

CandidateReady(p) ==
  /\ At(p, "ready")
  /\ IF Answers(pending.rel) THEN Continue(p) ELSE Fail(p)
  /\ UNCHANGED <<records, site, armed, svc, lock, faults, strayed>>

------------------------------------------------------------------------------
(* restore_previous_release, one durable change after the other.              *)

(* Mutant: a verified deployment can be rolled back. *)
RollbackVerified(p) ==
  /\ At(p, "rollback")
  /\ IF /\ IsPending(job[p].txn)
        /\ MayDecide("rolled-back") /\ current \in {pending.rel, pending.prev}
     THEN job' = [job EXCEPT ![p].prev = pending.prev, ![p].todo = Tail(@)]
     ELSE Fail(p)
  /\ UNCHANGED <<records, site, armed, svc, lock, faults, strayed>>

(* Mutant: the candidate is not stopped. *)
RollbackLive(p) ==
  /\ At(p, "rollback")
  /\ IF /\ IsPending(job[p].txn) /\ ~pending.approved
        /\ MayDecide("rolled-back") /\ current \in {pending.rel, pending.prev}
     THEN job' = [job EXCEPT ![p].prev = pending.prev, ![p].todo = Tail(Tail(@))]
     ELSE Fail(p)
  /\ UNCHANGED <<records, site, armed, svc, lock, faults, strayed>>

(* What is checked and read before the first change: no verification, no other *)
(* outcome, and the release to go back to.                                     *)
BeginRollback(p) ==
  /\ At(p, "rollback")
  /\ IF /\ IsPending(job[p].txn) /\ ~pending.approved
        /\ MayDecide("rolled-back") /\ current \in {pending.rel, pending.prev}
     THEN job' = [job EXCEPT ![p].prev = pending.prev, ![p].todo = Tail(@)]
     ELSE Fail(p)
  /\ UNCHANGED <<records, site, armed, svc, lock, faults, strayed>>

StopCandidate(p) ==
  /\ At(p, "cease")
  /\ svc' = IF p = Boot THEN svc ELSE [svc EXCEPT !.st = "stopped"]
  /\ Continue(p)
  /\ UNCHANGED <<records, site, armed, lock, faults, strayed>>

RestoreDatabase(p) ==
  /\ At(p, "restore")
  /\ IF IsPending(job[p].txn) /\ snap[job[p].txn] # None
     THEN Install(snap[job[p].txn]) /\ Continue(p)
     ELSE Fail(p) /\ UNCHANGED <<db, live>>
  /\ UNCHANGED <<records, current, dirs, snap, auth, armed, svc, lock, faults, strayed>>

(* To the release that was read before; where the script finds nothing to *)
(* switch, it is current already.                                         *)
SwitchBack(p) ==
  /\ At(p, "switchback")
  /\ current' = job[p].prev
  /\ Continue(p)
  /\ UNCHANGED <<records, dirs, db, snap, auth, live, armed, svc, lock, faults, strayed>>

(* Of the deployment that is pending then, whichever it is. *)
RestoreAuthorization(p) ==
  /\ At(p, "regrant")
  /\ IF pending # None /\ Regrantable(pending)
     THEN Regrant(pending) /\ Continue(p)
     ELSE Fail(p) /\ UNCHANGED <<auth, live>>
  /\ UNCHANGED <<records, current, dirs, db, snap, armed, svc, lock, faults, strayed>>

(* write_finalization_record. *)
RecordOutcome(p) ==
  /\ At(p, "decide")
  /\ IF IsPending(job[p].txn) /\ MayDecide(job[p].out)
     THEN pending' = [pending EXCEPT !.outcome = job[p].out] /\ Continue(p)
     ELSE Fail(p) /\ UNCHANGED pending
  /\ UNCHANGED <<intent, decided, done, site, armed, svc, lock, faults, strayed>>

EnsurePrevious(p) ==
  /\ At(p, "previous")
  /\ IF ~IsPending(job[p].txn) \/ current # pending.prev THEN Fail(p)
     ELSE IF ~MustRestart(p, pending)
          THEN job' = [job EXCEPT ![p].ready = pending.txn, ![p].todo = Tail(@)]
     ELSE IF p = Boot THEN Finish(p)
     ELSE job' = [job EXCEPT
            ![p].sub = pending.txn, ![p].prev = pending.prev,
            ![p].todo = <<"restart", "relock", "reload_pending">> \o Tail(@)]
  /\ UNCHANGED <<records, site, armed, svc, lock, faults, strayed>>

(* finalize_pending_state, after its record: the directory is renamed.  With  *)
(* another finalized directory beside it, the script renames it all the same  *)
(* and every later command refuses the two; here the command fails at once.   *)
Seal(p) ==
  /\ At(p, "seal")
  /\ IF lock = p /\ IsPending(job[p].txn) /\ MayDecide(job[p].out) /\ decided = None
     THEN /\ decided' = pending
          /\ pending' = None
          /\ Continue(p)
     ELSE Fail(p) /\ UNCHANGED <<pending, decided>>
  /\ UNCHANGED <<intent, done, site, armed, svc, lock, faults, strayed>>

------------------------------------------------------------------------------
(* The commands, time and faults.                                             *)

Known(t) == Terminal(t) \/ IsPending(t)

Activate(p, t) ==
  /\ Begin(p, [Idle EXCEPT !.cmd = "activate", !.txn = t, !.rel = Target[t]])
  /\ UNCHANGED <<records, site, armed, svc, faults, strayed>>

(* The workflow and the operator name the transaction. *)
Request(p, c, t) ==
  /\ Known(t)
  /\ Begin(p, [Idle EXCEPT !.cmd = c, !.txn = t,
                           !.out = IF c = "rollback" THEN "rolled-back" ELSE "committed"])
  /\ UNCHANGED <<records, site, armed, svc, faults, strayed>>

(* openclaw-release-radar-reconcile.timer, whose unit runs once at a time. *)
StartTimer ==
  /\ Begin(Tick, [Idle EXCEPT !.cmd = "reconcile"])
  /\ UNCHANGED <<records, site, armed, svc, faults, strayed>>

(* A watchdog wakes up at the deadline of its transaction. *)
WakeWatchdog(p, t) ==
  /\ t \in armed /\ (IsPending(t) => pending.expired)
  /\ armed' = armed \ {t}
  /\ Begin(p, [Idle EXCEPT !.cmd = "watchdog", !.txn = t])
  /\ UNCHANGED <<records, site, svc, faults, strayed>>

Expire ==
  /\ pending # None /\ ~pending.expired
  /\ pending' = [pending EXCEPT !.expired = TRUE]
  /\ UNCHANGED <<intent, decided, done, site, armed, svc, lock, job, faults, strayed>>

(* SIGKILL: no trap runs, the kernel closes the lock. *)
Kill(p) ==
  /\ job[p].cmd # "none" /\ faults < MaxFaults
  /\ faults' = faults + 1
  /\ job' = [job EXCEPT ![p] = Idle]
  /\ lock' = IF lock = p THEN None ELSE lock
  /\ svc' = IF p = Boot /\ svc.st = "starting" THEN [svc EXCEPT !.st = "stopped"] ELSE svc
  /\ UNCHANGED <<records, site, armed, strayed>>

Reboot ==
  /\ faults < MaxFaults
  /\ faults' = faults + 1
  /\ job' = [p \in Jobs |-> Idle]
  /\ lock' = None
  /\ armed' = {}
  /\ svc' = [svc EXCEPT !.st = "starting"]
  /\ UNCHANGED <<records, site, strayed>>

(* One step of a process. *)
Work(p) ==
  \/ Restart(p) \/ Relock(p) \/ Exit(p)
  \/ RecoverIntents(p) \/ DiscardIntent(p) \/ Reload(p)
  \/ RecoverFinalized(p) \/ Complete(p) \/ Grant(p) \/ Drop(p) \/ RecoverCompleted(p)
  \/ WriteIntent(p) \/ Unpack(p) \/ StopService(p) \/ SnapshotDatabase(p)
  \/ WritePending(p) \/ Arm(p) \/ RemoveIntent(p) \/ Promote(p) \/ AcceptReport(p)
  \/ SwitchCurrent(p) \/ PhaseActivated(p) \/ PermitStart(p) \/ Confirm(p)
  \/ ActivationExit(p) \/ Approve(p) \/ Verify(p)
  \/ CommitDecision(p) \/ RollbackDecision(p) \/ ReconcileDecision(p)
  \/ WatchdogDecision(p) \/ CheckCandidate(p) \/ CandidateReady(p)
  \/ BeginRollback(p) \/ StopCandidate(p) \/ RestoreDatabase(p) \/ SwitchBack(p)
  \/ RestoreAuthorization(p) \/ RecordOutcome(p) \/ EnsurePrevious(p) \/ Seal(p)

Fault == (\E p \in Jobs : Kill(p)) \/ Reboot \/ ServiceFails

Next ==
  \/ \E p \in Jobs : Work(p) \/ LockTimeout(p)
  \/ \E p \in Shells : \/ Interrupt(p)
                        \/ \E t \in Txns :
                             \/ Activate(p, t)
                             \/ \E c \in {"authorize", "commit", "rollback"} :
                                  Request(p, c, t)
  \/ \E p \in Watchdogs, t \in Txns : WakeWatchdog(p, t)
  \/ StartBoot \/ BootTimesOut \/ StartTimer \/ Serve \/ AutoRestart \/ Expire
  \/ Fault

Spec == Init /\ [][Next]_vars

(* Every process that can work does; only the timer is sure to get its turn at *)
(* a lock that others take again and again.                                    *)
FairSpec ==
  /\ Spec
  /\ \A p \in Jobs : WF_vars(Work(p))
  /\ SF_vars(Relock(Tick)) /\ SF_vars(StartBoot) /\ SF_vars(StartTimer)
  /\ WF_vars(Serve) /\ WF_vars(AutoRestart) /\ WF_vars(Expire)

------------------------------------------------------------------------------
(* Properties.                                                                *)
(*                                                                            *)
(* The deployment lock is what makes the commands of the script transactions. *)
(* An activation that loses it around its restart rolls back without it, its  *)
(* checks and its writes open to every other command: it may roll back a      *)
(* deployment that an authorization verifies in between, or restore the       *)
(* database under the service that a command has just started.  LockGuards    *)
(* says that nothing else works without the lock, DocActionsSerialize that    *)
(* this does; the other safety properties hold until it happens (`strayed').  *)

(* "Old code is never restarted against the promoted candidate database": the *)
(* service that runs is always of the release that the installed database was *)
(* made for, across crashed activations, rollbacks and reboots.               *)
CodeMatchesDb == svc.st = "running" => svc.rel = db.rel
OldCodeNeverOnPromotedDb == strayed \/ CodeMatchesDb

(* What has been decided about the latest deployment agrees with what is      *)
(* installed, at every moment until it is completed: one that is verified or  *)
(* committed keeps its release and its database, one that is rolled back has  *)
(* neither.                                                                   *)
Latest == IF pending # None THEN pending ELSE decided
DecisionHolds ==
  /\ pending # None /\ pending.approved => current = pending.rel /\ db.txn = pending.txn
  /\ Latest # None =>
       /\ Latest.outcome = "committed" => current = Latest.rel /\ db.txn = Latest.txn
       /\ Latest.outcome = "rolled-back" => current = Latest.prev /\ db.txn # Latest.txn
DecisionMatchesState == strayed \/ DecisionHolds

(* No cleanup removes the release that is current, nor, while the fate of the *)
(* deployment is open, what a rollback needs: the snapshot of the database    *)
(* and the previous release.                                                  *)
NothingNeededIsDeleted ==
  \/ strayed
  \/ /\ current # None => current \in dirs
     /\ pending # None /\ pending.outcome = None =>
          /\ snap[pending.txn] # None /\ snap[pending.txn].txn # pending.txn
          /\ pending.prev # None => pending.prev \in dirs

(* The database file is replaced only while the service is down.              *)
DatabaseChangesAtRest ==
  [][db' # db => strayed \/ svc.st # "running"]_vars

(* A verdict, once on disk, is the verdict: no retry, watchdog or reboot turns *)
(* a commit into a rollback or the other way round, nor loses it between the  *)
(* two renames that move it to the completion registry.                       *)
Verdicts(t) ==
  {r.outcome : r \in {x \in {pending, decided, done[t]} \ {None} : x.txn = t}} \ {None}
VerdictIsFinal ==
  [][strayed \/ \A t \in Txns : Verdicts(t) # {} => Verdicts(t)' = Verdicts(t)]_vars

(* A step that changes a record or a file, but for time that passes, is one of *)
(* the process that holds the deployment lock.                                *)
OnDisk == <<records, site>>
UnderLock ==
  OnDisk' # OnDisk => Expire \/ \E p \in Jobs : lock = p /\ job'[p] # job[p]

(* Whatever a command changes on disk it changes under the deployment lock,   *)
(* although every restart of the service gives the lock away in the middle;   *)
(* but for the exit trap of an activation that has not got it back.           *)
LockGuards ==
  [][UnderLock \/ \E p \in Jobs : strayed /\ job[p].trap = "run" /\ job'[p] # job[p]]_vars

(* README.md: "All installer actions [...] serialize on [...]                 *)
(* deploy-promotion.lock by default."                                         *)
DocActionsSerialize == [][UnderLock]_vars

(* A rollback that is on record, of which a repeated rollback has replaced    *)
(* the database once more and left the startup authorization to the old file. *)
Stranded(t) ==
  /\ IsPending(t) /\ pending.outcome = "rolled-back"
  /\ pending.saved # None /\ "auth" \notin live

(* Every deployment that becomes pending ends in the completion registry, by  *)
(* the workflow, the watchdog, the timer or the boot reconciler, whichever of *)
(* them dies, unless it is verified first; and unless it is stranded or an    *)
(* activation has worked without the lock.                                    *)
DeploymentsEnd ==
  \A t \in Txns :
    \/ <>[]Stranded(t)
    \/ IsPending(t) ~> \/ done[t] # None \/ strayed
                       \/ IsPending(t) /\ pending.approved

(* A verified deployment is committed, also when the workflow never comes     *)
(* back to commit it, provided that the service is up for good from some      *)
(* moment on and no activation has worked without the lock.                   *)
VerifiedCommits ==
  <>[](svc.st = "running") =>
    \A t \in Txns : (IsPending(t) /\ pending.approved) ~> (done[t] # None \/ strayed)

(* README.md: "Commit and rollback are crash-recoverable transactions", "A    *)
(* SIGKILL before rename, after rename, or during cleanup remains retryable." *)
(* A rollback whose outcome is on record reaches the completion registry, also *)
(* when every command has kept to the lock.                                    *)
DocRecordedRollbackCompletes ==
  \A t \in Txns :
    (IsPending(t) /\ pending.outcome = "rolled-back") ~> (done[t] # None \/ strayed)

==============================================================================
