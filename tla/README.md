# OpenClaw Release Radar: verification project

This directory holds TLA+ models of the release radar, the TLC configurations
that check them, and proofs that TLAPS checks. Paths of the form `db.ts:27542`
are relative to `src/src/lib/` unless they name a directory. `PROJECT.json` maps
every definition to the lines it translates, every property to the mutant of the
code that breaks it, and every hazard to the properties that watch it.

## 1. The system

A Node service polls a GitHub repository, classifies its issues with an LLM,
scores the releases, stores everything in one SQLite file and serves a page and
an API from it. Manual commands (`scripts/*.mjs`) write the same file. A
promotion script swaps a prepared database into place, and a bash installer
switches releases and reconciles them at boot.

| Component | State it keeps | Operations | Talks to | What is hard | What makes it correct |
|---|---|---|---|---|---|
| Refresh lease (`db.ts`, `refresh.ts`) | one row `refresh_leases`; in each process a guard with a failure latch | acquire, renew (heartbeat, fenced write), assert, release | every writer, any process | clock readings that age while SQL waits for the lock, crashes, expiry under a live holder | one owner of the right to write; a dead holder blocks at most one TTL |
| Operation ledger (`db.ts`, `operationReceipts.ts`) | attempts, stage events, receipts | begin, start/complete/fail a stage, terminate, abandon | lease, publication | a run that outlives its lease while a successor closes its attempt | a receipt seals its chain and is final; nothing is left open for ever |
| Score publication (`refresh.ts`, `db.ts`) | score rows, history, the tip, forecasts | publish, record a failure, recover the tip | lease, ledger | several checks inside one transaction, partial failure, files of earlier versions | score and receipt are atomic; the newest success is current |
| Process lifecycle (`index.ts`) | refresh timer, server, handlers, limit of ten seconds | start, signal, second signal, close, exit | refresh, lease, database | callbacks that end in any order | the handle is closed last; a shutdown ends |
| Cooperative cancellation (`cooperativeCancellation.ts`) | pools, tasks, first error, diagnostics | map, run a group, abort, drain | all stages of the refresh | aborts between queueing and invoking, echoes of the abort | nothing outlives the group; the first error surfaces |
| Exclusive process lock (`exclusiveProcessLock.ts`) | guard file, SQLite write transaction, owner metadata | acquire, release, verify | promotion, writers | the file replaced under a holder, late cleanup | a verified holder excludes others |
| GitHub client (`github.ts`) | limiter: queue, flights, cooldowns; retry loop | request, drain, note a rate limit, abort | GitHub | hand-kept counters, lost wake-ups, overlapping limits | bounded flights, honoured waits, every call ends |
| HTTP API and cache (`routes/api.ts`, `cache.ts`) | caches, one active build per payload, retained payload | serve, build in a worker, supersede, fall back | database (read only), workers | data changing under an awaited build, builds cancelled for newer ones | no payload under an epoch it does not hold; every request ends |
| Classifier and its attempt ledger (`refresh.ts`, `llm.ts`, `classifierAttemptLedger.ts`) | issue evidence, classifications, append-only attempts and receipts | read, classify, retry, record, store | GitHub, LLM, lease | issues edited while they are read, budgets, failures beside accepted work | evidence and classification are of one version; what was paid for is kept |
| Snapshots (`issueCatalogSnapshot.ts`, `stateEventSnapshot.ts`, `issueLabelEvidenceSnapshot.ts`) | staged crawls | stage, consume once | lease | a crawl consumed late or twice | a snapshot is consumed at most once, by its owner |
| Score history (`scoreHistoryLedger.ts`, `db.ts`) | rows that supersede one another | append, supersede, seal | publication | recovery across rows and seals | the chain has one live tip |
| Release evidence, artifacts, closure proofs, scoring, audit contracts | rows, digests | collect, verify, compute | GitHub, npm | arithmetic and text | mostly pure functions |
| Startup authorization (`startupAuthorization.ts`) | `active.json`, bound to a release and to the inode of the database | check once, at start | installer, promotion | a record that names a file since replaced | no start of a release on a database made for another |
| Promotion (`scripts/promote-quality-db.mjs`) | the inode at the database path, its write-ahead log, who has it open, staged copy and backup | snapshot, stage, compare, rename, check, roll back | process lock, deploy lock, any process that opens the file | nothing locks the writers out; logs that are unlinked while in use; a rename that fails after it took effect; loss of power | what was compared survives in the database or its backup, and the report is true |
| Installer and reconciler (`ops/viralo/*.sh`) | activation intent, pending, finalized and completed deployments, `current` link, database, snapshot, authorization | activate, authorize, commit, roll back, reconcile, watch the deadline | systemd, promotion, the server's start | a kill between any two durable writes; the lock given up around every restart; watchdog, timer and boot racing the workflow | a verdict is final and fits what is installed; every deployment ends |
| Doctor, test runner, web UI | none of the product's | read | | | |

How they meet: `refresh()` takes the lease, opens an attempt in the ledger, runs
stages (cooperative groups whose workers go through the GitHub limiter), makes
fenced writes, publishes in one transaction, and gives the lease back in its
`finally` block. A heartbeat timer renews the lease and aborts the run's signal
when it cannot. The shutdown aborts the same signal. The API reads committed
rows in worker threads and recognises a change by an epoch (a revision kept by
triggers, and the lease). Processes share only the file, its write lock and the
guard files.

## 2. Modules

| Module | Models | Used by |
|---|---|---|
| `PublicationAuthority` | abstract: who may write, what becomes of a run, what is published | refined by `RefreshLedger` |
| `RefreshLedger` | lease, ledger, publication, recovery; any number of processes | `MCRefreshLedger`, `RefreshLedger_proof` |
| `Shutdown` | one server process from its start to its exit | itself, `ServerProcess_proof` |
| `CooperativeGroup` | one `runCooperativeGroup` over `mapWithConcurrency` pools | `MCCooperativeGroup`, `ServerProcess_proof` |
| `ProcessLock` | acquisitions and verifications over a replaceable guard file | `MCProcessLock`, `ProcessLock_proof` |
| `RequestLimiter` | `GraphqlRequestLimiter` and the retry loop | itself, `RequestLimiter_proof` |
| `PayloadBuilds` | builds, caches and requests of `/releases` and `/public` | itself, `PayloadBuilds_proof` |
| `IssueReconciliation` | `reconcileIssueCommentSnapshots` with the classifier and its ledger | itself, `IssueReconciliation_proof` |
| `Installer` | the deployment transaction: workflow, watchdog, timer, boot, service | `MCInstaller`, `Installer_proof` |
| `Promotion` | the apply path of the promotion beside processes that use the file | `MCPromotion`, `Promotion_proof` |

The composition is by assumption at the seams, each stated in the module that
makes it. `Shutdown` sees of a refresh only that it runs, ends in its `finally`
block, or hangs; `RefreshLedger` allows a cancellation (`Cancel`) and a crash at
any moment, which covers every exit of `Shutdown`. `CooperativeGroup` shows that a
group throws only after everything it started has settled, which is what lets
`RefreshLedger` treat an error of a stage as one step (`StageError`).
`PayloadBuilds` sees of the ledger only that revisions grow and leases come and
go. `IssueReconciliation` is one of the fenced writes of `RefreshLedger`; a lease
that is lost there is a refusal of its transaction (`PersistRefused`). `Installer`
takes a promotion as one rename and one report (`Promote`, `AcceptReport`), of
which either may be missing after a kill: `Promotion` has the steps in between,
and a report of success there means what `Installer` assumes (`ReportIsTrue`); a
report of anything else fails the activation, whose rollback then installs its
snapshot whatever is at the path. The service of `Installer` is a server of
`Shutdown` seen from outside: it is being started, is checking its authorization,
runs, or is down.

### RefreshLedger

*State.* `clock` is the wall clock all processes share. `lease` is the row.
`txn` is the SQLite write lock together with the lease expiry as renewed inside
the open transaction (nobody else sees it before the commit). `started`,
`events`, `receipt` are the three ledger tables; `history` and `tip` the sealed
publications and `score_persistence_last_run`; `evidence` stands for the rows a
fenced write touches. `pc`, `signal`, `untried`, `job`, `writes` and `died` are
each actor's own.

*Steps.* A statement outside a transaction is a step. A transaction with one lease
check is a step (`Begin`, `Terminate`, the appends). One that checks again is
open over several (`Check`, `OpenTxn`, `SealTxn`, `AbortTxn`, `CommitWrite`,
`CommitPublication`): the clock runs on in between, and other writers wait or
fail with a busy timeout (`Locked`). `now()` is read in JavaScript before SQLite
runs the statement; `Reads(h)` is the set of readings, up to `Lag` old, that a
statement may still carry. `FailWork`, `CloseSibling`, `ClosePrimary` are
`failActive`; `Expired`, `AfterAbandoning` and `RecoverTip` are what
`beginRefreshOperationAttempt` does to attempts and publications that were left
behind. `OldRuns` are attempts already in the file, some published without a
receipt, as earlier versions left them (`db.provenance.test.ts:9820`, `:9943`
build such files).

*Abstracted.* The hash chain of events and receipts is the number of events a
receipt counts. The seals of score history that a recovery must match are one
refusal that any recovery may meet (`BeginRefused`). A stage runs at most once.

*Abstract specification.* `PublicationAuthority` has no clock, transaction or
stage. It says that only the owner opens an attempt, writes evidence or ends its
own attempt, that a score becomes the tip in the step in which its run succeeds,
and that an attempt that lost the right to write can only be closed as abandoned
by a later owner. `ImplementsAuthority` maps `owner` to the holder of the row,
`outcome` to receipts and starts, `log` to `history`.

### Shutdown

A step is one callback (`ProcessNext`; the names of the specification carry the
prefix because `ServerProcess_proof` extends `CooperativeGroup` too).
`FirstSignal`, `SecondSignal` and `RepeatedSignal` follow from `process.once`
for each signal: the second different signal exits at once, a repeated one finds
no handler. `ServerClosed` is the callback of `server.close()`, `RefreshDone`
what follows `waitForRefresh()`, `ForceExit` the timer of ten seconds,
`SettleRefresh` the `finally` block of the refresh, whose deletion of the row
may fail. `LeaseElsewhere` is another process that takes a free or expired
lease.

### CooperativeGroup

A step is a promise that settles, the continuation that observes it, a queued
factory that is invoked, or the caller's abort. `AbortController.abort()` calls
its listeners synchronously, so `AbortPools` reaches all pools in the same step.
Workers are free: they may ignore the abort, fail after it, or wrap it in an
error of their own (`wrapped`).

### ProcessLock

A step is one operation on the guard file, its database, the metadata or a
process. `Replace` gives the guard path another inode at any moment. The identity
checks (three of an acquisition, two of a verification) are steps of their own
(`Check`, with `Checks` for where each leads); release rolls back first and removes
the metadata in two steps (`ReadOwner`, `RemoveOwner`); a verification reads the
metadata, probes the lock and then looks at the identity, the metadata and the
process again, one after the other (`Check`, `ProbeOwner`, `ProbeAlive`), and
everybody else may move in between. So an owner can finish its release after its
metadata was read for the second time and still be accepted while its process
lives: `AcceptedOwnerIsUnfinished` therefore speaks of that reading, and of the
acceptance only that the owner had published and has not crashed. An operation that
fails is `AcquireFailed`, `RemoveFailed` or `ProbeRefused`. Reuse of a process id is
left out.

### RequestLimiter

Every instant the code stores is compared only with now, so the model keeps the
time left until it, and needs neither a clock nor a bound on time. `drain()` is
modelled turn by turn (`DrainStarts`, `DrainWaits`, `DrainResumes`, `DrainEnds`)
and no callback runs while it loops. `told` is a history variable: the time left
until the last instant a response asked to wait for.

### PayloadBuilds

The epoch is a digest; what it tells apart is kept, the revision and whether a
lease is active. A payload is the epoch of the snapshot it is labelled with and
the revisions at which its rows were read. Requests are `pc`, `local` (what they
keep over their awaits) and `expired` (their budget). `build` is the active build
of each stage, `transition` the queue that serialises changes of it. The worker
reads the rows that are there when it reads (`WorkerReads`), labels them with the
epoch it was given, and its message arrives later (`Message`); a superseded or
failed worker is terminated, and only then is its place free (`Terminated`).

Abstracted: two different leases are the same to the epoch here, which only
makes more cached entries hit; the ages that expire the cache and the retained
payload are nondeterministic.

### IssueReconciliation

*State.* An issue is its version: `remote` on GitHub, `row` as stored (the version
of each of the four parts that are read by different requests), `class` the
version its classification was made for. `seen` holds the versions an issue has
had since the requests under way began, and a request returns any of them. The
rest are the variables of the call (`snap`, `evidence`, `targets`, `pending`,
`reads`) and, for each issue, where its classification stands (`job`), what its
ledger holds (`attempts`) and how it was closed (`receipt`).

*Steps.* `ReadSnapshots` decides what is read and classified, `BeginReads` and
`ReadEvidence` are a round of the four requests, `Matches` the comparison that
follows, `Again` the next round. `TransportFailure`, `AbortRequest`, `Accept` and
`Reject` are the ends of a request to the LLM; each makes an attempt, which
`Record` offers to the ledger. The ledger's own rules (`ValidAttempt`,
`ValidPrefix`, `FitsReceipt`) are translated from the ledger, not from the
classifier: an attempt they refuse makes the job `invalid`. `Persist` stores what
is complete, and `CheckCurrent` is what the caller for closure dependencies
checks afterwards. The call for the page of issues forces the classification of
all of them and collects grounding failures instead of throwing (`caller`).

*Abstracted.* Versions stand for timestamps and digests; prompts, answers and
diagnostics for whether a retry can correct them (`codes`). A lost lease, another
writer and a failing database are one refusal. What happens to attempts and
receipts after a crash is only that they stay.

### Installer

*State.* One variable for each durable record of the script: `intent`, `pending`,
`decided` (the directory renamed to `.finalized-*`), `done` (the completion
registry), `current`, `dirs`, `db`, `snap`, `auth`. A database is what a
transaction promoted for a release; `live` is the set of records that name the
inode that is installed now, and every rename over the database empties it.
`svc` is the systemd unit, `lock` the deployment lock, `armed` the watchdogs that
sleep until a deadline.

*Steps.* A command is the list of stages it still has to run (`job[p].todo`); a
stage is one durable write of the script with the checks before it. While commands
exclude each other by the lock a stage is fine enough, and a kill or a reboot
may come between any two. A stage that goes on to a recovery, a rollback or a
commit puts the stages of that at the head of its list. `Restart` gives the lock
up, the start of the unit runs `reconcile --boot` first (`StartBoot`), `Relock`
takes the lock back, and the `reload_*` stages read again what may have changed.
`ActivationExit` is the exit trap of an activation, `Interrupt` a signal or any
check of the activation that fails, at any moment, `LockTimeout` the time limit of
`flock`.

*Without the lock.* A signal that arrives between `Restart` and `Relock`, or the
time limit there, sends an activation to its exit trap without the lock, and the
trap rolls back all the same. The model takes these steps like any other
(`installer_lock` shows one of them, section 6). The variable `strayed` records
that it has happened. From then on the stages are too coarse: the script checks
and writes with other commands in between, for instance
`write_finalization_record` looks for a record and renames its own much later
(6158-6227), and `restore_previous_release` reads `current` once, at its start. A
property of such states would say more than the code gives, so the safety
properties other than `LockGuards` hold *until* `strayed`, and so do the theorems.
That is needed already at the grain of the model: with two shells, an
authorization can verify a deployment between the checks of a rollback without the
lock (`BeginRollback`) and its first change (`StopCandidate`), and a verified
deployment is then rolled back, which `DecisionMatchesState` without its first
disjunct excludes.

*Abstracted.* The checks of archives, manifests and digests are `Interrupt`. The
watchdog's last look at its own completion receipt is left out.

### Promotion

*State.* Three inodes may be at the destination: the old database, the staged one
and the restored one. `file` is what each main file holds, `wal` the log that
lies beside the path, `conn` the connection of each other process, `cut` what only
a log holds that was unlinked while in use. `durable` is the inode the path names
after a loss of power.

*Steps.* `Open`, `Commit`, `Close` and `Crash` of other processes come between any
two steps of the script. A commit goes to the log; the last connection of a file
folds the log into it. Each inspection (`lsof`, sidecars), comparison, rename and
flush of the script is a step; a snapshot, which SQLite takes in one read
transaction, is one. A check that fails for a reason the model does not look at
(the source changes, `doctor`, metadata, GitHub, the lease or a lock is lost) is
`Refuse`, `FailAfterSwap` or `FailRollback`, which may come at any step. When
`rename()` reports an error (`SwapFails`), the script looks at the inode of the
destination; the look may fail too, and then it counts as not renamed whatever is
installed. A backup prepared by someone else passes the comparison the script's own
backup passes, so both are `PrepareBackup`.

*What is not promised.* The repository's `README.md` makes the operator
responsible for stopping writers, and the script only detects them. `torn` and
`verified` mark the two windows that detection leaves: a commit of a process
that opens the file after the last comparison and is gone before the holders are
looked for, and a log that is unlinked between a checkpoint and the next look.
`SuccessLeavesNoOldWriter` likewise speaks of connections to the old file.

## 3. Runs

| Run | Question | Bounds, and why they are enough |
|---|---|---|
| `refresh_pair` | Two refreshes compete, crash, are cancelled, lose the lease and outlive it. Is every step a step of `PublicationAuthority`? Are chains sealed, is no attempt left open behind a successor, does a dead holder block one TTL, does the tip stay the newest success, does a cancelled run never publish? | two actors are what a lease is about; TTL 1 and three instants let a lease expire and be taken over; two old publications are the least in which a recovery passes over one and prefers another; one stage, one evidence write; readings one instant old. All of it is proved for all bounds |
| `refresh_settles` | Does a run that has the lease end, whatever is refused? | two concurrent stages (one fails, one is a sibling), a manual command as the competitor |
| `shutdown_safe` | Is the handle closed after its last user, does a clean exit leave nothing behind, does the shutdown end? | two connections; the rest is finite |
| `group_safe` | Nothing outlives the group, its report is true, no start after the verdict, the group ends | a pool with more items than workers beside a pool with one item |
| `builds_requests` | Answers, also out of caches, hold what their epoch says and are current, builds are cancelled only for newer ones, every request ends | a public request and a release request, which share the release builds; two revisions; a lease that comes and goes without bound. The first two are proved for all bounds |
| `limiter_calls` | Flights counted, cooldowns bounded, waits honoured, every call ends | two callers and two places, one place while a limit is fresh, so that callers queue; delays of 0 and 2 overlap; one retry. The safety half is proved for all bounds |
| `lock_safe` | A verified holder excludes, metadata does not mislead, an accepted owner had not finished its release when its metadata was read again | two acquisitions, two verifications of one of them, one replacement of the file. All of it is proved for all bounds |
| `issue_reconciliation` | Does the ledger accept every attempt of the classifier, is what is stored of one version and nothing lost that was accepted, does success mean current, does the call end? | two issues, so that one fails beside one that is accepted, both classified at once; one edit, which may fall between any two reads; two rounds of reads and two attempts, the least with a retry and an end of the budget. The safety half is proved for all bounds |
| `installer_deploys` | Does the release that runs fit the database, do verdicts fit what is installed and stay, is nothing deleted that is needed, does nothing but a strayed activation work without the lock? Does every deployment end, and is a verified one committed? | one deployment, as the first on the machine or over another; one shell with every command of the workflow, beside a watchdog, the timer and the boot reconciler, which are the ones it races in each window; one fault, which is enough to interrupt any recovery once it began, and a signal at any moment. The safety half is proved for all bounds, up to `strayed`; it was also checked with two shells (1.4 million states, not part of the suite) |
| `installer_lock` | *violation*, see section 6 | as above |
| `installer_rollback` | *violation*, see section 6 | as above |
| `promotion_safe` | Does what was compared survive, does success mean that the ledgers are there and nobody writes to the old file, is the report true? | two writers, so that one may keep a log alive that the other leaves; one commit each of the three kinds the script treats differently: ledger rows, merged tables, the rest. All of it is proved for all bounds |

Deadlock is checked in every run but those of `Installer`: each model has an
explicit step for its intended end (`Finished`, `Done`, `Exited`), so anything
else that stops is an error. A machine with nothing to deploy may rest. Each
property of a passing run has a mutant of a mapped definition that breaks it; the
mutants stand directly above the definitions they change. `TypeOK` of each module
states what its variables hold. It is proved where section 5 says so, and holds
in the instances of the table; the runs do not list it.

## 4. Fairness

- `RefreshLedger!FairSpec`: an actor that has started goes on. Database calls
  return within `busy_timeout`, every request has a time limit, and promises that
  have settled are continued. Nothing is asked of `Acquire`, the heartbeat,
  cancellations, crashes or the clock.
- `Shutdown!ProcessFairSpec`: `close()` calls back when no connection is left, resolved
  promises continue, timers fire. The refresh may hang and clients may stay.
- `CooperativeGroup!FairSpec`: running workers settle (all their requests have
  time limits) and due callbacks run. The caller's abort is not fair.
- `RequestLimiter!FairSpec`: time passes, due callbacks run, each request is
  ended by `fetchWithTimeout` and `readBoundedResponseBody`. Aborts are not fair.
- `PayloadBuilds!FairSpec`: the event loop runs what is due (weak fairness of the
  steps of requests and of the transition queue together), the budget of a
  request ends, a terminated worker thread ends. Nothing is asked of what a
  worker does, nor of the source.
- `IssueReconciliation!FairSpec`: the call goes on while it can (weak fairness of its
  steps together): requests and answers of the LLM have time limits, delays end.
  Nothing is asked of edits or the cancellation.
- `Installer!FairSpec`: a process that runs goes on (`Work`), systemd starts the
  unit and restarts it, deadlines pass. Strong fairness only where a process waits for the lock while others take it again and again:
  the timer's next run and its wait after a restart (`StartTimer`, `Relock(Tick)`)
  and the boot reconciler (`StartBoot`): the holders are few and short, and `flock`
  queues its waiters. Nothing is asked of the workflow (it need not come
  back to commit, and its wait for the lock may time out), nor of the watchdog (it
  may be lost in a reboot): the timer has to do.
- `Promotion` promises nothing about progress.

## 5. Proofs

TLAPS checks the theorems about nine modules, in eight proof modules, from the
named assumptions of the modules only. `PowersAssumption` (twenty powers of two
are naturals) is arithmetic the provers do not know; TLC evaluates it.

*RefreshLedger*, for any numbers of runs, commands, stages and old attempts and
any TTL, lag and bounds:

- `TypeCorrect`: the type invariant, action by action.
- `ReceiptsSealChains`: `SealedByReceipt`. It is not inductive. A publication
  looks at its chain when it seals its transaction (`SealTxn`) and appends when it
  commits; that nothing changes in between needs `LockInv` (the write lock is
  held by exactly the actor inside a transaction) and `SealInv` (a sealed
  publication still has no receipt, and `score.persist` is its only open stage).
  `ReceiptInv` is their conjunction with the types and the goal. Lemmas
  group the steps by what they do to the chain: quiet, sealing, appending.
- `ReceiptsAreFinal`: `TerminalIsFinal`, from the same invariant.
- `LedgerInvariant`: `LedgerInv`, the invariant of the other five. `FlowInv` says
  who is where: an attempt begins in the one step that takes its run from
  `acquired` to work, a publication is only under way while the signal is clear,
  and the write transaction belongs to the holder of the lease. `LeaseInv` bounds
  the row and the renewal inside the transaction by now plus one TTL. The lemmas
  before it (`StepKinds`, `Moves`, `OwnerMoves`, `TxnMoves`, `AttemptMoves`, ...)
  say once what any step may do to a part of the state, so that each invariant
  looks only at the steps that concern it.
- `DeadHoldersBlockShortly`, `SuccessorsCloseAttempts`, `NewestSuccessIsCurrent`,
  `CancelledRunsDoNotPublish`: the rest of the safety properties of
  `refresh_pair`. A recovery searches only before the publication it displaces;
  that it still finds the newest success (`RecoveryFindsNewest`) is because
  `PublishedTip` held before.
- `RefinesAuthority`: the refinement. `Begin` is `Open`, `CommitPublication` is
  `Publish`, `Terminate` is `Fail`, `CommitWrite` is `Write`, `Acquire` and
  `Release` are `Grant` and `Drop`, and all other steps stutter.

*RequestLimiter*, for any finite set of callers, concurrency, spacing, cooldowns,
delays and retries:

- `LimiterInvariant`: `IInv`, which adds to the checked invariants that queued
  requests are queued once and not aborted (`QueueSound`), that a sleeper has a
  retry left (`SleepersMayRetry`), and that a requested wait is part of the
  cooldown (`ToldIsBlocked`).
- `LimiterTypeCorrect`, `LimiterCounts`, `CooldownsAreBounded`, `WaitsAreHonoured`:
  each safety property, and two that no run checks: `NoLostWakeup` (a queued
  request has somebody who will drain the queue, the reason why calls end) and
  `AbortsAreHonoured`.

*Shutdown* (in `ServerProcess_proof`), for any number of connections:

- `ShutdownInvariant`: `ProcessInv`, the types, both checked invariants, and
  `Order`: a guard is registered exactly while the refresh runs, a row without a
  refresh is one that could not be deleted, a closed server has no connections and
  a handle is closed only in an exit.
- `DatabaseClosesLast`, `CleanExits`, and two properties no run checks:
  `LeaseIsKept` (the lease is not given away under a refresh that still runs) and
  `SignalsEndRefreshes` (none starts after a signal).

*CooperativeGroup* (in `ServerProcess_proof`), for any finite set of pools, items
and limits:

- `GroupInvariant`: tasks are taken in order and what an ended pool took has
  settled (`Flow`), where errors come from (`Errors`), what the end of the group
  implies (`Ended`), and that the hand-kept counters equal the numbers of tasks in
  each state (`CountsAgree`), over the cardinalities of sets.
- `GroupOutlivesTasks`, `GroupReportsTruly`, `VerdictStopsThePools`.

*ProcessLock*, for any contenders, probers and replacements:

- `LockInvariant`: a contender between `BEGIN IMMEDIATE` and its release holds the
  inode it opened (`LockingHolds`), which is no older than the one it first saw
  and no newer than the path (`InodesInOrder`); metadata names a contender only
  after its publication (`OwnerHasPublished`), a verification that has confirmed an
  owner was right that it published (`ConfirmedHasPublished`), and on the first
  guard file contenders write it in turn (`MetadataInTurn`).
- `VerifiedHolders`, `MetadataIsHonest`, `AcceptedOwners`: each property of
  `lock_safe`.

*PayloadBuilds*, for any set of requests and any number of revisions:

- `BuildsInvariant`: `IInv`. A worker labels its payload with the epoch it was
  given, whatever it reads, so the invariant bounds the rows of a payload between
  its label and the present (`Made`) all the way from the build over its waiters
  to the caches; revisions only grow, hence a label that is current at the end was
  so in between (`CurrentPayload`). A waiter's build is of the waiter's own epoch
  (`LinkOK`), and a queue holds each request once, in the order of the revisions
  they saw (`QueueOK`).
- `AnswersHoldCurrentRows`, `NewerBuildsSurvive`: the two action properties of
  `builds_requests`, each shown of every step; and `BuildsTypeCorrect`.
- `NoneAssumption` (here and in `IssueReconciliation`): the value for "nothing" is
  none of the other values.

*IssueReconciliation*, for any issues, edits, attempts, rounds of reads and
concurrency:

- `Invariance`: `IInv`. What the ledger accepts depends on the whole chain, so
  `Chains` says what the attempts of a job are in each of its states, above all
  that an attempt is only made after none or after a retry; lemma `AppendValid` shows that
  such a chain, continued as the retry loop continues it (`Continues`), is one
  the ledger accepts, and `ReceiptFits` that the receipt of each end fits. `Work`
  ties jobs to receipts and to the call, `Progress` says that an issue that is
  neither to be read nor has evidence of one version was current all along,
  `Rows` and `Kept` what the file holds before and after the transaction.
  `OneMoves` serves every step of a job: one classification moves, nothing else.
- `TypeCorrect`, `LedgerAccepts`, `WorkIsKept`, `SuccessIsCurrent`: the types and
  the three safety properties of `issue_reconciliation`.

*Promotion*, for any writers and commits of any kind:

- `PromotionInvariant`: `IInv`. `BeforeInv` follows the commits until the swap:
  every one that succeeded is in the old file, in the log at the path, in an
  unlinked log, or lost with one, and up to the checkpoint no log was unlinked.
  `LogsSound` says that a log that was unlinked has a process; so when none is
  (`AllLinked`), the comparison before the swap covers everything but what is
  lost. `PriorKept` moves the commits of the first inspection from what is at
  the path to the old file, `CopiesInv` from the final snapshot to the backup,
  which is flushed before the path or its directory entry can change, and
  `Installed` ties the stages to the inodes. `PromotionSteps` sorts the steps of
  the script into those that look, those that unlink and the few that write.
- `VerifiedCommitsAreKept`, `SuccessCarries`, `SuccessIsAlone`, `ReportsAreTrue`:
  the four properties of `promotion_safe`; and `PromotionTypes`. The
  old file keeps what was compared with it and what the backup holds (`OldKept`), so
  a report of an unchanged destination loses nothing when the old file is at the
  path. It says nothing of a swap that could not be told (section 6).
- `PromotionAssumption` says of the values only that the ledgers and the merged
  tables are different commits and that "nothing" is no connection and no set.

*Installer*, for any transactions, releases, shells, watchdogs and faults, in
every state until an activation goes to its exit trap without the lock (`strayed`,
section 2). No assumption excludes that step; lemma `Straying` says that `strayed`
stays, and so each proof of a step may assume that it has not happened yet.

- `InstallerInvariant`: `Inv`, which is `strayed \/ Ordered`, the latter in four
  parts. None of the checked properties is inductive, because what a stage may do
  follows from the stages before it, and those may have run before the lock was
  given away and taken back.
  - `FlowInv` says which lists of stages a command can have before it (`Chain`,
    `Suits`): each stage may be followed by the next (`Follows`), an activation
    that has its intent before it does nothing but activate, no decision follows a
    seal. `LockInv` adds that whoever has a stage to run holds the lock, but
    between `Restart` and `Relock`, `BootInv` that the boot reconciler only works
    while a start waits for it. This part is proved first, and by itself: from
    then on a step is either the holder's or leaves the disk alone, which is
    already `LockGuards`.
  - `Data` relates the records, the files and the service (`RecordsInv`,
    `FilesInv`) and contains the checked invariants. That a release which a
    transaction created is never its own previous release makes the cleanups
    harmless; that a pending deployment over a rolled-back one that is still to be
    completed has the same previous release keeps the completion from removing it;
    that a binding names the database of its own transaction makes an accepted
    report mean what `Approve` takes it for.
  - `ReachedInv` says what the stages behind the holder of the lock have
    established, for instance that the service is down from `snapshot` to
    `activated`, that a deployment is still open until it is activated, and that a
    rollback past `restore` has another database installed.
  - `RecordedInv` is for the stages that come after a window without the lock: who
    is to seal a deployment and has no decision left before that (`Due`) finds its
    outcome on disk, in whichever place the others have moved the record to.
  Lemmas sort the steps by what they do: to the list (`Went`, `Quit`, `Deferred`,
  `Decided`), to the lock (`NextSteps`), to the data (`Edits`, `Seals`,
  `Installs`, ...); then one lemma for each stage (`UnpackReached`, ...).
- `OldCodeStaysOff`, `DecisionsMatch`, `NeededFilesStay`: the invariants of
  `installer_deploys`.
- `DatabaseReplacedAtRest`, `VerdictsAreFinal`: its action properties; and
  `LockGuardsTheDisk`, that every step up to `strayed` is one of `UnderLock`. What
  `LockGuards` says of the steps after that is only model-checked. `RecordStep`
  lists the five ways in which one step changes the records of deployments; none
  of them takes a verdict back (`VerdictsStay`).
- `InstallerAssumption` and `NoneAssumption` say that the sets of values are
  disjoint and that "nothing" is none of them.

With that every invariant and every action property of the passing runs is proved,
but for `LockGuards` after `strayed`. Only model-checked besides: liveness, which
with ENABLED is out of the prover's reach.

## 6. Where documentation and code disagree, and what else was noticed

- `installer_rollback` is a run. The repository's `README.md:942` promises that
  commit and rollback are crash-recoverable and remain retryable. A rollback
  writes its outcome after it has restored the database and the startup
  authorization, and then restarts the previous release, for which it gives the
  lock up. A watchdog of the same deployment that wakes now starts the rollback
  once more, without a look at the recorded outcome (script 9327-9373): it
  restores the database again, and the authorization names an inode that is
  gone. Killed at that moment, it leaves a recorded rollback. Every later command
  goes straight to the settling of it (`Settling`), needs the previous release to
  answer, and fails, because the server refuses to start; only the watchdog's
  path would have repaired the authorization, and it has been used up.
  `Stranded` names this state, and `DeploymentsEnd` holds but for it.
- `installer_lock` is a run. The repository's `README.md:955` says that all
  installer actions serialize on the deployment lock by default. An activation
  that is interrupted after it gave the lock up to restart the service, or that
  times out when it takes the lock again, runs its exit trap without it (script
  1030-1057, 7990-8078). Of what the trap does, recoveries and the seal ask for
  the lock (6354, 6648, `finalize_pending_state`), but `restore_previous_release`
  does not: the database, the `current` link and the authorization are restored
  while another command may work. `DocActionsSerialize` is violated by the first
  such step; `LockGuards` says that there is no other exception.
- "Promotion swap failed; the original destination remains unchanged" is what
  `promote-quality-db.mjs:1548` reports when `rename()` failed and the destination
  does not show the new inode. `fileMatchesIdentity` (6561-6568) takes every error of
  its look for a "no", so after a rename that took effect and a look that failed the
  message is false, the new database stays installed and no rollback runs. In the
  model that is a state with `result = "unchanged"` and `path = "new"`, which
  `SwapFails` reaches; `ReportIsTrue` therefore promises something of
  that report only when the old file is still at the path, which is the case the
  repository tests (`promoteQualityDb.test.ts:4148`). It takes two failures of the
  file system in a row.
- Two deployments can be on disk at once, one finalized and one pending, and then
  what was decided about the finalized one need not fit what is installed. An
  activation recovers the finalized state before it recovers intents (8219-8220).
  When the intent is one that a killed activation left, the recovery restarts the
  service outside the lock; in that window another activation may run, roll back,
  write its finalized marker and be killed. The first one does not look for a
  marker again and installs its release beside it. If that goes through, the
  recovery of the marker finds a current target that does not fit its outcome and
  refuses (6485-6523), although `README.md:942` has such kills remain retryable.
  TLC finds such a behaviour of 62 states with two deployments, two shells and two
  faults.
  `DecisionMatchesState` therefore speaks of the latest deployment (`Latest`), and
  the proof needs to know that the two have the same previous release.
- The call for closure targets (`refresh.ts:6318`) does not look at the
  classifications again, as the call for closure dependencies does
  (`refresh.ts:6619`). Without that look an issue that is edited between its first
  snapshot and its evidence ends with new evidence next to an old classification,
  until a later refresh notices: the counterexample of the mutant `CheckNothing`.
  No document promises otherwise for targets.
- `README.md:953` has the boot reconciler roll back an unverified transaction; the
  script keeps one that is activated and within its deadline (9199-9205).
- `docs/scoring-model.md:391` describes a score transaction that completes before
  the forecasts are captured. The code has one transaction (`refresh.ts:4262`),
  and a failed forecast takes the score back with it.
- `docs/scoring-model.md:365` says a signal releases a live holder before the server
  closes. The code closes the server first (`src/index.ts:75`) and leaves the
  lease to the refresh's `finally` block.
- The comment on `started` (`cooperativeCancellation.ts:134`) speaks of workers that
  were invoked. A queued factory that is aborted before its turn is counted too
  (line 192).

## 7. Not modelled

Scoring, evidence, closure proofs, artifacts, audit contracts: pure computation
over rows and text, without control that several actors share. The doctor, the
test infrastructure and the page keep no state of the product. Digests and hash
chains appear as what they distinguish. Clock skew between processes does not
arise (one host); a clock that is set back is not modelled. Of the classifier, the
prompts, the checks of an answer and the ordinary classification of a page
(`refresh.ts:5850`) are left out. Of the installer, the `status` command is: under
the lock it repeats the recovery of a completed deployment and of a recorded
verification, which every command modelled here does as well, and reports. A
recovery that finds evidence without its seal refuses every refresh until somebody
repairs the file (`db.ts:26911`): the code means to, `BeginRefused` allows it, and
no property says that a refresh succeeds in the end. The crawls of the issue
catalog and the seals of score history are planned.

## 8. Plan

1. Done: all modules of section 2 and the proofs of section 5.
2. `SnapshotStaging` (`db.ts:24717`): staged crawls consumed once by a fenced
   write; on top of `RefreshLedger`'s lease.
3. `ScoreHistory`: the history and authority seals that `BeginRefused` leaves
   open, as a refinement of `history` and `tip`.
4. The score-read builds of the API (several active builds at once), and the
   decision table of `recommendationDecision.ts` against a reference.
5. The rollback without the lock (`strayed`): its stages split into their checks and
   their writes, then the properties that survive it, checked and proved.
