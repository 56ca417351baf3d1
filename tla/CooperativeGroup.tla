--------------------------- MODULE CooperativeGroup ---------------------------
(***************************************************************************)
(* src/lib/cooperativeCancellation.ts as refresh.ts uses it: one           *)
(* runCooperativeGroup over several task factories, each of which is a     *)
(* mapWithConcurrency pool.  A step is one callback: a promise that        *)
(* settles, the continuation that observes it, a queued factory that is    *)
(* invoked, or the caller's signal.  AbortController.abort() runs its      *)
(* listeners synchronously, so an abort of the group reaches all pools in  *)
(* the step that makes it.                                                 *)
(***************************************************************************)
EXTENDS Integers, FiniteSets

CONSTANTS
  Pools,   \* the pools of the group
  Items,   \* Items[p]: how many items pool p maps over
  Limit,   \* Limit[p]: its concurrency
  Abort,   \* the error of a cancellation
  None

Tasks == {t \in Pools \X UNION {1..Items[p] : p \in Pools} : t[2] <= Items[t[1]]}
TasksOf(p) == {t \in Tasks : t[1] = p}

ASSUME PoolsAssumption ==
  /\ IsFiniteSet(Pools)
  /\ Items \in [Pools -> Nat]
  /\ Limit \in [Pools -> Nat \ {0}]
  /\ {None, Abort} \cap Tasks = {}
  /\ None # Abort

VARIABLES
  task,      \* task[t]: queued, pending (promise made, worker not invoked),
             \* running, fulfilled, failed, wrapped, aborted, or refused
             \* (aborted before the worker was invoked)
  observed,  \* the settled tasks whose worker has resumed
  cursor,    \* cursor[p]: items the pool has taken
  primary,   \* primary[p]: None, the task whose error came first, or Abort
  pool,      \* pool[p]: pending, skipped, refused, running, returned or threw
  counts,    \* counts[p]: the diagnostics of the pool
  noticed,   \* rejected pools the group has heard of
  verdict,   \* the group's first error: None, a task, or Abort
  cancelled, \* the caller's signal
  group      \* running, returned or threw

poolVars == <<task, observed, cursor, primary, counts>>
groupVars == <<noticed, verdict, cancelled, group>>
vars == <<poolVars, pool, groupVars>>

Unsettled == {"pending", "running"}
ByWorker == {"fulfilled", "failed", "wrapped", "aborted"}
Rejected == {"failed", "wrapped", "aborted", "refused"}
Settled == Rejected \cup {"fulfilled"}
NoCounts == [started |-> 0, completed |-> 0, failed |-> 0, aborted |-> 0,
             drained |-> 0, skipped |-> 0]

HowMany(p, states) == Cardinality({t \in TasksOf(p) : task[t] \in states})
Stopped(p) == primary[p] # None

(* Every callback but the caller's own runs while the group is under way. *)
Init ==
  /\ task = [t \in Tasks |-> "queued"]
  /\ observed = {}
  /\ cursor = [p \in Pools |-> 0]
  /\ primary = [p \in Pools |-> None]
  /\ counts = [p \in Pools |-> NoCounts]
  /\ noticed = {}
  /\ cancelled \in BOOLEAN
  /\ verdict = IF cancelled THEN Abort ELSE None
  /\ pool = [p \in Pools |-> IF cancelled THEN "skipped" ELSE "pending"]
  /\ group = "running"

-----------------------------------------------------------------------------
(* A pool *)

(* Mutant: a later error replaces the first. *)
LastError(first, error) == error

(* stop(): the first error is the primary one. *)
FirstError(first, error) == IF first = None THEN error ELSE first

(* Worker loops take items from the cursor until the pool is stopped.      *)
Take(p, n) ==
  LET taken == {<<p, i>> : i \in (cursor[p] + 1)..(cursor[p] + n)}
  IN  /\ task' = [t \in Tasks |-> IF t \in taken THEN "pending" ELSE task[t]]
      /\ cursor' = [cursor EXCEPT ![p] = @ + n]
      /\ counts' = [counts EXCEPT ![p].started = @ + n]

(* The group invokes the factory of a pool, unless its signal is aborted.  *)
StartPool(p) ==
  /\ pool[p] = "pending"
  /\ verdict = None
  /\ pool' = [pool EXCEPT ![p] = "running"]
  /\ Take(p, IF Limit[p] < Items[p] THEN Limit[p] ELSE Items[p])
  /\ UNCHANGED <<observed, primary, groupVars>>

RefusePool(p) ==
  /\ pool[p] = "pending"
  /\ verdict # None
  /\ pool' = [pool EXCEPT ![p] = "refused"]
  /\ UNCHANGED <<poolVars, groupVars>>

(* Mutant: a queued factory does not look at the signal again. *)
NoSecondLook(p) == TRUE

(* throwIfAborted before the worker is called. *)
MayInvoke(p) == ~Stopped(p)

Invoke(t) ==
  /\ task[t] = "pending"
  /\ task' = [task EXCEPT ![t] = IF MayInvoke(t[1]) THEN "running" ELSE "refused"]
  /\ UNCHANGED <<observed, cursor, primary, counts, pool, groupVars>>

(* What a worker does is its own affair: it may also fulfil after an abort, *)
(* fail after it, or wrap the abort in an error of its own.                *)
Settle(t) ==
  /\ task[t] = "running"
  /\ \E s \in ByWorker :
       /\ s \in {"aborted", "wrapped"} => Stopped(t[1])
       /\ task' = [task EXCEPT ![t] = s]
  /\ UNCHANGED <<observed, cursor, primary, counts, pool, groupVars>>

(* The worker that awaits t resumes: it records an error, and takes the    *)
(* next item if the pool goes on.                                          *)
Observe(t) ==
  /\ task[t] \in Settled
  /\ t \notin observed
  /\ observed' = observed \cup {t}
  /\ primary' = IF task[t] \in Rejected
                THEN [primary EXCEPT ![t[1]] = FirstError(@, t)]
                ELSE primary
  /\ IF primary'[t[1]] = None /\ cursor[t[1]] < Items[t[1]]
     THEN Take(t[1], 1)
     ELSE UNCHANGED <<task, cursor, counts>>
  /\ UNCHANGED <<pool, groupVars>>

(* Mutants: the first rejection rejects Promise.all; a stopped pool works  *)
(* its queue off.                                                          *)
FirstRejectionEnds(p) ==
  \/ Stopped(p)
  \/ \A t \in TasksOf(p) : task[t] \in Settled /\ t \in observed
QueueWorkedOff(p) ==
  \A t \in TasksOf(p) : task[t] \in Settled /\ t \in observed

(* No worker is left and every task that was started has settled. *)
Drained(p) ==
  /\ \A t \in TasksOf(p) :
       task[t] = "queued" \/ (task[t] \in Settled /\ t \in observed)
  /\ Stopped(p) \/ cursor[p] = Items[p]

(* finalizeDiagnostics *)
FinalCounts(p) ==
  [counts[p] EXCEPT
     !.completed = HowMany(p, {"fulfilled"}),
     !.failed = HowMany(p, {"failed", "wrapped"}),
     !.aborted = HowMany(p, {"aborted", "refused"}),
     !.drained = HowMany(p, Settled),
     !.skipped = Items[p] - counts[p].started]

(* The pool returns its results, or throws its primary error; its listener *)
(* is removed.                                                             *)
EndPool(p) ==
  /\ pool[p] = "running"
  /\ Drained(p)
  /\ pool' = [pool EXCEPT ![p] = IF Stopped(p) THEN "threw" ELSE "returned"]
  /\ counts' = [counts EXCEPT ![p] = FinalCounts(p)]
  /\ UNCHANGED <<task, observed, cursor, primary, groupVars>>

-----------------------------------------------------------------------------
(* The group *)

(* An abort of the group's controller, and through it of every pool that   *)
(* still listens.                                                          *)
AbortPools ==
  primary' = [p \in Pools |-> IF pool[p] = "running"
                              THEN FirstError(primary[p], Abort)
                              ELSE primary[p]]

(* The group hears of a pool that threw. *)
Notice(p) ==
  /\ pool[p] \in {"threw", "refused"}
  /\ p \notin noticed
  /\ noticed' = noticed \cup {p}
  /\ verdict' = FirstError(verdict, IF pool[p] = "threw" THEN primary[p] ELSE Abort)
  /\ IF verdict = None THEN AbortPools ELSE primary' = primary
  /\ UNCHANGED <<task, observed, cursor, counts, pool, cancelled, group>>

(* The caller's signal: a shutdown, or the loss of the lease. *)
Cancel ==
  /\ group = "running"
  /\ ~cancelled
  /\ cancelled' = TRUE
  /\ verdict' = FirstError(verdict, Abort)
  /\ IF verdict = None THEN AbortPools ELSE primary' = primary
  /\ UNCHANGED <<task, observed, cursor, counts, pool, noticed, group>>

ThrowsPrimary == verdict # None

EndGroup ==
  /\ group = "running"
  /\ \A p \in Pools :
       pool[p] \in {"returned", "skipped"} \/ p \in noticed
  /\ group' = IF ThrowsPrimary THEN "threw" ELSE "returned"
  /\ UNCHANGED <<poolVars, pool, noticed, verdict, cancelled>>

Done ==
  /\ group # "running"
  /\ UNCHANGED vars

Continue ==
  \/ \E p \in Pools : StartPool(p) \/ RefusePool(p) \/ EndPool(p) \/ Notice(p)
  \/ \E t \in Tasks : Invoke(t) \/ Settle(t) \/ Observe(t)
  \/ EndGroup

Next == Continue \/ Cancel \/ Done

Spec == Init /\ [][Next]_vars

(* Every request a worker makes has a time limit, so running tasks settle, *)
(* and callbacks that are due are called.                                  *)
FairSpec == Spec /\ WF_vars(Continue)

-----------------------------------------------------------------------------
(* Properties *)

CountRecords ==
  [started : Nat, completed : Nat, failed : Nat, aborted : Nat,
   drained : Nat, skipped : Nat]

TypeOK ==
  /\ task \in [Tasks -> {"queued"} \cup Unsettled \cup Settled]
  /\ observed \in SUBSET Tasks
  /\ cursor \in [Pools -> Nat]
  /\ primary \in [Pools -> Tasks \cup {None, Abort}]
  /\ pool \in [Pools -> {"pending", "skipped", "refused", "running",
                         "returned", "threw"}]
  /\ counts \in [Pools -> CountRecords]
  /\ noticed \in SUBSET Pools
  /\ verdict \in Tasks \cup {None, Abort}
  /\ cancelled \in BOOLEAN
  /\ group \in {"running", "returned", "threw"}

(* When the group returns or throws, nothing it started is still running,  *)
(* in any pool: the caller may release the lease or fail the attempt and   *)
(* no late request writes behind its back.                                 *)
NothingOutlivesTheGroup ==
  group # "running" => \A t \in Tasks : task[t] \notin Unsettled

(* What the group and its pools report is what happened.  The group throws *)
(* the error that stopped it: the abort only if its caller cancelled it,   *)
(* and otherwise an error that a task raised by itself, never what an      *)
(* aborted sibling made of the abort.  A group that returns has every      *)
(* result of every pool: a cancellation between the last result and the    *)
(* return is not swallowed.  The counts of a pool that ended add up.       *)
ReportsAreTrue ==
  /\ group = "threw" =>
       \/ verdict = Abort /\ cancelled
       \/ verdict \in Tasks /\ task[verdict] = "failed"
  /\ group = "returned" =>
       ~cancelled /\ \A t \in Tasks : task[t] = "fulfilled"
  /\ \A p \in Pools : pool[p] \in {"returned", "threw"} =>
       LET c == counts[p]
       IN  /\ c.completed + c.failed + c.aborted = c.drained
           /\ c.drained = c.started
           /\ c.started + c.skipped = Items[p]

(* Once the group has an error, no factory is invoked any more, in the     *)
(* pool where it came from or in another.                                  *)
NothingStartsAfterTheVerdict ==
  [][verdict # None =>
       \A t \in Tasks : task[t] = "pending" => task'[t] # "running"]_vars

(* Every group ends, stopped or not. *)
GroupSettles == <>(group # "running")
=============================================================================
