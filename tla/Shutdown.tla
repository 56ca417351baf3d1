------------------------------- MODULE Shutdown -------------------------------
(***************************************************************************)
(* The life of one server process, from src/index.ts: the refresh timer,   *)
(* the refresh it starts, the HTTP server, and createGracefulShutdown,     *)
(* which a signal starts.  JavaScript runs one callback at a time, so a    *)
(* step is one callback; the callbacks of the shutdown, of the refresh, of *)
(* the connections and of the timers come in any order.  The refresh       *)
(* itself is RefreshLedger's; here it runs, fails or hangs, and ends in    *)
(* its finally block.                                                      *)
(***************************************************************************)
EXTENDS Naturals

CONSTANT MaxConnections   \* bound: HTTP connections open at a time

ASSUME ConnectionsAssumption == MaxConnections \in Nat

Signals == {"SIGINT", "SIGTERM"}

VARIABLES
  timer,        \* refreshTimer: set or cleared
  refreshing,   \* activeRefresh: no, running or cancelled (signal aborted)
  lease,        \* the refresh_leases row: free, ours or theirs
  registry,     \* refreshLeaseRegistry holds the guard of the refresh
  releaseFailed, \* the finally block could not delete the row
  server,       \* listening, closing or closed
  connections,  \* open HTTP connections
  handlers,     \* signals whose process.once handler is still installed
  shuttingDown,
  force,        \* forceExitHandle: none, scheduled or cancelled
  callback,     \* closeServer's callback: none, waiting or settled
  code,         \* the exit code it carries to finish()
  database,     \* open or closed
  exit          \* running, clean, error, or killed by the signal's default

refreshVars == <<refreshing, lease, registry, releaseFailed>>
serverVars == <<server, connections>>
shutdownVars == <<timer, handlers, shuttingDown, force, callback, code>>
processVars == <<refreshVars, serverVars, shutdownVars, database, exit>>

Running == exit = "running"

(* Once the server is up; a refresh on startup is then under way already.  *)
ProcessInit ==
  /\ timer \in {"set", "cleared"}
  /\ \/ refreshing = "no" /\ lease \in {"free", "theirs"} /\ registry = FALSE
     \/ refreshing = "running" /\ lease = "ours" /\ registry = TRUE
  /\ releaseFailed = FALSE
  /\ server = "listening"
  /\ connections = 0
  /\ handlers = Signals
  /\ shuttingDown = FALSE
  /\ force = "none"
  /\ callback = "none"
  /\ code = "clean"
  /\ database = "open"
  /\ exit = "running"

-----------------------------------------------------------------------------
(* The refresh: refresh() runs up to its first await in one step, so the   *)
(* lease is taken and the guard registered in the step that starts it.     *)

StartRefresh ==
  /\ Running
  /\ timer = "set"
  /\ refreshing = "no"
  /\ lease # "theirs"
  /\ refreshing' = "running"
  /\ lease' = "ours"
  /\ registry' = TRUE
  /\ releaseFailed' = FALSE
  /\ UNCHANGED <<serverVars, shutdownVars, database, exit>>

(* Its attempt is refused after the lease was taken: the finally block     *)
(* runs at once, and may fail to delete the row.                           *)
RefuseRefresh ==
  /\ Running
  /\ timer = "set"
  /\ refreshing = "no"
  /\ lease # "theirs"
  /\ \E failed \in BOOLEAN :
       /\ lease' = IF failed THEN "ours" ELSE "free"
       /\ releaseFailed' = failed
  /\ UNCHANGED <<refreshing, registry, serverVars, shutdownVars, database, exit>>

(* Another process takes, or gives back, a lease that is free or expired. *)
LeaseElsewhere ==
  /\ Running
  /\ \/ lease # "theirs" /\ lease' = "theirs"
     \/ lease = "theirs" /\ lease' = "free"
  /\ UNCHANGED <<refreshing, registry, releaseFailed, serverVars, shutdownVars,
                 database, exit>>

(* Mutant: a cancelled refresh leaves its release to the shutdown. *)
ReleaseUncancelled(failed) ==
  lease' = IF lease = "ours" /\ ~failed /\ refreshing # "cancelled"
           THEN "free" ELSE lease

(* guard.release(): at most one attempt, and only on the holder's own row. *)
ReleaseOwn(failed) ==
  lease' = IF lease = "ours" /\ ~failed THEN "free" ELSE lease

(* Success, an error or the abort ends the refresh: its finally block.     *)
SettleRefresh ==
  /\ Running
  /\ refreshing # "no"
  /\ \E failed \in BOOLEAN :
       /\ ReleaseOwn(failed)
       /\ releaseFailed' = failed
  /\ refreshing' = "no"
  /\ registry' = FALSE
  /\ UNCHANGED <<serverVars, shutdownVars, database, exit>>

-----------------------------------------------------------------------------
(* The HTTP server: close() refuses new connections and calls back when    *)
(* the open ones have ended.                                               *)

Connect ==
  /\ Running
  /\ server = "listening"
  /\ connections < MaxConnections
  /\ connections' = connections + 1
  /\ UNCHANGED <<refreshVars, server, shutdownVars, database, exit>>

Disconnect ==
  /\ Running
  /\ connections > 0
  /\ connections' = connections - 1
  /\ UNCHANGED <<refreshVars, server, shutdownVars, database, exit>>

-----------------------------------------------------------------------------
(* The shutdown *)

Terminate(outcome) == exit' = outcome

ClearRefreshTimer == timer' = "cleared"

FirstSignal(s) ==
  /\ Running
  /\ s \in handlers
  /\ ~shuttingDown
  /\ handlers' = handlers \ {s}
  /\ shuttingDown' = TRUE
  /\ ClearRefreshTimer
  /\ refreshing' = IF refreshing = "running" THEN "cancelled" ELSE refreshing
  /\ force' = "scheduled"
  /\ server' = "closing"
  /\ UNCHANGED <<lease, registry, releaseFailed, connections, callback, code,
                 database, exit>>

(* The other signal while the first is being handled: exit at once. *)
SecondSignal(s) ==
  /\ Running
  /\ s \in handlers
  /\ shuttingDown
  /\ handlers' = handlers \ {s}
  /\ Terminate("error")
  /\ UNCHANGED <<refreshVars, serverVars, timer, shuttingDown, force, callback,
                 code, database>>

(* The same signal again: its handler is gone, and the default kills. *)
RepeatedSignal(s) ==
  /\ Running
  /\ s \notin handlers
  /\ Terminate("killed")
  /\ UNCHANGED <<refreshVars, serverVars, shutdownVars, database>>

(* Mutant: the time limit only covers the server. *)
ServerEndsLimit == force' = "cancelled"

(* An error other than ERR_SERVER_NOT_RUNNING makes the exit code 1.       *)
CloseCode == {"clean", "error"}
LimitGoesOn == force' = force

(* close() calls back. *)
ServerClosed ==
  /\ Running
  /\ server = "closing"
  /\ connections = 0
  /\ server' = "closed"
  /\ callback' = "waiting"
  /\ code' \in CloseCode
  /\ LimitGoesOn
  /\ UNCHANGED <<refreshVars, connections, timer, handlers, shuttingDown,
                 database, exit>>

(* finish(): close the database, then exit; a close error makes it 1.      *)
Finish(outcome) ==
  /\ force' = "cancelled"
  /\ \/ database' = "closed" /\ Terminate(outcome)
     \/ database' = database /\ Terminate("error")

(* Mutant: the active refresh is not waited for. *)
NotAwaited == TRUE
RefreshAwaited == refreshing = "no"

(* waitForRefresh() has resolved: release what the registry still holds,   *)
(* and finish.                                                             *)
RefreshDone ==
  /\ Running
  /\ callback = "waiting"
  /\ RefreshAwaited
  /\ callback' = "settled"
  /\ \E failed \in BOOLEAN :
       /\ IF registry THEN ReleaseOwn(failed) ELSE lease' = lease /\ ~failed
       /\ Finish(IF failed THEN "error" ELSE code)
  /\ registry' = FALSE
  /\ UNCHANGED <<refreshing, releaseFailed, serverVars, timer, handlers,
                 shuttingDown, code>>

(* Ten seconds after the first signal, whatever is still going on.         *)
ForceExit ==
  /\ Running
  /\ force = "scheduled"
  /\ Terminate("error")
  /\ UNCHANGED <<refreshVars, serverVars, shutdownVars, database>>

Exited ==
  /\ ~Running
  /\ UNCHANGED processVars

ProcessNext ==
  \/ StartRefresh \/ RefuseRefresh \/ LeaseElsewhere \/ SettleRefresh
  \/ Connect \/ Disconnect
  \/ \E s \in Signals : FirstSignal(s) \/ SecondSignal(s) \/ RepeatedSignal(s)
  \/ ServerClosed \/ RefreshDone \/ ForceExit
  \/ Exited

ProcessSpec == ProcessInit /\ [][ProcessNext]_processVars

(* Only what Node itself does is fair: close() calls back, promises that   *)
(* have resolved are continued, timers fire.  A refresh may hang, and a    *)
(* connection may stay open.                                               *)
ProcessFairSpec ==
  ProcessSpec /\ WF_processVars(ServerClosed) /\ WF_processVars(RefreshDone) /\ WF_processVars(ForceExit)

-----------------------------------------------------------------------------
(* Properties *)

ProcessTypeOK ==
  /\ timer \in {"set", "cleared"}
  /\ refreshing \in {"no", "running", "cancelled"}
  /\ lease \in {"free", "ours", "theirs"}
  /\ registry \in BOOLEAN
  /\ releaseFailed \in BOOLEAN
  /\ server \in {"listening", "closing", "closed"}
  /\ connections \in 0..MaxConnections
  /\ handlers \in SUBSET Signals
  /\ shuttingDown \in BOOLEAN
  /\ force \in {"none", "scheduled", "cancelled"}
  /\ callback \in {"none", "waiting", "settled"}
  /\ code \in {"clean", "error"}
  /\ database \in {"open", "closed"}
  /\ exit \in {"running", "clean", "error", "killed"}

(* The database handle is closed only after everything that uses it: no    *)
(* refresh is still winding down on it, no request is still being served,  *)
(* whichever of the two ends last.                                         *)
DatabaseOutlivesItsUsers ==
  database = "closed" => refreshing = "no" /\ ~registry /\ connections = 0

(* Exit code 0 leaves nothing behind: the database is closed, and no lease *)
(* row of this process is left to keep the next one waiting, unless its    *)
(* deletion was tried and refused.                                         *)
CleanExitLeavesNothing ==
  exit = "clean" =>
    /\ database = "closed"
    /\ lease = "ours" => releaseFailed

(* The shutdown does not give the lease away under a refresh that is still *)
(* unwinding: only the refresh's own finally block, or another process     *)
(* after expiry, ends its ownership.                                       *)
LeaseOutlivesRefresh ==
  [][refreshing # "no" /\ lease = "ours" /\ lease' = "free"
       => refreshing' = "no"]_processVars

(* After the first signal no refresh starts any more: what the shutdown    *)
(* waits for is the last one.                                              *)
NoRefreshAfterSignal ==
  [][shuttingDown /\ refreshing = "no" => refreshing' = "no"]_processVars

(* A shutdown ends, even if the refresh ignores its cancellation or a      *)
(* client never closes its connection.                                     *)
ShutdownEnds == shuttingDown ~> ~Running
=============================================================================
