----------------------------- MODULE ProcessLock -----------------------------
(***************************************************************************)
(* src/lib/exclusiveProcessLock.ts: processes exclude one another by a     *)
(* SQLite write transaction on a guard file at an agreed path, and leave   *)
(* owner metadata next to it.  A step is one operation on the guard file,  *)
(* its database, the metadata or a process, and processes interleave       *)
(* between any two.  The guard file may also be replaced from outside (a   *)
(* cleaner of the temporary directory), which gives the path another       *)
(* inode.  A contender makes one acquisition; a prober makes one           *)
(* assertRepositoryDatabaseWriterLockOwnedBy call.                         *)
(***************************************************************************)
EXTENDS Naturals

CONSTANTS
  Contenders,   \* acquisitions, each with its own token
  Probers,      \* verifications
  Expected,     \* Expected[q]: the contender whose ownership q verifies
  MaxInode,     \* bound: guard files there are, one after another
  None

Processes == Contenders \cup Probers

ASSUME ProcessesAssumption ==
  /\ Contenders \cap Probers = {}
  /\ Expected \in [Probers -> Contenders]
  /\ MaxInode \in Nat \ {0}
  /\ None \notin Processes

VARIABLES
  path,     \* the inode the guard path names now
  lock,     \* lock[i]: who has the write transaction of inode i, or None
  owner,    \* the contender the owner metadata names, or None (no file)
  pc,       \* where each process is
  guardId,  \* the inode its first lstat saw
  opened    \* the inode it has open

vars == <<path, lock, owner, pc, guardId, opened>>

Inodes == 1..MaxInode

Init ==
  /\ path = 1
  /\ lock = [i \in Inodes |-> None]
  /\ owner = None
  /\ pc = [p \in Processes |-> "idle"]
  /\ guardId = [p \in Processes |-> 1]
  /\ opened = [p \in Processes |-> 1]

Goto(p, l) == pc' = [pc EXCEPT ![p] = l]
Holds(p) == lock[opened[p]] = p
Lock(p) == lock' = [lock EXCEPT ![opened[p]] = p]
Unlock(p) == lock' = IF Holds(p) THEN [lock EXCEPT ![opened[p]] = None] ELSE lock

(* assertGuardFileIdentity *)
SameGuard(p) == path = guardId[p]

(* Somebody removes the guard file and somebody creates it again. *)
Replace ==
  /\ path < MaxInode
  /\ path' = path + 1
  /\ UNCHANGED <<lock, owner, pc, guardId, opened>>

-----------------------------------------------------------------------------
(* Acquisition *)

(* ensurePermanentGuardFile *)
Ensured(p) == guardId' = [guardId EXCEPT ![p] = path]

Ensure(p) ==
  /\ p \in Contenders
  /\ pc[p] = "idle"
  /\ Ensured(p)
  /\ Goto(p, "ensured")
  /\ UNCHANGED <<path, lock, owner, opened>>

Open(p) ==
  /\ pc[p] = "ensured"
  /\ opened' = [opened EXCEPT ![p] = path]
  /\ Goto(p, "opened")
  /\ UNCHANGED <<path, lock, owner, guardId>>

(* Where a successful identity check leads: the ones after the open, after *)
(* BEGIN IMMEDIATE and after the metadata; a prober's after contention.    *)
Checks == [opened |-> "checked", begun |-> "secured", published |-> "held",
           busy |-> "same"]

(* Mutant: a new identity is accepted once the file is open. *)
CheckAgain(p) ==
  /\ pc[p] \in DOMAIN Checks
  /\ guardId' = [guardId EXCEPT ![p] = path]
  /\ Goto(p, Checks[pc[p]])
  /\ UNCHANGED <<path, lock, owner, opened>>

Check(p) ==
  /\ pc[p] \in DOMAIN Checks
  /\ SameGuard(p)
  /\ Goto(p, Checks[pc[p]])
  /\ UNCHANGED <<path, lock, owner, guardId, opened>>

(* Mutant: a deferred transaction takes no lock. *)
BeginDeferred(p) == lock' = lock

(* BEGIN IMMEDIATE *)
BeginImmediate(p) == lock[opened[p]] = None /\ Lock(p)

Begin(p) ==
  /\ p \in Contenders
  /\ pc[p] = "checked"
  /\ BeginImmediate(p)
  /\ Goto(p, "begun")
  /\ UNCHANGED <<path, owner, guardId, opened>>

(* Old metadata goes first. *)
RemoveOld(p) ==
  /\ pc[p] = "secured"
  /\ owner' = None
  /\ Goto(p, "publishing")
  /\ UNCHANGED <<path, lock, guardId, opened>>

Publish(p) ==
  /\ pc[p] = "publishing"
  /\ owner' = p
  /\ Goto(p, "published")
  /\ UNCHANGED <<path, lock, guardId, opened>>

(* Any check or operation fails, contention among the reasons: roll back   *)
(* and close.                                                              *)
AcquireFailed(p) ==
  /\ p \in Contenders
  /\ pc[p] \in {"opened", "checked", "begun", "secured", "publishing", "published"}
  /\ Unlock(p)
  /\ Goto(p, "closed")
  /\ UNCHANGED <<path, owner, guardId, opened>>

-----------------------------------------------------------------------------
(* Release: roll back and close first, then remove the metadata if it is   *)
(* still one's own; reading it and removing it are two operations.         *)

Release(p) ==
  /\ p \in Contenders
  /\ pc[p] = "held"
  /\ Unlock(p)
  /\ Goto(p, "closed")
  /\ UNCHANGED <<path, owner, guardId, opened>>

ReadOwner(p) ==
  /\ pc[p] = "closed"
  /\ Goto(p, IF owner = p THEN "removing" ELSE "done")
  /\ UNCHANGED <<path, lock, owner, guardId, opened>>

RemoveOwner(p) ==
  /\ pc[p] = "removing"
  /\ owner' = None
  /\ Goto(p, "done")
  /\ UNCHANGED <<path, lock, guardId, opened>>

(* The metadata cannot be read, or not be removed: it is left behind. *)
RemoveFailed(p) ==
  /\ pc[p] = "removing" \/ (pc[p] = "closed" /\ owner = p)
  /\ Goto(p, "leftover")
  /\ UNCHANGED <<path, lock, owner, guardId, opened>>

(* The operating system drops the transaction of a dead process. *)
Crash(p) ==
  /\ pc[p] \notin {"idle", "done", "leftover", "crashed", "accepted", "refused"}
  /\ Unlock(p)
  /\ Goto(p, "crashed")
  /\ UNCHANGED <<path, owner, guardId, opened>>

-----------------------------------------------------------------------------
(* Verification that the expected contender owns the lock: the identity of *)
(* the guard file, the metadata, contention, and then the identity, the    *)
(* metadata and the life of the process, each looked at by itself.         *)

Probe(q) ==
  /\ q \in Probers
  /\ pc[q] = "idle"
  /\ Ensured(q)
  /\ Goto(q, "found")
  /\ UNCHANGED <<path, lock, owner, opened>>

(* Mutant: the metadata is not read again. *)
ConfirmsOnce(q) == pc[q] = "found" => owner = Expected[q]

(* assertExpectedOwner(readLockOwner(...)) *)
Confirms(q) == owner = Expected[q]

ProbeOwner(q) ==
  /\ pc[q] \in {"found", "same"}
  /\ Confirms(q)
  /\ Goto(q, IF pc[q] = "found" THEN "ensured" ELSE "confirmed")
  /\ UNCHANGED <<path, lock, owner, guardId, opened>>

(* The lock is free: the probe holds it for a moment, and refuses. *)
ProbeFree(q) ==
  /\ q \in Probers
  /\ pc[q] = "checked"
  /\ lock[opened[q]] = None
  /\ Lock(q)
  /\ Goto(q, "undoing")
  /\ UNCHANGED <<path, owner, guardId, opened>>

(* SQLite reports contention. *)
ProbeBusy(q) ==
  /\ q \in Probers
  /\ pc[q] = "checked"
  /\ lock[opened[q]] # None
  /\ Goto(q, "busy")
  /\ UNCHANGED <<path, lock, owner, guardId, opened>>

(* A signal reaches the process; one that has released may live on. *)
ProbeAlive(q) ==
  /\ pc[q] = "confirmed"
  /\ pc[Expected[q]] # "crashed"
  /\ Goto(q, "accepted")
  /\ UNCHANGED <<path, lock, owner, guardId, opened>>

(* Any check or operation fails, or the lock was free: roll back, close. *)
ProbeRefused(q) ==
  /\ q \in Probers
  /\ pc[q] \notin {"idle", "accepted", "refused", "crashed"}
  /\ Unlock(q)
  /\ Goto(q, "refused")
  /\ UNCHANGED <<path, owner, guardId, opened>>

Finished ==
  /\ \A p \in Processes :
       pc[p] \in {"done", "leftover", "crashed", "accepted", "refused"}
  /\ UNCHANGED vars

Acquisition(p) ==
  \/ Ensure(p) \/ Open(p) \/ Check(p) \/ Begin(p) \/ RemoveOld(p) \/ Publish(p)
  \/ AcquireFailed(p) \/ Release(p) \/ ReadOwner(p)
  \/ RemoveOwner(p) \/ RemoveFailed(p)

Verification(q) ==
  \/ Probe(q) \/ ProbeOwner(q) \/ Open(q) \/ Check(q) \/ ProbeFree(q)
  \/ ProbeBusy(q) \/ ProbeAlive(q) \/ ProbeRefused(q)

Next ==
  \/ Replace \/ Finished
  \/ \E p \in Contenders : Acquisition(p)
  \/ \E q \in Probers : Verification(q)
  \/ \E p \in Processes : Crash(p)

Spec == Init /\ [][Next]_vars

-----------------------------------------------------------------------------
(* Properties *)

TypeOK ==
  /\ path \in Inodes
  /\ lock \in [Inodes -> Processes \cup {None}]
  /\ owner \in Contenders \cup {None}
  /\ pc \in [Processes -> {"idle", "ensured", "opened", "checked", "begun",
       "secured", "publishing", "published", "held", "closed", "removing",
       "done", "leftover", "crashed", "found", "undoing", "busy", "same",
       "confirmed", "accepted", "refused"}]
  /\ guardId \in [Processes -> Inodes]
  /\ opened \in [Processes -> Inodes]

(* A holder that passes its local verification (the path still names the   *)
(* inode it first saw) does have the transaction of the guard file that    *)
(* newcomers would contend for, however the file was replaced meanwhile:   *)
(* two processes never both pass.                                          *)
VerifiedHolderExcludes ==
  \A p \in Contenders : pc[p] = "held" /\ SameGuard(p) => lock[path] = p

(* While the guard file is not replaced, the metadata next to a lock that  *)
(* is held names its holder or is missing; no late cleanup of an earlier   *)
(* or a refused acquisition puts another name there.                       *)
MetadataNeverMisleads ==
  path = 1 => \A p \in Contenders : pc[p] = "held" => owner \in {p, None}

(* Between the publication of the metadata and the end of the release. *)
Unfinished == {"published", "held", "closed", "removing", "leftover"}

(* The verification's second read of the metadata finds the expected       *)
(* contender only while the release of that contender is unfinished (it    *)
(* has got the lock, and its metadata has neither been removed by itself   *)
(* nor replaced by a successor) or cut off by a crash; and the owner that  *)
(* is then accepted had published and has not crashed.  That its release   *)
(* is still unfinished at the acceptance is not promised: the process is   *)
(* looked up after the metadata, and one that lives may have released.     *)
AcceptedOwnerIsUnfinished ==
  [][\A q \in Probers :
       /\ pc[q] = "same" /\ pc'[q] = "confirmed" =>
            pc[Expected[q]] \in Unfinished \cup {"crashed"}
       /\ pc[q] = "confirmed" /\ pc'[q] = "accepted" =>
            pc[Expected[q]] \in Unfinished \cup {"done"}]_vars
=============================================================================
