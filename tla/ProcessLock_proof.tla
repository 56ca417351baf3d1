-------------------------- MODULE ProcessLock_proof --------------------------
(***************************************************************************)
(* Proofs about ProcessLock, for every set of contenders and probers and   *)
(* any number of guard files that replace one another.  The inductive      *)
(* invariant adds to the types what excludes: a contender between BEGIN    *)
(* IMMEDIATE and its release has the transaction of the inode it opened,   *)
(* that inode is no older than the one it first saw, and neither is newer  *)
(* than the path.                                                          *)
(***************************************************************************)
EXTENDS ProcessLock, TLAPS

Locking == {"begun", "secured", "publishing", "published", "held"}

(* Inodes are seen in the order in which they take the path. *)
InodesInOrder ==
  \A p \in Processes :
    /\ guardId[p] <= path
    /\ opened[p] <= path
    /\ pc[p] \in Locking \cup {"opened", "checked"} => guardId[p] <= opened[p]

LockingHolds == \A p \in Contenders : pc[p] \in Locking => lock[opened[p]] = p

(* The metadata names a contender only from its Publish to its removal. *)
OwnerHasPublished ==
  \A p \in Contenders :
    owner = p => pc[p] \in {"published", "held", "closed", "removing",
                            "leftover", "crashed"}

(* An owner whose metadata was confirmed had published by then. *)
ConfirmedHasPublished ==
  \A q \in Probers :
    pc[q] = "confirmed" =>
      pc[Expected[q]] \in {"published", "held", "closed", "removing",
                           "leftover", "done", "crashed"}

(* On the first guard file, the holder's turn with the metadata. *)
MetadataInTurn ==
  path = 1 =>
    \A p \in Contenders :
      /\ pc[p] = "publishing" => owner = None
      /\ pc[p] \in {"published", "held"} => owner \in {p, None}

IInv ==
  /\ TypeOK
  /\ InodesInOrder
  /\ LockingHolds
  /\ OwnerHasPublished
  /\ ConfirmedHasPublished
  /\ MetadataInTurn

LEMMA InitIInv == Init => IInv
  BY ProcessesAssumption
  DEF Init, IInv, TypeOK, InodesInOrder, LockingHolds, OwnerHasPublished,
      ConfirmedHasPublished, MetadataInTurn, Locking, Inodes, Processes

(* Types *)
LEMMA NextTypeOK ==
  ASSUME TypeOK, Next
  PROVE  TypeOK'
<1> USE DEF TypeOK, Goto, Ensured, Processes, Inodes
<1>1. CASE Replace BY <1>1, ProcessesAssumption DEF Replace
<1>2. CASE Finished BY <1>2 DEF Finished, vars
<1>3. ASSUME NEW p \in Processes, Lock(p) PROVE lock' \in [Inodes -> Processes \cup {None}]
  BY <1>3 DEF Lock
<1>4. ASSUME NEW p \in Processes, Unlock(p) PROVE lock' \in [Inodes -> Processes \cup {None}]
  BY <1>4 DEF Unlock
<1>5. ASSUME NEW p \in Contenders, Acquisition(p) PROVE TypeOK'
  <2>1. CASE Ensure(p) BY <2>1 DEF Ensure
  <2>2. CASE Open(p) BY <2>2 DEF Open
  <2>3. CASE Begin(p) BY <2>3, <1>3 DEF Begin, BeginImmediate
  <2>4. CASE RemoveOld(p) BY <2>4 DEF RemoveOld
  <2>5. CASE Publish(p) BY <2>5 DEF Publish
  <2>6. CASE Check(p) BY <2>6 DEF Check, Checks
  <2>7. CASE AcquireFailed(p) BY <2>7, <1>4 DEF AcquireFailed
  <2>8. CASE Release(p) BY <2>8, <1>4 DEF Release
  <2>9. CASE ReadOwner(p) BY <2>9 DEF ReadOwner
  <2>10. CASE RemoveOwner(p) BY <2>10 DEF RemoveOwner
  <2>11. CASE RemoveFailed(p) BY <2>11 DEF RemoveFailed
  <2>12. QED BY <1>5, <2>1, <2>2, <2>3, <2>4, <2>5, <2>6, <2>7, <2>8, <2>9,
                <2>10, <2>11 DEF Acquisition
<1>6. ASSUME NEW q \in Probers, Verification(q) PROVE TypeOK'
  <2>1. CASE Probe(q) BY <2>1 DEF Probe
  <2>2. CASE Open(q) BY <2>2 DEF Open
  <2>3. CASE ProbeFree(q) BY <2>3, <1>3 DEF ProbeFree
  <2>4. CASE ProbeBusy(q) BY <2>4 DEF ProbeBusy
  <2>5. CASE ProbeRefused(q) BY <2>5, <1>4 DEF ProbeRefused
  <2>6. CASE ProbeAlive(q) BY <2>6 DEF ProbeAlive
  <2>7. CASE ProbeOwner(q) BY <2>7 DEF ProbeOwner
  <2>8. CASE Check(q) BY <2>8 DEF Check, Checks
  <2>9. QED BY <1>6, <2>1, <2>2, <2>3, <2>4, <2>5, <2>6, <2>7, <2>8 DEF Verification
<1>7. ASSUME NEW p \in Processes, Crash(p) PROVE TypeOK'
  BY <1>7, <1>4 DEF Crash
<1>8. QED BY <1>1, <1>2, <1>5, <1>6, <1>7 DEF Next

(* Order of the inodes *)
LEMMA NextInodesInOrder ==
  ASSUME TypeOK, InodesInOrder, Next
  PROVE  InodesInOrder'
<1> USE DEF TypeOK, InodesInOrder, Locking, Goto, Ensured, Processes, Inodes
<1>1. CASE Replace BY <1>1, ProcessesAssumption DEF Replace
<1>2. CASE Finished BY <1>2 DEF Finished, vars
<1>3. ASSUME NEW p \in Contenders, Acquisition(p) PROVE InodesInOrder'
  BY <1>3 DEF Acquisition, Ensure, Open, Check, Checks, Begin, RemoveOld, Publish,
              AcquireFailed, Release, ReadOwner, RemoveOwner, RemoveFailed
<1>4. ASSUME NEW q \in Probers, Verification(q) PROVE InodesInOrder'
  BY <1>4 DEF Verification, Probe, ProbeOwner, Open, Check, Checks,
              ProbeFree, ProbeBusy, ProbeAlive, ProbeRefused
<1>5. ASSUME NEW p \in Processes, Crash(p) PROVE InodesInOrder'
  BY <1>5 DEF Crash
<1>6. QED BY <1>1, <1>2, <1>3, <1>4, <1>5 DEF Next

(* A process that takes a lock that was free, or gives back what it holds, *)
(* leaves the others theirs.                                               *)
LEMMA OthersKeepTheirLocks ==
  ASSUME TypeOK, NEW p \in Processes, NEW r \in Contenders, r # p,
         Holds(r), Unlock(p) \/ (lock[opened[p]] = None /\ Lock(p))
  PROVE  lock'[opened[r]] = r
  BY ProcessesAssumption DEF TypeOK, Holds, Unlock, Lock, Processes

LEMMA NextLockingHolds ==
  ASSUME TypeOK, LockingHolds, Next
  PROVE  LockingHolds'
<1> USE DEF TypeOK, LockingHolds, Locking, Goto, Processes
<1>1. CASE Replace BY <1>1 DEF Replace
<1>2. CASE Finished BY <1>2 DEF Finished, vars
<1>3. ASSUME NEW p \in Processes, opened' = opened,
             \A r \in Processes : r # p => pc'[r] = pc[r],
             p \in Contenders /\ pc'[p] \in Locking => lock'[opened[p]] = p,
             Unlock(p) \/ (lock[opened[p]] = None /\ Lock(p))
      PROVE  LockingHolds'
  <2> SUFFICES ASSUME NEW r \in Contenders, pc'[r] \in Locking
               PROVE  lock'[opened[r]] = r
    BY <1>3
  <2>1. CASE r = p BY <1>3, <2>1
  <2>2. CASE r # p
    <3>1. pc[r] \in Locking BY <1>3, <2>2
    <3>2. Holds(r) BY <3>1 DEF Holds
    <3>3. QED BY <1>3, <2>2, <3>2, OthersKeepTheirLocks
  <2>3. QED BY <2>1, <2>2
<1>4. ASSUME NEW p \in Contenders, Acquisition(p) PROVE LockingHolds'
  <2>1. CASE Ensure(p) BY <2>1 DEF Ensure
  <2>2. CASE Open(p) BY <2>2 DEF Open
  <2>3. CASE Begin(p)
    <3>1. lock'[opened[p]] = p BY <2>3 DEF Begin, BeginImmediate, Lock
    <3>2. QED BY <1>3, <2>3, <3>1 DEF Begin, BeginImmediate
  <2>4. CASE RemoveOld(p) BY <2>4 DEF RemoveOld
  <2>5. CASE Publish(p) BY <2>5 DEF Publish
  <2>6. CASE Check(p) BY <2>6 DEF Check, Checks
  <2>7. CASE AcquireFailed(p) BY <1>3, <2>7 DEF AcquireFailed
  <2>8. CASE Release(p) BY <1>3, <2>8 DEF Release
  <2>9. CASE ReadOwner(p) BY <2>9 DEF ReadOwner
  <2>10. CASE RemoveOwner(p) BY <2>10 DEF RemoveOwner
  <2>11. CASE RemoveFailed(p) BY <2>11 DEF RemoveFailed
  <2>12. QED BY <1>4, <2>1, <2>2, <2>3, <2>4, <2>5, <2>6, <2>7, <2>8, <2>9,
                <2>10, <2>11 DEF Acquisition
<1>5. ASSUME NEW q \in Probers, Verification(q) PROVE LockingHolds'
  <2> q \notin Contenders BY ProcessesAssumption
  <2>1. CASE Probe(q) BY <2>1 DEF Probe
  <2>2. CASE Open(q) BY <2>2 DEF Open
  <2>3. CASE ProbeFree(q) BY <1>3, <2>3 DEF ProbeFree
  <2>4. CASE ProbeBusy(q) BY <2>4 DEF ProbeBusy
  <2>5. CASE ProbeRefused(q) BY <1>3, <2>5 DEF ProbeRefused
  <2>6. CASE ProbeAlive(q) BY <2>6 DEF ProbeAlive
  <2>7. CASE ProbeOwner(q) BY <2>7 DEF ProbeOwner
  <2>8. CASE Check(q) BY <2>8 DEF Check, Checks
  <2>9. QED BY <1>5, <2>1, <2>2, <2>3, <2>4, <2>5, <2>6, <2>7, <2>8 DEF Verification
<1>6. ASSUME NEW p \in Processes, Crash(p) PROVE LockingHolds'
  BY <1>3, <1>6 DEF Crash
<1>7. QED BY <1>1, <1>2, <1>4, <1>5, <1>6 DEF Next

(* Metadata *)
LEMMA NextOwnerHasPublished ==
  ASSUME TypeOK, OwnerHasPublished, Next
  PROVE  OwnerHasPublished'
<1> USE ProcessesAssumption DEF TypeOK, OwnerHasPublished, Goto, Processes
<1>1. CASE Replace BY <1>1 DEF Replace
<1>2. CASE Finished BY <1>2 DEF Finished, vars
<1>3. ASSUME NEW p \in Contenders, Acquisition(p) PROVE OwnerHasPublished'
  <2>1. CASE Ensure(p) BY <2>1 DEF Ensure
  <2>2. CASE Open(p) BY <2>2 DEF Open
  <2>3. CASE Begin(p) BY <2>3 DEF Begin
  <2>4. CASE RemoveOld(p) BY <2>4 DEF RemoveOld
  <2>5. CASE Publish(p) BY <2>5 DEF Publish
  <2>6. CASE Check(p) BY <2>6 DEF Check, Checks
  <2>7. CASE AcquireFailed(p) BY <2>7 DEF AcquireFailed
  <2>8. CASE Release(p) BY <2>8 DEF Release
  <2>9. CASE ReadOwner(p) BY <2>9 DEF ReadOwner
  <2>10. CASE RemoveOwner(p) BY <2>10 DEF RemoveOwner
  <2>11. CASE RemoveFailed(p) BY <2>11 DEF RemoveFailed
  <2>12. QED BY <1>3, <2>1, <2>2, <2>3, <2>4, <2>5, <2>6, <2>7, <2>8, <2>9,
                <2>10, <2>11 DEF Acquisition
<1>4. ASSUME NEW q \in Probers, Verification(q) PROVE OwnerHasPublished'
  BY <1>4 DEF Verification, Probe, ProbeOwner, Open, Check, Checks,
              ProbeFree, ProbeBusy, ProbeAlive, ProbeRefused
<1>5. ASSUME NEW p \in Processes, Crash(p) PROVE OwnerHasPublished'
  BY <1>5 DEF Crash
<1>6. QED BY <1>1, <1>2, <1>3, <1>4, <1>5 DEF Next

LEMMA NextConfirmedHasPublished ==
  ASSUME TypeOK, OwnerHasPublished, ConfirmedHasPublished, Next
  PROVE  ConfirmedHasPublished'
<1> USE ProcessesAssumption DEF TypeOK, ConfirmedHasPublished, Goto, Processes
<1>1. CASE Replace BY <1>1 DEF Replace
<1>2. CASE Finished BY <1>2 DEF Finished, vars
<1>3. ASSUME NEW p \in Contenders, Acquisition(p) PROVE ConfirmedHasPublished'
  BY <1>3 DEF Acquisition, Ensure, Open, Check, Checks, Begin, RemoveOld, Publish,
              AcquireFailed, Release, ReadOwner, RemoveOwner, RemoveFailed
<1>4. ASSUME NEW q \in Probers, Verification(q) PROVE ConfirmedHasPublished'
  <2>1. CASE ProbeOwner(q)
    BY <2>1 DEF ProbeOwner, Confirms, OwnerHasPublished
  <2>2. CASE ~ProbeOwner(q)
    BY <1>4, <2>2 DEF Verification, Probe, Open, Check, Checks, ProbeFree,
                      ProbeBusy, ProbeAlive, ProbeRefused
  <2>3. QED BY <2>1, <2>2
<1>5. ASSUME NEW p \in Processes, Crash(p) PROVE ConfirmedHasPublished'
  BY <1>5 DEF Crash
<1>6. QED BY <1>1, <1>2, <1>3, <1>4, <1>5 DEF Next

(* On one guard file there is one contender between BEGIN and release. *)
LEMMA OneLocks ==
  ASSUME TypeOK, InodesInOrder, LockingHolds, path = 1,
         NEW p \in Contenders, NEW r \in Contenders,
         pc[p] \in Locking, pc[r] \in Locking
  PROVE  p = r
<1>1. opened[p] = 1 /\ opened[r] = 1
  BY ProcessesAssumption DEF TypeOK, InodesInOrder, Inodes, Processes
<1>2. QED BY <1>1 DEF LockingHolds

LEMMA NextMetadataInTurn ==
  ASSUME TypeOK, InodesInOrder, LockingHolds, MetadataInTurn, Next
  PROVE  MetadataInTurn'
<1> USE ProcessesAssumption DEF TypeOK, MetadataInTurn, Goto, Processes, Inodes
<1>1. CASE Replace BY <1>1 DEF Replace
<1>2. CASE Finished BY <1>2 DEF Finished, vars
<1>3. ASSUME NEW p \in Contenders, Acquisition(p) PROVE MetadataInTurn'
  <2>1. CASE Ensure(p) BY <2>1 DEF Ensure
  <2>2. CASE Open(p) BY <2>2 DEF Open
  <2>3. CASE Begin(p) BY <2>3 DEF Begin
  <2>4. CASE RemoveOld(p) BY <2>4 DEF RemoveOld
  <2>5. CASE Publish(p)
    <3> SUFFICES ASSUME path = 1, NEW r \in Contenders
                 PROVE  /\ pc'[r] = "publishing" => owner' = None
                        /\ pc'[r] \in {"published", "held"} => owner' \in {r, None}
      BY <2>5 DEF Publish
    <3>1. CASE r = p BY <2>5, <3>1 DEF Publish
    <3>2. CASE r # p
      <4>1. pc[r] \notin Locking BY <2>5, <3>2, OneLocks DEF Publish, Locking
      <4>2. QED BY <2>5, <3>2, <4>1 DEF Publish, Locking
    <3>3. QED BY <3>1, <3>2
  <2>6. CASE Check(p) BY <2>6 DEF Check, Checks
  <2>7. CASE AcquireFailed(p) BY <2>7 DEF AcquireFailed
  <2>8. CASE Release(p) BY <2>8 DEF Release
  <2>9. CASE ReadOwner(p) BY <2>9 DEF ReadOwner
  <2>10. CASE RemoveOwner(p) BY <2>10 DEF RemoveOwner
  <2>11. CASE RemoveFailed(p) BY <2>11 DEF RemoveFailed
  <2>12. QED BY <1>3, <2>1, <2>2, <2>3, <2>4, <2>5, <2>6, <2>7, <2>8, <2>9,
                <2>10, <2>11 DEF Acquisition
<1>4. ASSUME NEW q \in Probers, Verification(q) PROVE MetadataInTurn'
  BY <1>4 DEF Verification, Probe, ProbeOwner, Open, Check, Checks,
              ProbeFree, ProbeBusy, ProbeAlive, ProbeRefused
<1>5. ASSUME NEW p \in Processes, Crash(p) PROVE MetadataInTurn'
  BY <1>5 DEF Crash
<1>6. QED BY <1>1, <1>2, <1>3, <1>4, <1>5 DEF Next

LEMMA NextIInv == IInv /\ [Next]_vars => IInv'
<1> SUFFICES ASSUME IInv, [Next]_vars PROVE IInv'
  OBVIOUS
<1>1. CASE Next
  BY <1>1, NextTypeOK, NextInodesInOrder, NextLockingHolds,
     NextOwnerHasPublished, NextConfirmedHasPublished, NextMetadataInTurn
  DEF IInv
<1>2. CASE UNCHANGED vars
  BY <1>2 DEF IInv, TypeOK, InodesInOrder, LockingHolds, OwnerHasPublished,
              ConfirmedHasPublished, MetadataInTurn, vars
<1>3. QED BY <1>1, <1>2

(* In every reachable state the inductive invariant holds. *)
THEOREM LockInvariant == Spec => []IInv
  BY InitIInv, NextIInv, PTL DEF Spec

(* Every variable keeps its type. *)
THEOREM LockTypeCorrect == Spec => []TypeOK
<1>1. IInv => TypeOK BY DEF IInv
<1>2. QED BY <1>1, LockInvariant, PTL

(* A contender that passes the local verification of its lock has the      *)
(* transaction of the file the path names (exclusiveProcessLock.ts,        *)
(* assertOwned): two of them never pass at once.                           *)
THEOREM VerifiedHolders == Spec => []VerifiedHolderExcludes
<1>1. IInv => VerifiedHolderExcludes
  <2> SUFFICES ASSUME IInv, NEW p \in Contenders, pc[p] = "held", SameGuard(p)
               PROVE  lock[path] = p
    BY DEF VerifiedHolderExcludes
  <2>1. opened[p] = path
    BY DEF IInv, TypeOK, InodesInOrder, Locking, SameGuard, Inodes, Processes
  <2>2. QED BY <2>1 DEF IInv, LockingHolds, Locking
<1>2. QED BY <1>1, LockInvariant, PTL

(* No cleanup of an earlier or a refused acquisition puts another name     *)
(* next to a lock that is held (publishOwnerMetadata, removeOwnerMetadata).*)
THEOREM MetadataIsHonest == Spec => []MetadataNeverMisleads
<1>1. IInv => MetadataNeverMisleads
  BY DEF IInv, MetadataInTurn, MetadataNeverMisleads
<1>2. QED BY <1>1, LockInvariant, PTL

(* What a confirming or an accepting step of a prober finds. *)
LEMMA VerdictSteps ==
  ASSUME TypeOK, Next, NEW q \in Probers,
         \/ pc[q] = "same" /\ pc'[q] = "confirmed"
         \/ pc[q] = "confirmed" /\ pc'[q] = "accepted"
  PROVE  \/ pc[q] = "same" /\ owner = Expected[q]
         \/ pc[q] = "confirmed" /\ pc[Expected[q]] # "crashed"
<1> USE ProcessesAssumption DEF TypeOK, Goto, Processes
<1>1. ~Replace /\ ~Finished BY DEF Replace, Finished, vars
<1>2. ASSUME NEW p \in Contenders PROVE ~Acquisition(p)
  BY <1>2 DEF Acquisition, Ensure, Open, Check, Checks, Begin, RemoveOld, Publish,
              AcquireFailed, Release, ReadOwner, RemoveOwner, RemoveFailed
<1>3. ASSUME NEW p \in Processes PROVE ~Crash(p)
  BY <1>3 DEF Crash
<1>4. ASSUME NEW p \in Probers, Verification(p) PROVE ProbeOwner(q) \/ ProbeAlive(q)
  BY <1>4 DEF Verification, Probe, ProbeOwner, Open, Check, Checks, ProbeFree,
              ProbeBusy, ProbeAlive, ProbeRefused
<1>5. QED BY <1>1, <1>2, <1>3, <1>4 DEF Next, ProbeOwner, ProbeAlive, Confirms

(* assertRepositoryDatabaseWriterLockOwnedBy confirms an owner only        *)
(* between its publication and the end of its release, and accepts only    *)
(* one that has published and lives.                                       *)
THEOREM AcceptedOwners == Spec => AcceptedOwnerIsUnfinished
<1> DEFINE A == \A q \in Probers :
                  /\ pc[q] = "same" /\ pc'[q] = "confirmed" =>
                       pc[Expected[q]] \in Unfinished \cup {"crashed"}
                  /\ pc[q] = "confirmed" /\ pc'[q] = "accepted" =>
                       pc[Expected[q]] \in Unfinished \cup {"done"}
<1>1. IInv /\ [Next]_vars => [A]_vars
  <2> SUFFICES ASSUME IInv, Next, NEW q \in Probers,
                      \/ pc[q] = "same" /\ pc'[q] = "confirmed"
                      \/ pc[q] = "confirmed" /\ pc'[q] = "accepted"
               PROVE  pc[Expected[q]] \in Unfinished \cup
                        (IF pc[q] = "same" THEN {"crashed"} ELSE {"done"})
    BY DEF vars
  <2>1. Expected[q] \in Contenders BY ProcessesAssumption
  <2>2. CASE pc[q] = "same"
    <3>1. owner = Expected[q] BY <2>2, VerdictSteps DEF IInv
    <3>2. QED BY <2>1, <2>2, <3>1 DEF IInv, OwnerHasPublished, Unfinished
  <2>3. CASE pc[q] = "confirmed"
    <3>1. pc[Expected[q]] # "crashed" BY <2>3, VerdictSteps DEF IInv
    <3>2. QED BY <2>1, <2>3, <3>1 DEF IInv, ConfirmedHasPublished, Unfinished
  <2>4. QED BY <2>2, <2>3
<1>2. QED BY <1>1, LockInvariant, PTL DEF Spec, AcceptedOwnerIsUnfinished
=============================================================================
