-------------------------- MODULE ServerProcess_proof --------------------------
(***************************************************************************)
(* Proofs about what runs inside one server process: CooperativeGroup, for *)
(* every number of pools, of items and every concurrency, and Shutdown,    *)
(* for every number of connections.                                        *)
(***************************************************************************)
EXTENDS CooperativeGroup, Shutdown, TLAPS, FiniteSetTheorems

USE PoolsAssumption

------------------------------------------------------------------------------
(* A group of pools.                                                       *)

LEMMA TasksOfPools ==
  /\ \A t \in Tasks : /\ t = <<t[1], t[2]>> /\ t[1] \in Pools
                      /\ t[2] \in 1..Items[t[1]] /\ t \in TasksOf(t[1])
  /\ \A p \in Pools : \A i \in 1..Items[p] : <<p, i>> \in TasksOf(p)
  /\ \A p \in Pools : TasksOf(p) \subseteq Tasks /\ \A t \in TasksOf(p) : t[1] = p
BY DEF Tasks, TasksOf

(* The tasks of a pool up to an index are as many as the index says. *)
LEMMA TasksUpTo ==
  ASSUME NEW p \in Pools, NEW n \in 0..Items[p]
  PROVE  /\ IsFiniteSet({t \in TasksOf(p) : t[2] <= n})
         /\ Cardinality({t \in TasksOf(p) : t[2] <= n}) = n
<1> DEFINE T == {t \in TasksOf(p) : t[2] <= n}
           f == [i \in 1..n |-> <<p, i>>]
<1>1. f \in Bijection(1..n, T)
  <2>1. f \in [1..n -> T]
        BY TasksOfPools
  <2>2. \A i, j \in 1..n : f[i] = f[j] => i = j
        OBVIOUS
  <2>3. \A t \in T : \E i \in 1..n : f[i] = t
    <3> SUFFICES ASSUME NEW t \in T PROVE \E i \in 1..n : f[i] = t
        OBVIOUS
    <3>1. t = <<p, t[2]>> /\ t[2] \in 1..n
          BY TasksOfPools
    <3>2. f[t[2]] = <<p, t[2]>>
          BY <3>1
    <3> QED
        BY <3>1, <3>2
  <2> QED
      BY <2>1, <2>2, <2>3 DEF Bijection, Injection, IsInjective, Surjection
<1>2. IsFiniteSet(1..n) /\ Cardinality(1..n) = n
      BY FS_Interval
<1> QED
    BY <1>1, <1>2, FS_Bijection DEF ExistsBijection

LEMMA TasksAreFinite ==
  ASSUME NEW p \in Pools
  PROVE  IsFiniteSet(TasksOf(p))
<1>1. TasksOf(p) = {t \in TasksOf(p) : t[2] <= Items[p]}
      BY TasksOfPools
<1> QED
    BY <1>1, TasksUpTo

-----------------------------------------------------------------------------
(* The inductive invariant *)

(* Worker loops take the items in order, and what a pool that ended has    *)
(* taken has settled and been observed.                                    *)
Flow ==
  \A p \in Pools :
    /\ cursor[p] <= Items[p]
    /\ counts[p].started = cursor[p]
    /\ \A t \in TasksOf(p) : task[t] = "queued" <=> t[2] > cursor[p]
    /\ \A t \in TasksOf(p) : t \in observed => task[t] \in Settled
    /\ pool[p] \in {"pending", "skipped", "refused"} => cursor[p] = 0
    /\ pool[p] \in {"returned", "threw"} =>
         \A t \in TasksOf(p) : task[t] # "queued" => task[t] \in Settled /\ t \in observed

(* Where the errors come from: a worker only reports an abort to a pool    *)
(* that was stopped before, so the first error of a pool is a failure or   *)
(* the abort of the group, which has its error by then.                    *)
Errors ==
  /\ \A t \in Tasks : task[t] \in {"aborted", "wrapped", "refused"} => Stopped(t[1])
  /\ \A t \in observed : task[t] \in Rejected => Stopped(t[1])
  /\ \A p \in Pools :
       /\ primary[p] \in Tasks => task[primary[p]] = "failed"
       /\ primary[p] = Abort => verdict # None
       /\ pool[p] = "returned" => primary[p] = None /\ cursor[p] = Items[p]
       /\ pool[p] = "threw" => primary[p] # None
       /\ pool[p] = "skipped" => cancelled
       /\ pool[p] = "refused" => verdict # None
       /\ pool[p] = "running" /\ verdict # None => Stopped(p)
       /\ p \in noticed => pool[p] \in {"threw", "refused"} /\ verdict # None
  /\ verdict = Abort => cancelled
  /\ verdict \in Tasks => task[verdict] = "failed"
  /\ cancelled => verdict # None

(* The group ends after all its pools. *)
Ended ==
  group # "running" =>
    /\ \A p \in Pools : pool[p] \in {"returned", "skipped"} \/ p \in noticed
    /\ group = "threw" <=> verdict # None

CountsAgree ==
  \A p \in Pools : pool[p] \in {"returned", "threw"} =>
    /\ counts[p].completed + counts[p].failed + counts[p].aborted = counts[p].drained
    /\ counts[p].drained = counts[p].started
    /\ counts[p].started + counts[p].skipped = Items[p]

IInv == TypeOK /\ Flow /\ Errors /\ Ended /\ CountsAgree

LEMMA InvInitially == Init => IInv
<1> SUFFICES ASSUME Init PROVE IInv
    OBVIOUS
<1>1. TypeOK
      BY DEF Init, TypeOK, NoCounts, CountRecords
<1>2. Flow
      BY TasksOfPools DEF Init, Flow, NoCounts
<1>3. Errors
      BY TasksOfPools DEF Init, Errors
<1>4. Ended /\ CountsAgree
      BY DEF Init, Ended, CountsAgree
<1> QED
    BY <1>1, <1>2, <1>3, <1>4 DEF IInv

-----------------------------------------------------------------------------
(* Type correctness *)

LEMMA HowManyType ==
  ASSUME NEW p \in Pools, NEW S
  PROVE  HowMany(p, S) \in Nat
<1>1. IsFiniteSet({t \in TasksOf(p) : task[t] \in S})
      BY TasksAreFinite, FS_Subset
<1> QED
    BY <1>1, FS_CardinalityType DEF HowMany

LEMMA TakingKeepsType ==
  ASSUME TypeOK, NEW p \in Pools, NEW n \in Nat, Take(p, n)
  PROVE  /\ task' \in [Tasks -> {"queued"} \cup Unsettled \cup Settled]
         /\ cursor' \in [Pools -> Nat]
         /\ counts' \in [Pools -> CountRecords]
<1>1. cursor[p] + n \in Nat /\ counts[p] \in CountRecords /\ counts[p].started + n \in Nat
      BY DEF TypeOK, CountRecords
<1>2. [counts[p] EXCEPT !.started = @ + n] \in CountRecords
      BY <1>1 DEF CountRecords
<1>3. counts' = [counts EXCEPT ![p] = [counts[p] EXCEPT !.started = @ + n]]
      BY DEF Take, TypeOK
<1> QED
    BY <1>1, <1>2, <1>3 DEF Take, TypeOK, Unsettled

LEMMA FinalCountsType ==
  ASSUME TypeOK, Flow, NEW p \in Pools
  PROVE  /\ FinalCounts(p) \in CountRecords
         /\ FinalCounts(p).started = cursor[p]
         /\ FinalCounts(p).skipped = Items[p] - cursor[p]
         /\ FinalCounts(p).completed = HowMany(p, {"fulfilled"})
         /\ FinalCounts(p).failed = HowMany(p, {"failed", "wrapped"})
         /\ FinalCounts(p).aborted = HowMany(p, {"aborted", "refused"})
         /\ FinalCounts(p).drained = HowMany(p, Settled)
<1>1. counts[p] \in CountRecords /\ counts[p].started = cursor[p] /\ cursor[p] <= Items[p]
      /\ cursor[p] \in Nat
      BY DEF TypeOK, Flow
<1>2. Items[p] - counts[p].started \in Nat
      BY <1>1
<1>3. \A S : HowMany(p, S) \in Nat
      BY HowManyType
<1> QED
    BY <1>1, <1>2, <1>3 DEF FinalCounts, CountRecords

LEMMA TypeKept == IInv /\ [Next]_vars => TypeOK'
<1> SUFFICES ASSUME IInv, [Next]_vars PROVE TypeOK'
    OBVIOUS
<1>0. TypeOK /\ Flow
      BY DEF IInv
<1> USE DEF poolVars, groupVars
<1>1. ASSUME NEW p \in Pools, StartPool(p) PROVE TypeOK'
  <2>1. PICK n \in Nat : Take(p, n)
        BY <1>1 DEF StartPool
  <2> QED
      BY <1>0, <1>1, <2>1, TakingKeepsType DEF StartPool, TypeOK
<1>2. ASSUME NEW p \in Pools, RefusePool(p) PROVE TypeOK'
      BY <1>0, <1>2 DEF RefusePool, TypeOK
<1>3. ASSUME NEW p \in Pools, EndPool(p) PROVE TypeOK'
      BY <1>0, <1>3, FinalCountsType DEF EndPool, TypeOK
<1>4. AbortPools => primary' \in [Pools -> Tasks \cup {None, Abort}]
      BY <1>0 DEF AbortPools, FirstError, TypeOK
<1>5. ASSUME NEW p \in Pools, Notice(p) PROVE TypeOK'
      BY <1>0, <1>4, <1>5 DEF Notice, FirstError, TypeOK
<1>6. ASSUME NEW t \in Tasks, Invoke(t) PROVE TypeOK'
      BY <1>0, <1>6 DEF Invoke, TypeOK, Unsettled, Settled, Rejected
<1>7. ASSUME NEW t \in Tasks, Settle(t) PROVE TypeOK'
      BY <1>0, <1>7 DEF Settle, TypeOK, ByWorker, Settled, Rejected
<1>8. ASSUME NEW t \in Tasks, Observe(t) PROVE TypeOK'
  <2>1. primary' \in [Pools -> Tasks \cup {None, Abort}]
        BY <1>0, <1>8, TasksOfPools DEF Observe, FirstError, TypeOK
  <2>2. /\ task' \in [Tasks -> {"queued"} \cup Unsettled \cup Settled]
        /\ cursor' \in [Pools -> Nat]
        /\ counts' \in [Pools -> CountRecords]
    <3>1. CASE Take(t[1], 1)
          BY <1>0, <3>1, TasksOfPools, TakingKeepsType
    <3>2. CASE UNCHANGED <<task, cursor, counts>>
          BY <1>0, <3>2 DEF TypeOK
    <3> QED
        BY <1>8, <3>1, <3>2 DEF Observe
  <2> QED
      BY <1>0, <1>8, <2>1, <2>2 DEF Observe, TypeOK
<1>9. CASE EndGroup
      BY <1>0, <1>9 DEF EndGroup, TypeOK
<1>10. CASE Cancel
      BY <1>0, <1>4, <1>10 DEF Cancel, FirstError, TypeOK
<1>11. CASE UNCHANGED vars
      BY <1>0, <1>11 DEF TypeOK, vars
<1> QED
    BY <1>1, <1>2, <1>3, <1>5, <1>6, <1>7, <1>8, <1>9, <1>10, <1>11
    DEF Next, Continue, Done

-----------------------------------------------------------------------------
(* Pools take their items in order *)

(* What a pool has taken is exactly what is no longer queued. *)
LEMMA TakingInOrder ==
  ASSUME TypeOK, Flow, NEW p \in Pools, NEW n \in Nat, Take(p, n),
         cursor[p] + n <= Items[p]
  PROVE  /\ \A q \in Pools : /\ cursor'[q] <= Items[q]
                             /\ counts'[q].started = cursor'[q]
                             /\ \A t \in TasksOf(q) : task'[t] = "queued" <=> t[2] > cursor'[q]
         /\ \A t \in Tasks : task'[t] = task[t] \/ (task[t] = "queued" /\ task'[t] = "pending")
         /\ \A q \in Pools \ {p} : cursor'[q] = cursor[q] /\ counts'[q] = counts[q]
         /\ \A t \in Tasks : t[1] # p => task'[t] = task[t]
<1> DEFINE taken == {<<p, i>> : i \in (cursor[p] + 1)..(cursor[p] + n)}
<1>1. cursor[p] \in Nat /\ cursor' = [cursor EXCEPT ![p] = @ + n]
      BY DEF TypeOK, Take
<1>2. \A q \in Pools : cursor'[q] = IF q = p THEN cursor[p] + n ELSE cursor[q]
      BY <1>1 DEF TypeOK
<1>3. task' = [t \in Tasks |-> IF t \in taken THEN "pending" ELSE task[t]]
      BY DEF Take
<1>4. \A t \in Tasks : t \in taken <=> t[1] = p /\ t[2] > cursor[p] /\ t[2] <= cursor[p] + n
      BY <1>1, TasksOfPools
<1>5. \A q \in Pools : counts'[q].started = cursor'[q]
  <2>1. \A q \in Pools : counts[q] \in CountRecords /\ counts[q].started = cursor[q]
        BY DEF TypeOK, Flow
  <2>2. counts'[p].started = counts[p].started + n
        BY <2>1 DEF Take, TypeOK, CountRecords
  <2>3. \A q \in Pools \ {p} : counts'[q] = counts[q]
        BY DEF Take, TypeOK
  <2> QED
      BY <1>2, <2>1, <2>2, <2>3
<1>6. \A q \in Pools : \A t \in TasksOf(q) : task'[t] = "queued" <=> t[2] > cursor'[q]
  <2> SUFFICES ASSUME NEW q \in Pools, NEW t \in TasksOf(q)
               PROVE  task'[t] = "queued" <=> t[2] > cursor'[q]
      OBVIOUS
  <2>1. t \in Tasks /\ t[1] = q /\ t[2] \in Nat /\ cursor[q] \in Nat
        BY TasksOfPools DEF TypeOK
  <2>2. task[t] = "queued" <=> t[2] > cursor[q]
        BY DEF Flow
  <2>3. task'[t] = IF t \in taken THEN "pending" ELSE task[t]
        BY <1>3, <2>1
  <2>4. CASE q = p
        BY <1>1, <1>2, <1>4, <2>1, <2>2, <2>3, <2>4
  <2>5. CASE q # p
        BY <1>2, <1>4, <2>1, <2>2, <2>3, <2>5
  <2> QED
      BY <2>4, <2>5
<1>7. \A t \in Tasks : task'[t] = task[t] \/ (task[t] = "queued" /\ task'[t] = "pending")
  <2> SUFFICES ASSUME NEW t \in Tasks, t \in taken
               PROVE  task[t] = "queued" /\ task'[t] = "pending"
      BY <1>3
  <2> QED
      BY <1>1, <1>3, <1>4, TasksOfPools DEF Flow
<1>8. \A q \in Pools : cursor'[q] <= Items[q]
      BY <1>2 DEF Flow
<1>9. \A q \in Pools \ {p} : cursor'[q] = cursor[q] /\ counts'[q] = counts[q]
      BY <1>2 DEF Take, TypeOK
<1>10. \A t \in Tasks : t[1] # p => task'[t] = task[t]
      BY <1>3, <1>4
<1> QED
    BY <1>5, <1>6, <1>7, <1>8, <1>9, <1>10

(* A task that is about to be observed belongs to a pool that runs. *)
LEMMA ObservedPoolRuns ==
  ASSUME TypeOK, Flow, NEW t \in Tasks, Observe(t)
  PROVE  pool[t[1]] = "running"
<1>1. t \notin observed /\ task[t] \in Settled
      BY DEF Observe
<1>2. t[1] \in Pools /\ t \in TasksOf(t[1]) /\ task[t] # "queued"
      BY <1>1, TasksOfPools DEF Settled, Rejected
<1>3. t[2] <= cursor[t[1]] /\ t[2] >= 1
      BY <1>2, TasksOfPools DEF Flow, TypeOK
<1>4. cursor[t[1]] # 0
      BY <1>2, <1>3, TasksOfPools DEF TypeOK
<1> QED
    BY <1>1, <1>2, <1>4 DEF Flow, TypeOK

LEMMA FlowKept == IInv /\ [Next]_vars => Flow'
<1> SUFFICES ASSUME IInv, [Next]_vars PROVE Flow'
    OBVIOUS
<1>0. TypeOK /\ Flow
      BY DEF IInv
<1> USE TasksOfPools DEF poolVars, groupVars
<1>1. ASSUME NEW p \in Pools, StartPool(p) PROVE Flow'
  <2>1. cursor[p] = 0 /\ pool[p] = "pending"
        BY <1>0, <1>1 DEF StartPool, Flow
  <2>2. PICK n \in Nat : Take(p, n) /\ n <= Items[p]
        BY <1>1 DEF StartPool
  <2>3. \A q \in Pools : pool'[q] = IF q = p THEN "running" ELSE pool[q]
        BY <1>0, <1>1 DEF StartPool, TypeOK
  <2>4. observed' = observed
        BY <1>1 DEF StartPool
  <2>5. cursor[p] + n <= Items[p]
        BY <2>1, <2>2
  <2>6. "queued" \notin Settled
        BY DEF Settled, Rejected
  <2>7. \A q \in Pools : \A t \in TasksOf(q) :
          /\ t \in Tasks
          /\ t \in observed => task'[t] = task[t]
          /\ q # p => task'[t] = task[t]
        BY <1>0, <2>2, <2>5, <2>6, TakingInOrder DEF Flow
  <2> QED
      BY <1>0, <2>2, <2>3, <2>4, <2>5, <2>7, TakingInOrder DEF Flow
<1>2. ASSUME NEW p \in Pools, RefusePool(p) PROVE Flow'
      BY <1>0, <1>2 DEF RefusePool, Flow, TypeOK
<1>3. ASSUME NEW p \in Pools, EndPool(p) PROVE Flow'
  <2>1. \A q \in Pools : counts'[q].started = cursor[q]
        BY <1>0, <1>3, FinalCountsType DEF EndPool, Flow, TypeOK
  <2>2. \A t \in TasksOf(p) : task[t] # "queued" => task[t] \in Settled /\ t \in observed
        BY <1>3 DEF EndPool, Drained
  <2>3. \A q \in Pools \ {p} : pool'[q] = pool[q]
        BY <1>0, <1>3 DEF EndPool, TypeOK
  <2>4. pool'[p] \in {"threw", "returned"}
        BY <1>0, <1>3 DEF EndPool, TypeOK
  <2>5. UNCHANGED <<task, observed, cursor>>
        BY <1>3 DEF EndPool
  <2> QED
      BY <1>0, <2>1, <2>2, <2>3, <2>4, <2>5 DEF Flow
<1>4. ASSUME NEW p \in Pools, Notice(p) PROVE Flow'
      BY <1>0, <1>4 DEF Notice, Flow
<1>5. ASSUME NEW t \in Tasks, Invoke(t) PROVE Flow'
  <2>1. \A u \in Tasks : u # t => task'[u] = task[u]
        BY <1>0, <1>5 DEF Invoke, TypeOK
  <2>2. task[t] = "pending" /\ task'[t] \in {"running", "refused"}
        BY <1>0, <1>5 DEF Invoke, TypeOK
  <2>3. UNCHANGED <<observed, cursor, counts, pool>>
        BY <1>5 DEF Invoke
  <2> QED
      BY <1>0, <2>1, <2>2, <2>3 DEF Flow, Settled, Rejected
<1>6. ASSUME NEW t \in Tasks, Settle(t) PROVE Flow'
  <2>1. \A u \in Tasks : u # t => task'[u] = task[u]
        BY <1>0, <1>6 DEF Settle, TypeOK
  <2>2. task[t] = "running" /\ task'[t] \in ByWorker
        BY <1>0, <1>6 DEF Settle, TypeOK
  <2>3. UNCHANGED <<observed, cursor, counts, pool>>
        BY <1>6 DEF Settle
  <2> QED
      BY <1>0, <2>1, <2>2, <2>3 DEF Flow, Settled, Rejected, ByWorker
<1>7. ASSUME NEW t \in Tasks, Observe(t) PROVE Flow'
  <2>1. observed' = observed \cup {t} /\ t \notin observed /\ task[t] \in Settled /\ pool' = pool
        BY <1>7 DEF Observe
  <2>2. t[1] \in Pools /\ t \in TasksOf(t[1]) /\ task[t] # "queued"
        BY <2>1 DEF Settled, Rejected
  <2>3. pool[t[1]] = "running"
        BY <1>0, <1>7, ObservedPoolRuns
  <2>4. CASE Take(t[1], 1) /\ cursor[t[1]] < Items[t[1]]
    <3>1. cursor[t[1]] + 1 <= Items[t[1]]
          BY <1>0, <2>2, <2>4 DEF TypeOK
    <3>2. "queued" \notin Settled
          BY DEF Settled, Rejected
    <3>3. \A u \in Tasks : task[u] \in Settled => task'[u] = task[u]
          BY <1>0, <2>2, <2>4, <3>1, <3>2, TakingInOrder
    <3>4. \A q \in Pools : \A u \in TasksOf(q) :
            u \in Tasks /\ (q # t[1] => task'[u] = task[u] /\ u # t)
          BY <1>0, <2>2, <2>4, <3>1, TakingInOrder
    <3> QED
        BY <1>0, <2>1, <2>2, <2>3, <2>4, <3>1, <3>3, <3>4, TakingInOrder DEF Flow
  <2>5. CASE UNCHANGED <<task, cursor, counts>>
        BY <1>0, <2>1, <2>5 DEF Flow
  <2> QED
      BY <1>7, <2>4, <2>5 DEF Observe
<1>8. CASE EndGroup \/ Cancel \/ UNCHANGED vars
      BY <1>0, <1>8 DEF EndGroup, Cancel, vars, Flow
<1> QED
    BY <1>1, <1>2, <1>3, <1>4, <1>5, <1>6, <1>7, <1>8 DEF Next, Continue, Done

-----------------------------------------------------------------------------
(* Errors, the verdict and the counts *)

(* An abort of the group stops the pools that run and changes no error. *)
LEMMA AbortedPools ==
  ASSUME TypeOK, AbortPools
  PROVE  \A p \in Pools :
           /\ pool[p] = "running" => primary'[p] # None
           /\ primary[p] # None \/ pool[p] # "running" => primary'[p] = primary[p]
           /\ primary'[p] \in {primary[p], Abort}
BY DEF AbortPools, FirstError, TypeOK

LEMMA ErrorsKept == IInv /\ [Next]_vars => Errors'
<1> SUFFICES ASSUME IInv, [Next]_vars PROVE Errors'
    OBVIOUS
<1>0. TypeOK /\ Flow /\ Errors
      BY DEF IInv
<1> USE TasksOfPools DEF poolVars, groupVars, Stopped
<1>1. ASSUME NEW p \in Pools, StartPool(p) PROVE Errors'
  <2>1. cursor[p] = 0 /\ pool[p] = "pending" /\ verdict = None
        BY <1>0, <1>1 DEF StartPool, Flow
  <2>2. PICK n \in Nat : Take(p, n) /\ n <= Items[p]
        BY <1>1 DEF StartPool
  <2>3. cursor[p] + n <= Items[p]
        BY <2>1, <2>2
  <2>4. \A t \in Tasks : task'[t] = task[t] \/ (task[t] = "queued" /\ task'[t] = "pending")
        BY <1>0, <2>2, <2>3, TakingInOrder
  <2>5. \A q \in Pools \ {p} : cursor'[q] = cursor[q] /\ pool'[q] = pool[q]
        BY <1>0, <1>1, <2>2, <2>3, TakingInOrder DEF StartPool, TypeOK
  <2>6. pool'[p] = "running" /\ UNCHANGED <<observed, primary, noticed, verdict, cancelled>>
        BY <1>0, <1>1 DEF StartPool, TypeOK
  <2>7. \A t \in observed : t \in Tasks /\ task'[t] = task[t]
    <3>1. \A t \in observed : t \in Tasks /\ task[t] # "queued"
          BY <1>0 DEF Flow, TypeOK, Settled, Rejected
    <3> QED
        BY <2>4, <3>1
  <2> QED
      BY <1>0, <2>1, <2>4, <2>5, <2>6, <2>7 DEF Errors, TypeOK
<1>2. ASSUME NEW p \in Pools, RefusePool(p) PROVE Errors'
      BY <1>0, <1>2 DEF RefusePool, Errors, TypeOK
<1>3. ASSUME NEW p \in Pools, EndPool(p) PROVE Errors'
  <2>1. \A q \in Pools \ {p} : pool'[q] = pool[q]
        BY <1>0, <1>3 DEF EndPool, TypeOK
  <2>2. pool[p] = "running" /\ p \notin noticed
        BY <1>0, <1>3 DEF EndPool, Errors
  <2>3. \/ pool'[p] = "threw" /\ primary[p] # None
        \/ pool'[p] = "returned" /\ primary[p] = None /\ cursor[p] = Items[p]
        BY <1>0, <1>3 DEF EndPool, Drained, TypeOK
  <2>4. UNCHANGED <<task, observed, cursor, primary, noticed, verdict, cancelled>>
        BY <1>3 DEF EndPool
  <2> QED
      BY <1>0, <2>1, <2>2, <2>3, <2>4 DEF Errors
<1>4. ASSUME NEW p \in Pools, Notice(p) PROVE Errors'
  <2>1. UNCHANGED <<task, observed, cursor, pool, cancelled>>
        BY <1>4 DEF Notice
  <2>2. noticed' = noticed \cup {p} /\ pool[p] \in {"threw", "refused"}
        BY <1>4 DEF Notice
  <2>3. CASE verdict # None
        BY <1>0, <1>4, <2>1, <2>2, <2>3 DEF Notice, FirstError, Errors
  <2>4. CASE verdict = None
    <3>1. pool[p] = "threw" /\ verdict' = primary[p] /\ AbortPools
          BY <1>0, <1>4, <2>2, <2>4 DEF Notice, FirstError, Errors
    <3>2. verdict' \in Tasks /\ task[verdict'] = "failed"
          BY <1>0, <2>4, <3>1 DEF Errors, TypeOK
    <3> QED
        BY <1>0, <2>1, <2>2, <2>4, <3>1, <3>2, AbortedPools DEF Errors, TypeOK
  <2> QED
      BY <2>3, <2>4
<1>5. ASSUME NEW t \in Tasks, Invoke(t) PROVE Errors'
  <2>1. \A u \in Tasks : u # t => task'[u] = task[u]
        BY <1>0, <1>5 DEF Invoke, TypeOK
  <2>2. task[t] = "pending" /\ (task'[t] = "running" \/ (task'[t] = "refused" /\ Stopped(t[1])))
        BY <1>0, <1>5 DEF Invoke, TypeOK, MayInvoke
  <2>3. UNCHANGED <<observed, cursor, primary, counts, pool, noticed, verdict, cancelled>>
        BY <1>5 DEF Invoke
  <2>4. t \notin observed
        BY <1>0, <2>2 DEF Flow, Settled, Rejected
  <2> QED
      BY <1>0, <2>1, <2>2, <2>3, <2>4 DEF Errors, TypeOK
<1>6. ASSUME NEW t \in Tasks, Settle(t) PROVE Errors'
  <2>1. \A u \in Tasks : u # t => task'[u] = task[u]
        BY <1>0, <1>6 DEF Settle, TypeOK
  <2>2. /\ task[t] = "running" /\ task'[t] \in ByWorker
        /\ task'[t] \in {"aborted", "wrapped"} => Stopped(t[1])
        BY <1>0, <1>6 DEF Settle, TypeOK
  <2>3. UNCHANGED <<observed, cursor, primary, counts, pool, noticed, verdict, cancelled>>
        BY <1>6 DEF Settle
  <2>4. t \notin observed
        BY <1>0, <2>2 DEF Flow, Settled, Rejected
  <2> QED
      BY <1>0, <2>1, <2>2, <2>3, <2>4 DEF Errors, TypeOK, ByWorker
<1>7. ASSUME NEW t \in Tasks, Observe(t) PROVE Errors'
  <2>1. pool[t[1]] = "running" /\ t[1] \in Pools
        BY <1>0, <1>7, ObservedPoolRuns
  <2>2. observed' = observed \cup {t} /\ task[t] \in Settled
        /\ UNCHANGED <<pool, noticed, verdict, cancelled>>
        BY <1>7 DEF Observe
  <2>3. \A u \in Tasks : task'[u] = task[u] \/ (task[u] = "queued" /\ task'[u] = "pending")
    <3>1. CASE Take(t[1], 1) /\ cursor[t[1]] < Items[t[1]]
      <4>1. cursor[t[1]] + 1 <= Items[t[1]]
            BY <1>0, <2>1, <3>1 DEF TypeOK
      <4> QED
          BY <1>0, <2>1, <3>1, <4>1, TakingInOrder
    <3>2. CASE UNCHANGED <<task, cursor, counts>>
          BY <3>2
    <3> QED
        BY <1>7, <3>1, <3>2 DEF Observe
  <2>4. \A q \in Pools \ {t[1]} : cursor'[q] = cursor[q] /\ primary'[q] = primary[q]
        BY <1>0, <1>7, <2>1 DEF Observe, Take, TypeOK
  <2>5. \/ primary'[t[1]] = primary[t[1]] /\ (task[t] \in Rejected => primary[t[1]] # None)
        \/ primary[t[1]] = None /\ primary'[t[1]] = t /\ task[t] \in Rejected
        BY <1>0, <1>7, <2>1 DEF Observe, FirstError, TypeOK
  <2>6. \A u \in observed' : u \in Tasks /\ task'[u] = task[u]
        BY <1>0, <2>2, <2>3 DEF Flow, TypeOK, Settled, Rejected
  <2>7. CASE primary'[t[1]] = primary[t[1]] /\ (task[t] \in Rejected => primary[t[1]] # None)
    <3>1. \A q \in Pools : primary'[q] = primary[q]
          BY <2>4, <2>7
    <3> QED
        BY <1>0, <2>1, <2>2, <2>3, <2>4, <2>6, <2>7, <3>1 DEF Errors, TypeOK
  <2>8. CASE primary[t[1]] = None /\ primary'[t[1]] = t /\ task[t] \in Rejected
    <3>1. task[t] = "failed" /\ t # None /\ t # Abort /\ task'[t] = "failed"
          BY <1>0, <2>3, <2>8 DEF Errors, Rejected
    <3>2. \A q \in Pools : primary[q] # None => primary'[q] = primary[q]
          BY <2>4, <2>8
    <3> QED
        BY <1>0, <2>1, <2>2, <2>3, <2>4, <2>6, <2>8, <3>1, <3>2 DEF Errors, TypeOK
  <2> QED
      BY <2>5, <2>7, <2>8
<1>8. CASE EndGroup
      BY <1>0, <1>8 DEF EndGroup, Errors
<1>9. CASE Cancel
  <2>1. UNCHANGED <<task, observed, cursor, pool, noticed>> /\ cancelled'
        BY <1>9 DEF Cancel
  <2>2. CASE verdict # None
        BY <1>0, <1>9, <2>1, <2>2 DEF Cancel, FirstError, Errors
  <2>3. CASE verdict = None
    <3>1. verdict' = Abort /\ AbortPools
          BY <1>9, <2>3 DEF Cancel, FirstError
    <3> QED
        BY <1>0, <2>1, <2>3, <3>1, AbortedPools DEF Errors, TypeOK
  <2> QED
      BY <2>2, <2>3
<1>10. CASE UNCHANGED vars
       BY <1>0, <1>10 DEF vars, Errors
<1> QED
    BY <1>1, <1>2, <1>3, <1>4, <1>5, <1>6, <1>7, <1>8, <1>9, <1>10
    DEF Next, Continue, Done

LEMMA EndedKept == IInv /\ [Next]_vars => Ended'
<1> SUFFICES ASSUME IInv, [Next]_vars PROVE Ended'
    OBVIOUS
<1>0. TypeOK /\ Flow /\ Errors /\ Ended
      BY DEF IInv
<1> USE TasksOfPools DEF poolVars, groupVars
<1>1. ASSUME NEW p \in Pools, StartPool(p) \/ RefusePool(p) \/ EndPool(p) PROVE Ended'
  <2>1. pool[p] \notin {"returned", "skipped"} /\ p \notin noticed
        BY <1>0, <1>1 DEF StartPool, RefusePool, EndPool, Errors
  <2> QED
      BY <1>0, <1>1, <2>1 DEF StartPool, RefusePool, EndPool, Ended
<1>2. ASSUME NEW p \in Pools, Notice(p) PROVE Ended'
      BY <1>0, <1>2 DEF Notice, Ended
<1>3. ASSUME NEW t \in Tasks, Invoke(t) \/ Settle(t) \/ Observe(t) PROVE Ended'
      BY <1>0, <1>3 DEF Invoke, Settle, Observe, Ended
<1>4. CASE EndGroup
      BY <1>0, <1>4 DEF EndGroup, ThrowsPrimary, Ended
<1>5. CASE Cancel \/ UNCHANGED vars
      BY <1>0, <1>5 DEF Cancel, vars, Ended
<1> QED
    BY <1>1, <1>2, <1>3, <1>4, <1>5 DEF Next, Continue, Done

(* The tasks in two disjoint groups of states add up. *)
LEMMA HowManyAdds ==
  ASSUME NEW p \in Pools, NEW S, NEW T, S \cap T = {}
  PROVE  HowMany(p, S \cup T) = HowMany(p, S) + HowMany(p, T)
<1> DEFINE In(U) == {t \in TasksOf(p) : task[t] \in U}
<1>1. In(S \cup T) = In(S) \cup In(T) /\ In(S) \cap In(T) = {}
      OBVIOUS
<1>2. IsFiniteSet(In(S)) /\ IsFiniteSet(In(T))
      BY TasksAreFinite, FS_Subset
<1>3. Cardinality(In(S) \cup In(T)) = Cardinality(In(S)) + Cardinality(In(T)) - Cardinality({})
      BY <1>1, <1>2, FS_Union
<1>4. Cardinality(In(S)) \in Nat /\ Cardinality(In(T)) \in Nat /\ Cardinality({}) = 0
      BY <1>2, FS_CardinalityType, FS_EmptySet
<1>5. Cardinality(In(S) \cup In(T)) = Cardinality(In(S)) + Cardinality(In(T))
  <2> DEFINE a == Cardinality(In(S))
             b == Cardinality(In(T))
             u == Cardinality(In(S) \cup In(T))
             z == Cardinality({})
  <2>1. u = a + b - z /\ a \in Nat /\ b \in Nat /\ z = 0
        BY <1>3, <1>4
  <2> HIDE DEF a, b, u, z
  <2>2. u = a + b
        BY <2>1
  <2> QED
      BY <2>2 DEF a, b, u
<1> QED
    BY <1>1, <1>5 DEF HowMany

(* What a pool reports when it ends adds up to what it took. *)
LEMMA FinalCountsAgree ==
  ASSUME TypeOK, Flow, NEW p \in Pools, Drained(p)
  PROVE  LET c == FinalCounts(p)
         IN  /\ c.completed + c.failed + c.aborted = c.drained
             /\ c.drained = c.started
             /\ c.started + c.skipped = Items[p]
<1>1. cursor[p] \in 0..Items[p]
      BY DEF TypeOK, Flow
<1>2. {t \in TasksOf(p) : task[t] \in Settled} = {t \in TasksOf(p) : t[2] <= cursor[p]}
  <2> SUFFICES ASSUME NEW t \in TasksOf(p)
               PROVE  task[t] \in Settled <=> t[2] <= cursor[p]
      OBVIOUS
  <2>1. task[t] = "queued" <=> t[2] > cursor[p]
        BY DEF Flow
  <2>2. task[t] = "queued" \/ task[t] \in Settled
        BY DEF Drained
  <2>3. "queued" \notin Settled /\ t[2] \in Nat
        BY TasksOfPools DEF Settled, Rejected
  <2> QED
      BY <1>1, <2>1, <2>2, <2>3
<1>3. HowMany(p, Settled) = cursor[p]
      BY <1>1, <1>2, TasksUpTo DEF HowMany
<1>4. HowMany(p, {"fulfilled"} \cup {"failed", "wrapped"})
        = HowMany(p, {"fulfilled"}) + HowMany(p, {"failed", "wrapped"})
      BY HowManyAdds
<1>5. HowMany(p, ({"fulfilled"} \cup {"failed", "wrapped"}) \cup {"aborted", "refused"})
        = HowMany(p, {"fulfilled"} \cup {"failed", "wrapped"})
          + HowMany(p, {"aborted", "refused"})
      BY HowManyAdds
<1>6. Settled = ({"fulfilled"} \cup {"failed", "wrapped"}) \cup {"aborted", "refused"}
      BY DEF Settled, Rejected
<1>7. \A S : HowMany(p, S) \in Nat
      BY HowManyType
<1>8. HowMany(p, Settled) = HowMany(p, {"fulfilled"}) + HowMany(p, {"failed", "wrapped"})
                              + HowMany(p, {"aborted", "refused"})
      BY <1>4, <1>5, <1>6
<1>9. Items[p] \in Nat /\ cursor[p] + (Items[p] - cursor[p]) = Items[p]
      BY <1>1
<1> QED
    BY <1>3, <1>8, <1>9, FinalCountsType, Zenon

LEMMA CountsKept == IInv /\ [Next]_vars => CountsAgree'
<1> SUFFICES ASSUME IInv, [Next]_vars PROVE CountsAgree'
    OBVIOUS
<1>0. TypeOK /\ Flow /\ CountsAgree
      BY DEF IInv
<1> USE TasksOfPools DEF poolVars, groupVars
<1>1. ASSUME NEW p \in Pools, NEW n \in Nat, Take(p, n), pool'[p] \notin {"returned", "threw"},
             \A q \in Pools \ {p} : pool'[q] = pool[q]
      PROVE  CountsAgree'
      BY <1>0, <1>1 DEF Take, TypeOK, CountsAgree
<1>2. ASSUME NEW p \in Pools, StartPool(p) PROVE CountsAgree'
  <2>1. PICK n \in Nat : Take(p, n)
        BY <1>2 DEF StartPool
  <2>2. pool'[p] = "running" /\ \A q \in Pools \ {p} : pool'[q] = pool[q]
        BY <1>0, <1>2 DEF StartPool, TypeOK
  <2> QED
      BY <1>1, <2>1, <2>2
<1>3. ASSUME NEW t \in Tasks, Observe(t) PROVE CountsAgree'
  <2>1. pool[t[1]] = "running" /\ t[1] \in Pools /\ pool' = pool
        BY <1>0, <1>3, ObservedPoolRuns DEF Observe
  <2>2. CASE Take(t[1], 1)
        BY <1>1, <2>1, <2>2
  <2>3. CASE UNCHANGED <<task, cursor, counts>>
        BY <1>0, <2>1, <2>3 DEF CountsAgree
  <2> QED
      BY <1>3, <2>2, <2>3 DEF Observe
<1>4. ASSUME NEW p \in Pools, EndPool(p) PROVE CountsAgree'
  <2>1. counts'[p] = FinalCounts(p) /\ \A q \in Pools \ {p} : counts'[q] = counts[q]
        BY <1>0, <1>4 DEF EndPool, TypeOK
  <2>2. \A q \in Pools \ {p} : pool'[q] = pool[q]
        BY <1>0, <1>4 DEF EndPool, TypeOK
  <2>3. Drained(p)
        BY <1>4 DEF EndPool
  <2> QED
      BY <1>0, <2>1, <2>2, <2>3, FinalCountsAgree DEF CountsAgree
<1>5. ASSUME NEW p \in Pools, RefusePool(p) PROVE CountsAgree'
      BY <1>0, <1>5 DEF RefusePool, CountsAgree, TypeOK
<1>6. ASSUME NEW p \in Pools, Notice(p) PROVE CountsAgree'
      BY <1>0, <1>6 DEF Notice, CountsAgree
<1>7. ASSUME NEW t \in Tasks, Invoke(t) \/ Settle(t) PROVE CountsAgree'
      BY <1>0, <1>7 DEF Invoke, Settle, CountsAgree
<1>8. CASE EndGroup \/ Cancel \/ UNCHANGED vars
      BY <1>0, <1>8 DEF EndGroup, Cancel, vars, CountsAgree
<1> QED
    BY <1>2, <1>3, <1>4, <1>5, <1>6, <1>7, <1>8 DEF Next, Continue, Done

-----------------------------------------------------------------------------
(* Theorems *)

(* The invariant behind the properties, in every reachable state. *)
THEOREM GroupInvariant == Spec => []IInv
<1>1. IInv /\ [Next]_vars => IInv'
      BY TypeKept, FlowKept, ErrorsKept, EndedKept, CountsKept DEF IInv
<1> QED
    BY <1>1, InvInitially, PTL DEF Spec

(* Every variable keeps its type; no count of the diagnostics is negative. *)
THEOREM GroupTypeCorrect == Spec => []TypeOK
  BY GroupInvariant, PTL DEF IInv

(* When a group of any size returns or throws, none of its tasks is still  *)
(* running or about to run.                                                *)
THEOREM GroupOutlivesTasks == Spec => []NothingOutlivesTheGroup
<1>1. IInv => NothingOutlivesTheGroup
  <2> SUFFICES ASSUME IInv, group # "running", NEW t \in Tasks
               PROVE  task[t] \notin Unsettled
      BY DEF NothingOutlivesTheGroup
  <2>1. TypeOK /\ Flow /\ Errors /\ Ended
        BY DEF IInv
  <2>2. t[1] \in Pools /\ t \in TasksOf(t[1]) /\ t[2] \in Nat \ {0}
        BY TasksOfPools
  <2>3. pool[t[1]] \in {"returned", "skipped", "threw", "refused"}
        BY <2>1, <2>2 DEF Ended, Errors
  <2>4. CASE pool[t[1]] \in {"returned", "threw"}
        BY <2>1, <2>2, <2>4 DEF Flow, Settled, Rejected, Unsettled
  <2>5. CASE pool[t[1]] \in {"skipped", "refused"}
    <3>1. task[t] = "queued"
          BY <2>1, <2>2, <2>5 DEF Flow
    <3> QED
        BY <3>1 DEF Unsettled
  <2> QED
      BY <2>3, <2>4, <2>5
<1> QED
    BY <1>1, GroupInvariant, PTL

(* The error a group throws is the one that stopped it, a group that       *)
(* returns has every result, and the counts of its pools add up.           *)
THEOREM GroupReportsTruly == Spec => []ReportsAreTrue
<1>1. IInv => ReportsAreTrue
  <2> SUFFICES ASSUME IInv PROVE ReportsAreTrue
      OBVIOUS
  <2>1. TypeOK /\ Flow /\ Errors /\ Ended /\ CountsAgree
        BY DEF IInv
  <2>2. group = "threw" => (verdict = Abort /\ cancelled)
                             \/ (verdict \in Tasks /\ task[verdict] = "failed")
        BY <2>1 DEF Ended, Errors, TypeOK
  <2>3. ASSUME group = "returned", NEW t \in Tasks
        PROVE  task[t] = "fulfilled"
    <3>1. verdict = None /\ ~cancelled
          BY <2>1, <2>3 DEF Ended, Errors
    <3>2. t[1] \in Pools /\ t \in TasksOf(t[1]) /\ t[2] \in 1..Items[t[1]]
          BY TasksOfPools
    <3>3. pool[t[1]] = "returned" /\ ~Stopped(t[1]) /\ cursor[t[1]] = Items[t[1]]
          BY <2>1, <2>3, <3>1, <3>2 DEF Ended, Errors, Stopped
    <3>4. task[t] # "queued"
          BY <2>1, <3>2, <3>3 DEF Flow
    <3>5. task[t] \in Settled /\ t \in observed
          BY <2>1, <3>2, <3>3, <3>4 DEF Flow
    <3> QED
        BY <2>1, <3>3, <3>5 DEF Errors, Settled
  <2>4. group = "returned" => ~cancelled
        BY <2>1 DEF Ended, Errors
  <2> QED
      BY <2>1, <2>2, <2>3, <2>4 DEF ReportsAreTrue, CountsAgree
<1> QED
    BY <1>1, GroupInvariant, PTL

(* Once the group has an error, no pool invokes a worker any more. *)
THEOREM VerdictStopsThePools == Spec => NothingStartsAfterTheVerdict
<1> DEFINE Quiet == verdict # None =>
              \A t \in Tasks : task[t] = "pending" => task'[t] # "running"
<1>1. IInv /\ [Next]_vars => [Quiet]_vars
  <2> SUFFICES ASSUME IInv, Next, verdict # None, NEW u \in Tasks, task[u] = "pending"
               PROVE  task'[u] # "running"
      OBVIOUS
  <2>1. TypeOK /\ Flow /\ Errors
        BY DEF IInv
  <2>2. Stopped(u[1])
    <3>1. u[1] \in Pools /\ u \in TasksOf(u[1]) /\ u[2] \in Nat \ {0}
          BY TasksOfPools
    <3>2. pool[u[1]] = "running"
          BY <2>1, <3>1 DEF Flow, Settled, Rejected, TypeOK
    <3> QED
        BY <2>1, <3>1, <3>2 DEF Errors
  <2>3. ASSUME NEW p \in Pools, StartPool(p) \/ RefusePool(p) \/ EndPool(p) \/ Notice(p)
        PROVE  task'[u] # "running"
        BY <2>1, <2>3 DEF StartPool, RefusePool, EndPool, Notice, Take, TypeOK, poolVars
  <2>4. ASSUME NEW t \in Tasks, Invoke(t)
        PROVE  task'[u] # "running"
        BY <2>1, <2>2, <2>4 DEF Invoke, MayInvoke, TypeOK
  <2>5. ASSUME NEW t \in Tasks, Settle(t) \/ Observe(t)
        PROVE  task'[u] # "running"
        BY <2>1, <2>5 DEF Settle, Observe, Take, TypeOK, ByWorker
  <2>6. CASE EndGroup \/ Cancel \/ Done
        BY <2>6 DEF EndGroup, Cancel, Done, vars, poolVars
  <2> QED
      BY <2>3, <2>4, <2>5, <2>6 DEF Next, Continue
<1> QED
    BY <1>1, GroupInvariant, PTL DEF Spec, NothingStartsAfterTheVerdict

------------------------------------------------------------------------------
(* The process from its start to its exit: what is open and held when it   *)
(* ends.                                                                   *)

(* What keeps the steps in order: the guard is registered as long as the   *)
(* refresh runs, a row that no refresh of this process holds could not be  *)
(* deleted, and the shutdown closes the server before it finishes.         *)
Order ==
  /\ registry <=> refreshing # "no"
  /\ refreshing = "no" /\ lease = "ours" => releaseFailed
  /\ server # "listening" => shuttingDown
  /\ shuttingDown => timer = "cleared"
  /\ callback = "waiting" => server = "closed"
  /\ server = "closed" => connections = 0
  /\ database = "closed" => exit # "running"

ProcessInv ==
  /\ ProcessTypeOK
  /\ Order
  /\ DatabaseOutlivesItsUsers
  /\ CleanExitLeavesNothing

LEMMA InitialOrder == ProcessInit => ProcessInv
<1> SUFFICES ASSUME ProcessInit
             PROVE  ProcessInv
    OBVIOUS
<1>1. ProcessTypeOK
  <2>1. connections \in 0..MaxConnections
        BY ConnectionsAssumption DEF ProcessInit
  <2>2. registry \in BOOLEAN /\ releaseFailed \in BOOLEAN /\ shuttingDown \in BOOLEAN
        BY Zenon DEF ProcessInit
  <2>3. refreshing \in {"no", "running", "cancelled"} /\ lease \in {"free", "ours", "theirs"}
        BY DEF ProcessInit
  <2> QED
      BY <2>1, <2>2, <2>3 DEF ProcessInit, ProcessTypeOK
<1>2. Order
      BY DEF ProcessInit, Order
<1>3. DatabaseOutlivesItsUsers /\ CleanExitLeavesNothing
      BY DEF ProcessInit, DatabaseOutlivesItsUsers, CleanExitLeavesNothing
<1> QED
    BY <1>1, <1>2, <1>3 DEF ProcessInv

(* Each callback keeps the order.  Only RefreshDone closes the database or *)
(* exits with code 0, and it needs the refresh and the server to be over.  *)
LEMMA OrderKept == ProcessInv /\ [ProcessNext]_processVars => ProcessInv'
<1> SUFFICES ASSUME ProcessInv, [ProcessNext]_processVars
             PROVE  ProcessInv'
    OBVIOUS
<1> USE ConnectionsAssumption
<1> USE DEF ProcessInv, ProcessTypeOK, Order, DatabaseOutlivesItsUsers, CleanExitLeavesNothing, Running,
            refreshVars, serverVars, shutdownVars
<1>1. CASE StartRefresh
      BY <1>1 DEF StartRefresh
<1>2. CASE RefuseRefresh
      BY <1>2 DEF RefuseRefresh
<1>3. CASE LeaseElsewhere
      BY <1>3 DEF LeaseElsewhere
<1>4. CASE SettleRefresh
  <2>1. PICK failed \in BOOLEAN : ReleaseOwn(failed) /\ releaseFailed' = failed
        BY <1>4 DEF SettleRefresh
  <2>2. releaseFailed' \in BOOLEAN /\ registry' \in BOOLEAN
        BY <1>4, <2>1, Zenon DEF SettleRefresh
  <2>3. lease' \in {"free", "ours", "theirs"} /\ (lease' = "ours" => releaseFailed')
        BY <2>1 DEF ReleaseOwn
  <2> QED
      BY <1>4, <2>2, <2>3 DEF SettleRefresh
<1>5. CASE Connect
      BY <1>5 DEF Connect
<1>6. CASE Disconnect
      BY <1>6 DEF Disconnect
<1>7. ASSUME NEW s \in Signals, FirstSignal(s)
      PROVE  ProcessInv'
      BY <1>7 DEF FirstSignal, ClearRefreshTimer, Signals
<1>8. ASSUME NEW s \in Signals, SecondSignal(s)
      PROVE  ProcessInv'
      BY <1>8 DEF SecondSignal, Terminate
<1>9. ASSUME NEW s \in Signals, RepeatedSignal(s)
      PROVE  ProcessInv'
      BY <1>9 DEF RepeatedSignal, Terminate
<1>10. CASE ServerClosed
      BY <1>10 DEF ServerClosed, CloseCode, LimitGoesOn
<1>11. CASE RefreshDone
  <2>1. refreshing = "no" /\ ~registry /\ connections = 0
        BY <1>11 DEF RefreshDone, RefreshAwaited
  <2>2. PICK failed \in BOOLEAN :
          lease' = lease /\ ~failed /\ Finish(IF failed THEN "error" ELSE code)
        BY <1>11, <2>1 DEF RefreshDone
  <2>3. /\ force' = "cancelled"
        /\ \/ database' = "closed" /\ exit' \in {"error", "clean"}
           \/ database' = database /\ exit' = "error"
        BY <2>2 DEF Finish, Terminate
  <2>4. registry' = FALSE /\ callback' = "settled"
        BY <1>11 DEF RefreshDone
  <2>5. UNCHANGED <<refreshing, releaseFailed, server, connections, timer, handlers,
                    shuttingDown, code>>
        BY <1>11 DEF RefreshDone
  <2>6. ProcessTypeOK'
        BY <2>2, <2>3, <2>4, <2>5
  <2> QED
      BY <2>1, <2>2, <2>3, <2>4, <2>5, <2>6
<1>12. CASE ForceExit
      BY <1>12 DEF ForceExit, Terminate
<1>13. CASE Exited \/ UNCHANGED processVars
      BY <1>13 DEF Exited, processVars
<1> QED
    BY <1>1, <1>2, <1>3, <1>4, <1>5, <1>6, <1>7, <1>8, <1>9, <1>10, <1>11, <1>12, <1>13
    DEF ProcessNext

(* The invariant behind the properties, in every reachable state. *)
THEOREM ShutdownInvariant == ProcessSpec => []ProcessInv
<1>1. ProcessInit => ProcessInv
      BY InitialOrder
<1>2. ProcessInv /\ [ProcessNext]_processVars => ProcessInv'
      BY OrderKept
<1> QED
    BY <1>1, <1>2, PTL DEF ProcessSpec

(* Every variable keeps its type: the exit codes and the modes of the      *)
(* shutdown are the ones the code has.                                     *)
THEOREM ShutdownTypeCorrect == ProcessSpec => []ProcessTypeOK
  BY ShutdownInvariant, PTL DEF ProcessInv

(* The database is closed only when no refresh and no connection uses it,  *)
(* whichever of them ends last (closeServer, waitForRefresh, finish).      *)
THEOREM DatabaseClosesLast == ProcessSpec => []DatabaseOutlivesItsUsers
  BY ShutdownInvariant, PTL DEF ProcessInv

(* A process that exits with code 0 has closed the database and left no    *)
(* lease row that it did not try to delete.                                *)
THEOREM CleanExits == ProcessSpec => []CleanExitLeavesNothing
  BY ShutdownInvariant, PTL DEF ProcessInv

(* The shutdown never gives the lease away under a refresh that is still   *)
(* unwinding: only the refresh itself or another process ends it.          *)
THEOREM LeaseIsKept == ProcessSpec => LeaseOutlivesRefresh
<1> DEFINE Kept == refreshing # "no" /\ lease = "ours" /\ lease' = "free"
                     => refreshing' = "no"
<1>1. ProcessInv /\ [ProcessNext]_processVars => [Kept]_processVars
  <2> SUFFICES ASSUME ProcessInv, ProcessNext
               PROVE  Kept
      OBVIOUS
  <2> USE DEF Kept, refreshVars, serverVars, shutdownVars, processVars
  <2>1. CASE StartRefresh \/ RefuseRefresh \/ LeaseElsewhere \/ SettleRefresh
        BY <2>1 DEF StartRefresh, RefuseRefresh, LeaseElsewhere, SettleRefresh
  <2>2. CASE Connect \/ Disconnect \/ ServerClosed \/ ForceExit \/ Exited
        BY <2>2 DEF Connect, Disconnect, ServerClosed, ForceExit, Exited
  <2>3. CASE \E s \in Signals : FirstSignal(s) \/ SecondSignal(s) \/ RepeatedSignal(s)
        BY <2>3 DEF FirstSignal, SecondSignal, RepeatedSignal
  <2>4. CASE RefreshDone
        BY <2>4 DEF RefreshDone, RefreshAwaited
  <2> QED
      BY <2>1, <2>2, <2>3, <2>4 DEF ProcessNext
<1> QED
    BY <1>1, ShutdownInvariant, PTL DEF ProcessSpec, LeaseOutlivesRefresh

(* After the first signal no refresh starts any more. *)
THEOREM SignalsEndRefreshes == ProcessSpec => NoRefreshAfterSignal
<1> DEFINE Over == shuttingDown /\ refreshing = "no" => refreshing' = "no"
<1>1. ProcessInv /\ [ProcessNext]_processVars => [Over]_processVars
  <2> SUFFICES ASSUME ProcessInv, ProcessNext
               PROVE  Over
      OBVIOUS
  <2> USE DEF Over, refreshVars, serverVars, shutdownVars, processVars
  <2>1. CASE StartRefresh \/ RefuseRefresh \/ LeaseElsewhere \/ SettleRefresh
        BY <2>1 DEF StartRefresh, RefuseRefresh, LeaseElsewhere, SettleRefresh, ProcessInv, Order
  <2>2. CASE Connect \/ Disconnect \/ ServerClosed \/ RefreshDone \/ ForceExit \/ Exited
        BY <2>2 DEF Connect, Disconnect, ServerClosed, RefreshDone, ForceExit, Exited
  <2>3. CASE \E s \in Signals : FirstSignal(s) \/ SecondSignal(s) \/ RepeatedSignal(s)
        BY <2>3 DEF FirstSignal, SecondSignal, RepeatedSignal
  <2> QED
      BY <2>1, <2>2, <2>3 DEF ProcessNext
<1> QED
    BY <1>1, ShutdownInvariant, PTL DEF ProcessSpec, NoRefreshAfterSignal
================================================================================
