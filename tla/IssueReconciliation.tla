------------------------ MODULE IssueReconciliation ------------------------
(***************************************************************************)
(* reconcileIssueCommentSnapshots (src/lib/refresh.ts): it brings the      *)
(* stored evidence and classification of some issues up to what GitHub     *)
(* shows, while the issues are edited.  The classifier (src/lib/llm.ts)    *)
(* asks an LLM, retries, and records every attempt in a ledger that has    *)
(* rules of its own (src/lib/classifierAttemptLedger.ts, src/lib/db.ts).   *)
(*                                                                         *)
(* A step is a callback: the reads of GitHub that settle, an answer of the *)
(* LLM, a transaction.  An issue is its version; a read returns a version  *)
(* that the issue had while the read was under way.                        *)
(***************************************************************************)
EXTENDS Naturals, Sequences, FiniteSets

CONSTANTS
  Issues,        \* the issue numbers of the call
  MaxEdits,      \* bound: the number of edits
  MaxAttempts,   \* config.openai.maxAttempts
  MaxReads,      \* maxAttempts of fetchReconciledIssueEvidence
  Concurrency,   \* classificationConcurrency
  None           \* no value

ASSUME BoundsAssumption ==
  /\ MaxEdits \in Nat
  /\ MaxAttempts \in Nat \ {0} /\ MaxReads \in Nat \ {0} /\ Concurrency \in Nat \ {0}

VARIABLES
  remote,     \* the version of each issue on GitHub
  edits,      \* the number of edits, which numbers the versions
  row,        \* the stored evidence of each issue: the version of each part
  class,      \* the version its stored classification was made for, or None
  cancelled,  \* the signal of the caller
  caller,     \* which call of reconcileIssueCommentSnapshots this is
  pc,
  seen,       \* the versions of each issue since the reads under way began
  snap,       \* the first comment snapshots
  evidence,   \* what fetchReconciledIssueEvidence has accepted, or None
  targets,    \* classificationTargets
  pending,    \* issues whose evidence is still to be read
  reads,      \* the number of the attempt to read it
  job,        \* the classification of each issue
  attempts,   \* the attempts it has recorded, while it works
  receipt,    \* its terminal receipt, or None
  written     \* history: the issues whose classification this call stored

store == <<row, class, written>>
world == <<remote, edits, cancelled>>
crawl == <<caller, seen, snap, evidence, targets, pending, reads>>
jobs  == <<job, attempts, receipt>>
vars  == <<store, world, crawl, jobs, pc>>

Versions == 0..MaxEdits
Parts == {"issue", "comments", "labels", "state"}
Stored == [Parts -> Versions \cup {None}]

(* ClassifierAttempt: `request' counts the request bodies that were tried, *)
(* `codes' says that every diagnostic is a correctable one.                *)
Attempts ==
  [status : {"transport_failure", "semantic_rejection", "accepted_success"},
   decision : {"retry", "stop"}, retryable : BOOLEAN,
   reason : {"accepted_success", "caller_aborted", "attempt_budget_exhausted",
             "retryable_transport_failure", "non_retryable_transport_failure",
             "retryable_semantic_rejection", "deterministic_semantic_rejection",
             "semantic_retry_preparation_failed"},
   codes : BOOLEAN, request : Nat]

Working == {"asking", "waiting", "accepting", "abandoning", "failing"}
Settled == {"accepted", "abandoned", "reported", "failed", "refused", "invalid"}
Receipts == {"accepted_success", "abandoned", "terminal_failure"}
Outcomes == {"done", "failed", "threw"}

ASSUME NoneAssumption ==
  None \notin Versions /\ None \notin [Parts -> Versions] /\ None \notin Receipts

TypeOK ==
  /\ remote \in [Issues -> Versions] /\ edits \in Versions
  /\ seen \in [Issues -> SUBSET Versions]
  /\ row \in [Issues -> Stored] /\ class \in [Issues -> Versions \cup {None}]
  /\ written \subseteq Issues /\ cancelled \in BOOLEAN
  /\ caller \in {"page", "dependencies"}
  /\ pc \in {"snapshots", "begin", "evidence", "classify", "check"} \cup Outcomes
  /\ snap \in [Issues -> Versions \cup {None}]
  /\ evidence \in [Issues -> [Parts -> Versions] \cup {None}]
  /\ targets \subseteq Issues /\ pending \subseteq Issues /\ reads \in 1..MaxReads
  /\ job \in [Issues -> {"queued"} \cup Working \cup Settled]
  /\ attempts \in [Issues -> Seq(Attempts)]
  /\ receipt \in [Issues -> Receipts \cup {None}]

(* What the file may hold of an issue: nothing, all of it, or what versions  *)
(* before the state event snapshots left.  A classification that is out of   *)
(* date (of another prompt, say) is that of an issue that is edited at once. *)
Nothing == [q \in Parts |-> None]
Whole(v) == [q \in Parts |-> v]
Stateless(v) == [Whole(v) EXCEPT !["state"] = None]

(* Reads begin, or have ended. *)
Now == [i \in Issues |-> {remote[i]}]
Away == [i \in Issues |-> {}]

Init ==
  /\ remote = [i \in Issues |-> 0] /\ edits = 0 /\ seen = Now
  /\ row \in [Issues -> {Nothing, Whole(0), Stateless(0)}]
  /\ class \in [Issues -> {None, 0}]
  /\ \A i \in Issues : row[i] = Nothing <=> class[i] = None
  /\ cancelled = FALSE
  /\ caller \in {"page", "dependencies"}
  /\ pc = "snapshots"
  /\ snap = [i \in Issues |-> None] /\ evidence = [i \in Issues |-> None]
  /\ targets = {} /\ pending = {} /\ reads = 1
  /\ job = [i \in Issues |-> "queued"]
  /\ attempts = [i \in Issues |-> <<>>]
  /\ receipt = [i \in Issues |-> None]
  /\ written = {}

Over == pc \in Outcomes

------------------------------------------------------------------------------
(* Snapshots and evidence.                                                    *)

(* The page loop forces the classification of all its issues. *)
ReadSnapshots ==
  /\ pc = "snapshots"
  /\ \E got \in [Issues -> Versions] :
       /\ \A i \in Issues : got[i] \in seen[i]
       /\ snap' = got
       /\ targets' = IF caller = "page" THEN Issues
                     ELSE {i \in Issues : class[i] # got[i]}
       /\ pending' = targets' \cup {i \in Issues : \/ row[i]["issue"] # got[i]
                                                   \/ row[i]["state"] # got[i]}
       /\ pc' = IF pending' = {} THEN "classify" ELSE "begin"
  /\ seen' = Away
  /\ UNCHANGED <<store, world, jobs, caller, evidence, reads>>

BeginReads ==
  /\ pc = "begin"
  /\ IF cancelled THEN pc' = "threw" /\ UNCHANGED seen
                  ELSE pc' = "evidence" /\ seen' = Now
  /\ UNCHANGED <<store, world, jobs, caller, snap, evidence, targets, pending, reads>>

(* Mutant: an attempt that failed is not counted. *)
AgainUncounted == pc' = "begin" /\ UNCHANGED reads
Again == IF reads < MaxReads THEN pc' = "begin" /\ reads' = reads + 1
                             ELSE pc' = "threw" /\ UNCHANGED reads

(* reconciledIssueEvidenceIdentityMatches: what four requests returned. *)
Matches(e) == \A q \in Parts : e[q] = e["issue"]

(* The four requests return; those issues are `there' that all of them found. *)
ReadEvidence ==
  /\ pc = "evidence"
  /\ \E there \in SUBSET pending : \E got \in [there -> [Parts -> Versions]] :
       /\ \A i \in there, q \in Parts : got[i][q] \in seen[i]
       /\ LET stable == {i \in there : Matches(got[i])}
          IN /\ evidence' = [i \in Issues |-> IF i \in stable THEN got[i] ELSE evidence[i]]
             /\ pending' = pending \ stable
       /\ IF pending' = {} THEN pc' = "classify" /\ UNCHANGED reads ELSE Again
  /\ seen' = Away
  /\ UNCHANGED <<store, world, jobs, caller, snap, targets>>

(* A request fails, or the signal aborts the requests. *)
ReadFails ==
  /\ pc = "evidence"
  /\ Again
  /\ seen' = Away
  /\ UNCHANGED <<store, world, jobs, caller, snap, evidence, targets, pending>>

SnapshotsFail ==
  /\ pc = "snapshots"
  /\ pc' = "threw"
  /\ UNCHANGED <<store, world, crawl, jobs>>

------------------------------------------------------------------------------
(* The attempts of the classifier, and what the ledger accepts.               *)

Last(l) == l[Len(l)]

(* isEligibleClassifierGroundingSemanticRetry *)
Eligible(a) == a.status = "semantic_rejection" /\ a.decision = "retry" /\ a.codes

(* classifierAttemptProblems *)
ValidAttempt(a) ==
  /\ a.decision = "retry" => a.retryable
  /\ a.status = "accepted_success" => a.decision = "stop" /\ ~a.retryable
  /\ (a.reason = "retryable_semantic_rejection")
       <=> (a.status = "semantic_rejection" /\ a.decision = "retry")
  /\ a.status = "semantic_rejection" /\ a.retryable =>
       a.codes /\ (a.decision = "stop" => a.reason = "attempt_budget_exhausted")

(* classifierAttemptChainProblems, and once more classifierAttemptPrefixProblems *)
ValidPrefix(l) ==
  /\ Len(l) <= MaxAttempts
  /\ \A n \in 1..Len(l) :
       /\ ValidAttempt(l[n])
       /\ n < Len(l) => l[n].decision = "retry"
       /\ l[n].decision = "retry" => n < MaxAttempts
       /\ l[n].retryable /\ l[n].reason = "attempt_budget_exhausted"
            => l[n].decision = "stop" /\ n = MaxAttempts
       /\ IF n = 1 THEN l[n].request = 0
          ELSE (l[n].request # l[n - 1].request) <=> Eligible(l[n - 1])

(* classifierTerminalSemanticProblems *)
FitsReceipt(status, l) ==
  IF status = "accepted_success"
  THEN l # <<>> /\ Last(l).status = "accepted_success"
  ELSE /\ \A n \in 1..Len(l) : l[n].status # "accepted_success"
       /\ status = "terminal_failure" /\ l # <<>> => Last(l).decision = "stop"

Active == {i \in Issues : job[i] \in Working}

(* mapWithConcurrency stops at the first error that is not an abort. *)
Failed == \E i \in Issues : job[i] \in {"failed", "refused", "invalid"}
Aborted == cancelled \/ Failed

Become(i, state) == job' = [job EXCEPT ![i] = state]

(* The attempts leave the memory of the classifier; the ledger keeps them. *)
Forget(i) == attempts' = [attempts EXCEPT ![i] = <<>>]

(* recordClassifierAttemptRun; without a key for the LLM nothing is asked. *)
StartJob(i) ==
  /\ pc = "classify" /\ i \in targets /\ job[i] = "queued"
  /\ ~Aborted /\ Cardinality(Active) < Concurrency
  /\ Become(i, "waiting") \/ Become(i, "failing") \/ Become(i, "refused")
  /\ UNCHANGED <<store, world, crawl, attempts, receipt, pc>>

(* appendAttempt: the ledger refuses it, the storage fails, or it is recorded. *)
Record(i, a, next) ==
  /\ job[i] = "asking"
  /\ \/ /\ ValidPrefix(Append(attempts[i], a))
        /\ attempts' = [attempts EXCEPT ![i] = Append(@, a)]
        /\ Become(i, next)
     \/ /\ ~ValidPrefix(Append(attempts[i], a))
        /\ Become(i, "invalid") /\ Forget(i)
     \/ Become(i, "refused") /\ Forget(i)
  /\ UNCHANGED <<store, world, crawl, receipt, pc>>

(* The request body changes with the feedback of a semantic retry. *)
Request(l) ==
  IF l = <<>> THEN 0
  ELSE IF Eligible(Last(l)) THEN Last(l).request + 1 ELSE Last(l).request

Attempt(i, status, decision, retryable, reason, codes) ==
  [status |-> status, decision |-> decision, retryable |-> retryable,
   reason |-> reason, codes |-> codes, request |-> Request(attempts[i])]

(* Mutant: the attempt under way is not counted. *)
AttemptsRemainOffByOne(l) == Len(l) < MaxAttempts
(* hasOpenAIAttemptsRemaining, while an attempt is under way. *)
AttemptsRemain(l) == Len(l) + 1 < MaxAttempts

TransportFailure(i) ==
  \/ /\ AttemptsRemain(attempts[i])
     /\ Record(i, Attempt(i, "transport_failure", "retry", TRUE,
                          "retryable_transport_failure", FALSE), "waiting")
  \/ /\ ~AttemptsRemain(attempts[i])
     /\ Record(i, Attempt(i, "transport_failure", "stop", TRUE,
                          "attempt_budget_exhausted", FALSE), "failing")
  \/ Record(i, Attempt(i, "transport_failure", "stop", FALSE,
                       "non_retryable_transport_failure", FALSE), "failing")

AbortRequest(i) ==
  /\ Aborted
  /\ Record(i, Attempt(i, "transport_failure", "stop", FALSE, "caller_aborted", FALSE),
            "abandoning")

Accept(i) ==
  Record(i, Attempt(i, "accepted_success", "stop", FALSE, "accepted_success", FALSE),
         "accepting")

(* An answer that is no classification.  A correctable one is retried with   *)
(* feedback; preparing the feedback may fail.  A diagnostic whose message is *)
(* too long for feedback is not retried, whatever its code.                  *)
Reject(i) ==
  \/ /\ Aborted
     /\ Record(i, Attempt(i, "semantic_rejection", "stop", FALSE, "caller_aborted", FALSE),
               "abandoning")
  \/ /\ ~Aborted /\ AttemptsRemain(attempts[i])
     /\ \/ Record(i, Attempt(i, "semantic_rejection", "retry", TRUE,
                             "retryable_semantic_rejection", TRUE), "waiting")
        \/ Record(i, Attempt(i, "semantic_rejection", "stop", FALSE,
                             "semantic_retry_preparation_failed", TRUE), "failing")
  \/ /\ ~Aborted /\ ~AttemptsRemain(attempts[i])
     /\ Record(i, Attempt(i, "semantic_rejection", "stop", TRUE,
                          "attempt_budget_exhausted", TRUE), "failing")
  \/ /\ ~Aborted
     /\ \E codes \in BOOLEAN :
          Record(i, Attempt(i, "semantic_rejection", "stop", FALSE,
                            "deterministic_semantic_rejection", codes), "failing")

(* The next request is due, after its delay or at once, or the signal ended it. *)
Resume(i) ==
  /\ job[i] = "waiting"
  /\ Become(i, IF Aborted THEN "abandoning" ELSE "asking")
  /\ UNCHANGED <<store, world, crawl, attempts, receipt, pc>>

(* accumulableClassifierGroundingFailure, in a call that accumulates. *)
Accumulable(i) ==
  /\ caller = "page" /\ attempts[i] # <<>>
  /\ Last(attempts[i]).status = "semantic_rejection" /\ Last(attempts[i]).codes
  /\ Last(attempts[i]).reason \in {"deterministic_semantic_rejection",
                              "attempt_budget_exhausted"}

(* finalizeLedger, and what the worker makes of its result. *)
Finalize(i, from, status, next) ==
  /\ job[i] = from
  /\ \/ /\ FitsReceipt(status, attempts[i])
        /\ receipt' = [receipt EXCEPT ![i] = status]
        /\ Become(i, next)
     \/ /\ ~FitsReceipt(status, attempts[i])
        /\ Become(i, "invalid") /\ UNCHANGED receipt
     \/ Become(i, "refused") /\ UNCHANGED receipt
  /\ Forget(i)
  /\ UNCHANGED <<store, world, crawl, pc>>

FinalizeJob(i) ==
  \/ Finalize(i, "accepting", "accepted_success", "accepted")
  \/ Finalize(i, "abandoning", "abandoned", "abandoned")
  \/ Finalize(i, "failing", "terminal_failure",
              IF Accumulable(i) THEN "reported" ELSE "failed")

------------------------------------------------------------------------------
(* The transaction that stores what is complete.                              *)

(* The snapshots that the call returns. *)
Latest(i) == IF evidence[i] = None THEN snap[i] ELSE evidence[i]["comments"]

Drained ==
  /\ pc = "classify" /\ Active = {}
  /\ \A i \in targets : job[i] = "queued" => Aborted

Staged == {i \in targets : job[i] = "accepted"}
Persistable == (Issues \ targets) \cup Staged

Return == pc' = CASE Failed -> "failed"
                  [] ~Failed /\ caller = "dependencies" -> "check"
                  [] OTHER -> "done"

(* persistReconciledIssueEvidence; an issue that was current keeps its rows,  *)
(* but for the comment snapshot.                                              *)
Store ==
  /\ row' = [i \in Issues |->
               CASE i \notin Persistable -> row[i]
                 [] i \in Persistable /\ evidence[i] # None -> evidence[i]
                 [] OTHER -> [row[i] EXCEPT !["comments"] = snap[i]]]
  /\ class' = [i \in Issues |-> IF i \in Staged THEN Latest(i) ELSE class[i]]
  /\ written' = Staged

(* Mutant: a failed classification is thrown at once. *)
PersistOnlySuccess ==
  /\ Drained /\ ~cancelled
  /\ IF Persistable = {} \/ Failed THEN UNCHANGED store ELSE Store
  /\ Return
  /\ UNCHANGED <<world, crawl, jobs>>

(* A failed classification of one issue is thrown after the others are stored. *)
Persist ==
  /\ Drained /\ ~cancelled
  /\ IF Persistable = {} THEN UNCHANGED store ELSE Store
  /\ Return
  /\ UNCHANGED <<world, crawl, jobs>>

(* The signal, a lost lease (assertCanWrite), rows that another writer has   *)
(* changed (assertIssueEvidenceRevisions) or the database refuses.           *)
PersistRefused ==
  /\ Drained
  /\ cancelled \/ Persistable # {}
  /\ pc' = "threw"
  /\ UNCHANGED <<store, world, crawl, jobs>>

(* Mutant: the caller trusts the call. *)
CheckNothing ==
  /\ pc = "check"
  /\ pc' = "done"
  /\ UNCHANGED <<store, world, crawl, jobs>>

(* missingCurrentClassifications, of the call for closure dependencies. *)
CheckCurrent ==
  /\ pc = "check"
  /\ pc' = IF \A i \in Issues : class[i] = Latest(i) THEN "done" ELSE "threw"
  /\ UNCHANGED <<store, world, crawl, jobs>>

------------------------------------------------------------------------------
(* The rest of the world.                                                     *)

(* An issue is edited on GitHub; after the last read it makes no difference. *)
Edit(i) ==
  /\ pc \in {"snapshots", "begin", "evidence"} /\ edits < MaxEdits
  /\ edits' = edits + 1
  /\ remote' = [remote EXCEPT ![i] = edits + 1]
  /\ seen' = IF pc = "begin" THEN seen ELSE [seen EXCEPT ![i] = @ \cup {edits + 1}]
  /\ UNCHANGED <<store, cancelled, caller, snap, evidence, targets, pending, reads, jobs, pc>>

Cancel ==
  /\ ~Over /\ ~cancelled
  /\ cancelled' = TRUE
  /\ UNCHANGED <<store, remote, edits, crawl, jobs, pc>>

Finished == Over /\ UNCHANGED vars

Classify(i) ==
  /\ pc = "classify"
  /\ \/ StartJob(i) \/ TransportFailure(i) \/ AbortRequest(i) \/ Accept(i) \/ Reject(i)
     \/ Resume(i) \/ FinalizeJob(i)

Reconcile ==
  \/ ReadSnapshots \/ SnapshotsFail \/ BeginReads \/ ReadEvidence \/ ReadFails
  \/ \E i \in Issues : Classify(i)
  \/ Persist \/ PersistRefused \/ CheckCurrent

Next ==
  \/ Reconcile
  \/ \E i \in Issues : Edit(i)
  \/ Cancel
  \/ Finished

Spec == Init /\ [][Next]_vars

(* Requests and delays have time limits, and callbacks that are due run. *)
FairSpec == Spec /\ WF_vars(Reconcile)

------------------------------------------------------------------------------
(* Properties.                                                                *)

(* The retry loop of llm.ts and the rules of the ledger are written apart:    *)
(* the ledger never refuses an attempt or a receipt of the classifier, also   *)
(* when a sibling fails or the refresh is cancelled in the middle of a retry. *)
LedgerAcceptsAttempts == \A i \in Issues : job[i] # "invalid"

(* What is stored of an issue is of one version, although four requests read  *)
(* it while it is edited.  Every classification that was accepted, and paid   *)
(* for, is stored with the evidence it was made from, also when that of       *)
(* another issue fails; and none is stored without an accepted receipt.       *)
AcceptedWorkIsKept ==
  /\ \A i \in Issues : \A q \in Parts : row[i][q] \in {row[i]["issue"], None}
  /\ pc \in {"done", "failed", "check"} =>
       /\ written = {i \in Issues : receipt[i] = "accepted_success"}
       /\ \A i \in written : row[i] = evidence[i] /\ class[i] = evidence[i]["comments"]

(* A call that succeeds leaves each of its issues, but those it reports, with *)
(* complete evidence and a classification of the same version.                *)
SuccessMeansCurrent ==
  pc = "done" => \A i \in Issues : job[i] # "reported" => row[i] = Whole(class[i])

(* Whatever fails, is edited, aborted or refused, the call ends. *)
EveryReconciliationEnds == <>Over

==============================================================================
