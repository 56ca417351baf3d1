--------------------- MODULE IssueReconciliation_proof ---------------------
(***************************************************************************)
(* Proofs about IssueReconciliation, for every set of issues, any number   *)
(* of edits, attempts and rounds of reads.  The inductive invariant says   *)
(* what a chain of attempts may still become (Chains), what the state of a *)
(* classification implies for the call (Work), that an issue is either     *)
(* current, still to be read, or has evidence of one version (Progress),   *)
(* and how rows look in the file (Rows).                                   *)
(***************************************************************************)
EXTENDS IssueReconciliation, TLAPS

(* What the attempts of an issue are while its classification is in a state. *)
Chain(state, l) ==
  /\ state \in Working => ValidPrefix(l)
  /\ state \in {"asking", "waiting"} => l = <<>> \/ Last(l).decision = "retry"
  /\ state = "accepting" => l # <<>> /\ Last(l).status = "accepted_success"
  /\ state \in {"abandoning", "failing"} =>
       l = <<>> \/ Last(l).status # "accepted_success"
  /\ state = "failing" => l = <<>> \/ Last(l).decision = "stop"
  /\ state \notin Working => l = <<>>

Chains == \A i \in Issues : Chain(job[i], attempts[i])

Reading == {"snapshots", "begin", "evidence"}

Work ==
  \A i \in Issues :
    /\ job[i] # "invalid"
    /\ receipt[i] = "accepted_success" <=> job[i] = "accepted"
    /\ job[i] # "queued" => i \in targets /\ pc \notin Reading
    /\ job[i] \in Working => pc = "classify"
    /\ job[i] \in {"abandoning", "abandoned"} => Aborted
    /\ job[i] = "reported" => caller = "page"

Progress ==
  /\ \A i \in Issues : evidence[i] # None => evidence[i] = Whole(evidence[i]["issue"])
  /\ pc # "snapshots" /\ pc # "threw" => snap \in [Issues -> Versions]
  /\ pc \notin {"snapshots", "threw"} =>
       \A i \in Issues :
         \/ evidence[i] # None
         \/ i \in pending
         \/ i \notin targets /\ row[i]["issue"] = snap[i] /\ row[i]["state"] = snap[i]
  /\ pc \in {"classify", "check", "done", "failed"} => pending = {}
  /\ pc \notin {"snapshots", "threw"} /\ caller = "page" => targets = Issues
  /\ pc = "snapshots" => targets = {}
  /\ pc \in Reading \cup {"classify"} => written = {}

Rows ==
  \A i \in Issues :
    /\ row[i]["comments"] = row[i]["issue"] /\ row[i]["labels"] = row[i]["issue"]
    /\ row[i]["state"] \in {row[i]["issue"], None}

(* What the transaction has stored. *)
Kept ==
  /\ pc \in {"done", "failed", "check"} =>
       /\ written = {i \in Issues : job[i] = "accepted"}
       /\ \A i \in written : row[i] = evidence[i] /\ class[i] = evidence[i]["comments"]
  /\ pc = "check" => \A i \in Issues : row[i] = Whole(Latest(i))

IInv ==
  /\ TypeOK
  /\ Chains
  /\ Work
  /\ Progress
  /\ Rows
  /\ Kept
  /\ SuccessMeansCurrent

LEMMA InitIInv == Init => IInv
<1> SUFFICES ASSUME Init PROVE IInv OBVIOUS
<1> USE BoundsAssumption, NoneAssumption
<1>1. TypeOK
  <2>1. \A i \in Issues : row[i] \in Stored
    BY DEF Init, Nothing, Whole, Stateless, Stored, Versions
  <2>2. row \in [Issues -> Stored]
    BY <2>1 DEF Init
  <2>3. <<>> \in Seq(Attempts) OBVIOUS
  <2>4. attempts \in [Issues -> Seq(Attempts)] BY <2>3 DEF Init
  <2>5. 0 \in Versions BY DEF Versions
  <2>6. seen \in [Issues -> SUBSET Versions] BY <2>5 DEF Init, Now
  <2>7. class \in [Issues -> Versions \cup {None}] BY <2>5 DEF Init
  <2>8. remote \in [Issues -> Versions] /\ edits \in Versions BY <2>5 DEF Init
  <2>9. written \subseteq Issues /\ targets \subseteq Issues /\ pending \subseteq Issues
        /\ reads \in 1..MaxReads
    BY DEF Init
  <2>10. cancelled \in BOOLEAN BY ZenonT(10) DEF Init
  <2>11. /\ snap \in [Issues -> Versions \cup {None}]
         /\ evidence \in [Issues -> [Parts -> Versions] \cup {None}]
         /\ job \in [Issues -> {"queued"} \cup Working \cup Settled]
         /\ receipt \in [Issues -> Receipts \cup {None}]
    BY DEF Init
  <2>12. caller \in {"page", "dependencies"} /\ pc = "snapshots" BY DEF Init
  <2>13. QED BY <2>2, <2>4, <2>6, <2>7, <2>8, <2>9, <2>10, <2>11, <2>12 DEF TypeOK
<1>2. Chains BY DEF Init, Chains, Chain, Working
<1>3. Work BY DEF Init, Work, Working, Receipts
<1>4. Progress BY DEF Init, Progress, Reading
<1>5. Rows BY DEF Init, Rows, Nothing, Whole, Stateless, Parts
<1>6. Kept /\ SuccessMeansCurrent BY DEF Init, Kept, SuccessMeansCurrent
<1>7. QED BY <1>1, <1>2, <1>3, <1>4, <1>5, <1>6 DEF IInv

------------------------------------------------------------------------------
(* The attempts.                                                              *)

(* What the classifier has to see to for its next attempt to be accepted. *)
Continues(l, a) ==
  /\ ValidAttempt(a)
  /\ a.decision = "retry" => Len(l) + 1 < MaxAttempts
  /\ a.retryable /\ a.reason = "attempt_budget_exhausted" =>
       a.decision = "stop" /\ Len(l) + 1 = MaxAttempts
  /\ a.request = Request(l)

(* A valid chain that ends in a retry can be continued so. *)
LEMMA AppendValid ==
  ASSUME NEW l \in Seq(Attempts), NEW a \in Attempts, ValidPrefix(l),
         l = <<>> \/ Last(l).decision = "retry", Continues(l, a)
  PROVE  /\ ValidPrefix(Append(l, a))
         /\ Append(l, a) \in Seq(Attempts)
         /\ Append(l, a) # <<>>
         /\ Last(Append(l, a)) = a
<1> DEFINE m == Append(l, a)
<1> USE BoundsAssumption
<1>1. /\ m \in Seq(Attempts) /\ Len(m) = Len(l) + 1 /\ m[Len(l) + 1] = a
      /\ \A n \in 1..Len(l) : m[n] = l[n]
  OBVIOUS
<1>2. Len(l) \in Nat /\ \A n \in 1..Len(l) : l[n] \in Attempts
  OBVIOUS
<1>3. l # <<>> => Len(l) \in 1..Len(l) /\ Last(l) = l[Len(l)]
  BY DEF Last
<1>4. l # <<>> => Len(l) < MaxAttempts
  BY <1>3 DEF ValidPrefix
<1>5. Len(m) <= MaxAttempts
  <2>1. l = <<>> => Len(l) = 0 OBVIOUS
  <2>2. QED BY <2>1, <1>1, <1>2, <1>4
<1>6. \A n \in 1..Len(m) :
        /\ ValidAttempt(m[n])
        /\ n < Len(m) => m[n].decision = "retry"
        /\ m[n].decision = "retry" => n < MaxAttempts
        /\ m[n].retryable /\ m[n].reason = "attempt_budget_exhausted"
             => m[n].decision = "stop" /\ n = MaxAttempts
  <2> SUFFICES ASSUME NEW n \in 1..Len(m)
               PROVE  /\ ValidAttempt(m[n])
                      /\ n < Len(m) => m[n].decision = "retry"
                      /\ m[n].decision = "retry" => n < MaxAttempts
                      /\ m[n].retryable /\ m[n].reason = "attempt_budget_exhausted"
                           => m[n].decision = "stop" /\ n = MaxAttempts
    OBVIOUS
  <2>1. CASE n = Len(l) + 1
    BY <2>1, <1>1, <1>2 DEF Continues
  <2>2. CASE n \in 1..Len(l)
    <3>1. m[n] = l[n] BY <2>2, <1>1
    <3>2. l[n].decision = "retry"
      <4>1. CASE n < Len(l) BY <4>1, <2>2 DEF ValidPrefix
      <4>2. CASE n = Len(l) BY <4>2, <2>2, <1>3
      <4>3. QED BY <4>1, <4>2, <2>2, <1>2
    <3>3. QED BY <3>1, <3>2, <2>2 DEF ValidPrefix
  <2>3. QED BY <2>1, <2>2, <1>1, <1>2
<1>7. \A n \in 1..Len(m) :
        IF n = 1 THEN m[n].request = 0
        ELSE (m[n].request # m[n - 1].request) <=> Eligible(m[n - 1])
  <2> SUFFICES ASSUME NEW n \in 1..Len(m)
               PROVE  IF n = 1 THEN m[n].request = 0
                      ELSE (m[n].request # m[n - 1].request) <=> Eligible(m[n - 1])
    OBVIOUS
  <2>1. CASE n \in 1..Len(l)
    <3>1. m[n] = l[n] BY <2>1, <1>1
    <3>2. n # 1 => n - 1 \in 1..Len(l) /\ m[n - 1] = l[n - 1] BY <2>1, <1>1, <1>2
    <3>3. QED BY <3>1, <3>2, <2>1 DEF ValidPrefix
  <2>2. CASE n = Len(l) + 1 /\ l = <<>>
    BY <2>2, <1>1 DEF Continues, Request
  <2>3. CASE n = Len(l) + 1 /\ l # <<>>
    <3>1. n # 1 /\ n - 1 = Len(l) /\ n - 1 \in 1..Len(l) BY <2>3, <1>2, <1>3
    <3>2. m[n - 1] = Last(l) BY <3>1, <1>1, <1>3, <2>3
    <3>3. Last(l).request \in Nat BY <1>2, <1>3, <2>3 DEF Attempts
    <3>4. m[n].request = IF Eligible(Last(l)) THEN Last(l).request + 1 ELSE Last(l).request
      BY <2>3, <1>1 DEF Continues, Request
    <3>5. (m[n].request # Last(l).request) <=> Eligible(Last(l))
      BY <3>3, <3>4
    <3>6. QED BY <3>1, <3>2, <3>5
  <2>4. QED BY <2>1, <2>2, <2>3, <1>1, <1>2
<1>8. ValidPrefix(m) BY <1>5, <1>6, <1>7 DEF ValidPrefix
<1>9. m # <<>> /\ Last(m) = a BY <1>1, <1>2 DEF Last
<1>10. QED BY <1>1, <1>8, <1>9

------------------------------------------------------------------------------
(* The steps of one classification.                                           *)

(* One classification moves on, and nothing else. *)
Moves(i, state) ==
  /\ pc = "classify" /\ i \in targets /\ job[i] \in Working \cup {"queued"}
  /\ Become(i, state)
  /\ UNCHANGED <<store, world, crawl, pc>>

LEMMA AbortedForGood ==
  ASSUME TypeOK, NEW i \in Issues, NEW state, Moves(i, state), Aborted
  PROVE  Aborted'
<1>1. \A k \in Issues : k # i => job'[k] = job[k]
  BY DEF TypeOK, Moves, Become
<1>2. job[i] \notin {"failed", "refused", "invalid"}
  BY DEF Moves, Working
<1>3. Failed => Failed' BY <1>1, <1>2 DEF Failed
<1>4. cancelled' = cancelled BY DEF Moves, world
<1>5. CASE Failed BY <1>5, <1>3 DEF Aborted
<1>6. CASE cancelled BY <1>6, <1>4 DEF Aborted
<1>7. QED BY <1>5, <1>6 DEF Aborted

LEMMA OneMoves ==
  ASSUME IInv, NEW i \in Issues, NEW state \in Working \cup Settled, Moves(i, state),
         state # "invalid",
         attempts' \in [Issues -> Seq(Attempts)],
         \A k \in Issues : k # i => attempts'[k] = attempts[k],
         Chain(state, attempts'[i]),
         receipt' \in [Issues -> Receipts \cup {None}],
         \A k \in Issues : k # i => receipt'[k] = receipt[k],
         receipt'[i] = "accepted_success" <=> state = "accepted",
         state \in {"abandoning", "abandoned"} => Aborted,
         state = "reported" => caller = "page"
  PROVE  IInv'
<1> USE DEF IInv
<1>1. job' \in [Issues -> {"queued"} \cup Working \cup Settled]
      /\ job'[i] = state /\ \A k \in Issues : k # i => job'[k] = job[k]
  BY DEF TypeOK, Moves, Become
<1>2. TypeOK'
  BY <1>1 DEF TypeOK, Moves, store, world, crawl, Stored, Versions
<1>3. Chains'
  BY <1>1 DEF Chains, Chain
<1>4. Work'
  <2> SUFFICES ASSUME NEW k \in Issues
               PROVE  /\ job'[k] # "invalid"
                      /\ receipt'[k] = "accepted_success" <=> job'[k] = "accepted"
                      /\ job'[k] # "queued" => k \in targets' /\ pc' \notin Reading
                      /\ job'[k] \in Working => pc' = "classify"
                      /\ job'[k] \in {"abandoning", "abandoned"} => Aborted'
                      /\ job'[k] = "reported" => caller' = "page"
    BY DEF Work
  <2>1. pc' = "classify" /\ targets' = targets /\ caller' = caller
    BY DEF Moves, crawl
  <2>2. Aborted => Aborted' BY AbortedForGood
  <2>3. CASE k = i
    <3>1. job'[k] = state BY <2>3, <1>1
    <3>2. receipt'[k] = "accepted_success" <=> state = "accepted" BY <2>3
    <3>3. k \in targets' /\ pc' \notin Reading BY <2>3, <2>1 DEF Moves, Reading
    <3>4. state \in {"abandoning", "abandoned"} => Aborted' BY <2>2
    <3>5. state = "reported" => caller' = "page" BY <2>1
    <3>6. QED BY <3>1, <3>2, <3>3, <3>4, <3>5, <2>1
  <2>4. CASE k # i
    <3>1. job'[k] = job[k] /\ receipt'[k] = receipt[k] BY <2>4, <1>1
    <3>2. pc \notin Reading /\ pc = "classify" BY DEF Moves, Reading
    <3>3. /\ job[k] # "invalid"
          /\ receipt[k] = "accepted_success" <=> job[k] = "accepted"
          /\ job[k] # "queued" => k \in targets
          /\ job[k] \in {"abandoning", "abandoned"} => Aborted
          /\ job[k] = "reported" => caller = "page"
      BY DEF Work
    <3>4. pc' \notin Reading BY <2>1, <3>2
    <3>5. receipt'[k] = "accepted_success" <=> job'[k] = "accepted" BY <3>1, <3>3
    <3>6. job'[k] \in {"abandoning", "abandoned"} => Aborted' BY <3>1, <3>3, <2>2
    <3>7. QED BY <3>1, <3>3, <3>4, <3>5, <3>6, <2>1
  <2>5. QED BY <2>3, <2>4
<1>5. Progress' /\ Rows' /\ Kept' /\ SuccessMeansCurrent'
  BY DEF Moves, store, world, crawl, Progress, Rows, Kept, SuccessMeansCurrent, Reading
<1>6. QED BY <1>2, <1>3, <1>4, <1>5

(* The attempt under way is within the budget, and its request has a number. *)
LEMMA AskingChain ==
  ASSUME IInv, NEW i \in Issues, job[i] = "asking"
  PROVE  /\ attempts[i] \in Seq(Attempts) /\ ValidPrefix(attempts[i])
         /\ attempts[i] = <<>> \/ Last(attempts[i]).decision = "retry"
         /\ Len(attempts[i]) \in Nat /\ Len(attempts[i]) + 1 <= MaxAttempts
         /\ Request(attempts[i]) \in Nat
<1> DEFINE l == attempts[i]
<1> USE BoundsAssumption
<1>1. l \in Seq(Attempts) BY DEF IInv, TypeOK
<1>2. ValidPrefix(l) /\ (l = <<>> \/ Last(l).decision = "retry")
  BY DEF IInv, Chains, Chain, Working
<1>3. CASE l = <<>>
  <2>1. Len(l) = 0 /\ Request(l) = 0 BY <1>3 DEF Request
  <2>2. QED BY <2>1, <1>1, <1>2, <1>3
<1>4. CASE l # <<>>
  <2>1. Len(l) \in Nat /\ Len(l) \in 1..Len(l) /\ Last(l) = l[Len(l)] /\ Last(l) \in Attempts
    BY <1>1, <1>4 DEF Last
  <2>2. Len(l) < MaxAttempts BY <1>2, <1>4, <2>1 DEF ValidPrefix
  <2>3. Last(l).request \in Nat BY <2>1 DEF Attempts
  <2>4. Request(l) \in Nat BY <2>3, <1>4 DEF Request
  <2>5. QED BY <2>1, <2>2, <2>4, <1>1, <1>2
<1>5. QED BY <1>3, <1>4

(* Recording an attempt that continues the chain. *)
LEMMA Recorded ==
  ASSUME IInv, NEW i \in Issues, NEW a \in Attempts,
         NEW next \in {"waiting", "failing", "abandoning", "accepting"},
         Record(i, a, next), Continues(attempts[i], a),
         next = "accepting" <=> a.status = "accepted_success",
         next = "waiting" => a.decision = "retry",
         next = "failing" => a.decision = "stop",
         next = "abandoning" => Aborted
  PROVE  IInv'
<1> DEFINE l == attempts[i]
<1>1. job[i] = "asking" BY DEF Record
<1>2. /\ l \in Seq(Attempts) /\ ValidPrefix(l)
      /\ l = <<>> \/ Last(l).decision = "retry"
  BY <1>1, AskingChain
<1>3. /\ ValidPrefix(Append(l, a)) /\ Append(l, a) \in Seq(Attempts)
      /\ Append(l, a) # <<>> /\ Last(Append(l, a)) = a
  BY <1>2, AppendValid
<1>4. /\ pc = "classify" /\ i \in targets /\ job[i] \in Working
      /\ receipt[i] # "accepted_success"
  BY <1>1 DEF IInv, Work, Working
<1>5. UNCHANGED <<store, world, crawl, receipt, pc>> BY DEF Record
<1>6. attempts \in [Issues -> Seq(Attempts)] /\ receipt \in [Issues -> Receipts \cup {None}]
  BY DEF IInv, TypeOK
<1>7. receipt' \in [Issues -> Receipts \cup {None}] /\ receipt' = receipt
  BY <1>5, <1>6
<1>8. CASE attempts' = [attempts EXCEPT ![i] = Append(@, a)] /\ Become(i, next)
  <2>1. Moves(i, next) BY <1>4, <1>5, <1>8 DEF Moves
  <2>2. attempts' \in [Issues -> Seq(Attempts)]
        /\ (\A k \in Issues : k # i => attempts'[k] = attempts[k])
        /\ attempts'[i] = Append(l, a)
    BY <1>3, <1>6, <1>8
  <2>3. Chain(next, attempts'[i])
    BY <1>3, <2>2 DEF Chain, Working
  <2>4. receipt'[i] = "accepted_success" <=> next = "accepted"
    BY <1>4, <1>7
  <2>5. next \in Working \cup Settled /\ next # "invalid"
        /\ next # "reported" /\ next # "abandoned"
    BY DEF Working
  <2>6. QED BY <2>1, <2>2, <2>3, <2>4, <2>5, <1>7, OneMoves
<1>9. CASE Become(i, "refused") /\ Forget(i)
  <2>1. Moves(i, "refused") BY <1>4, <1>5, <1>9 DEF Moves
  <2>2. attempts' \in [Issues -> Seq(Attempts)]
        /\ (\A k \in Issues : k # i => attempts'[k] = attempts[k])
        /\ attempts'[i] = <<>>
    BY <1>6, <1>9 DEF Forget
  <2>3. Chain("refused", attempts'[i])
    BY <2>2 DEF Chain, Working
  <2>4. receipt'[i] = "accepted_success" <=> "refused" = "accepted"
    BY <1>4, <1>7
  <2>5. "refused" \in Working \cup Settled
    BY DEF Settled
  <2>6. QED BY <2>1, <2>2, <2>3, <2>4, <2>5, <1>7, OneMoves
<1>10. QED BY <1>3, <1>8, <1>9 DEF Record

LEMMA TransportFailureStep ==
  ASSUME IInv, NEW i \in Issues, TransportFailure(i) PROVE IInv'
<1> USE BoundsAssumption
<1>1. job[i] = "asking" BY DEF TransportFailure, Record
<1>2. Len(attempts[i]) \in Nat /\ Len(attempts[i]) + 1 <= MaxAttempts
  BY <1>1, AskingChain
<1>3. ASSUME AttemptsRemain(attempts[i]),
             NEW a, a = Attempt(i, "transport_failure", "retry", TRUE,
                                "retryable_transport_failure", FALSE),
             Record(i, a, "waiting")
      PROVE  IInv'
  <2>1. /\ a \in Attempts /\ a.status = "transport_failure" /\ a.decision = "retry"
        /\ a.retryable = TRUE /\ a.reason = "retryable_transport_failure"
        /\ a.codes = FALSE /\ a.request = Request(attempts[i])
    BY <1>1, <1>3, AskingChain DEF Attempt, Attempts
  <2>2. Continues(attempts[i], a)
    BY <2>1, <1>3 DEF Continues, ValidAttempt, AttemptsRemain
  <2>3. QED BY <1>3, <2>1, <2>2, Recorded
<1>4. ASSUME ~AttemptsRemain(attempts[i]),
             NEW a, a = Attempt(i, "transport_failure", "stop", TRUE,
                                "attempt_budget_exhausted", FALSE),
             Record(i, a, "failing")
      PROVE  IInv'
  <2>1. /\ a \in Attempts /\ a.status = "transport_failure" /\ a.decision = "stop"
        /\ a.retryable = TRUE /\ a.reason = "attempt_budget_exhausted"
        /\ a.codes = FALSE /\ a.request = Request(attempts[i])
    BY <1>1, <1>4, AskingChain DEF Attempt, Attempts
  <2>2. Len(attempts[i]) + 1 = MaxAttempts BY <1>2, <1>4 DEF AttemptsRemain
  <2>3. Continues(attempts[i], a)
    BY <2>1, <2>2 DEF Continues, ValidAttempt
  <2>4. QED BY <1>4, <2>1, <2>3, Recorded
<1>5. ASSUME NEW a, a = Attempt(i, "transport_failure", "stop", FALSE,
                                "non_retryable_transport_failure", FALSE),
             Record(i, a, "failing")
      PROVE  IInv'
  <2>1. /\ a \in Attempts /\ a.status = "transport_failure" /\ a.decision = "stop"
        /\ a.retryable = FALSE /\ a.reason = "non_retryable_transport_failure"
        /\ a.codes = FALSE /\ a.request = Request(attempts[i])
    BY <1>1, <1>5, AskingChain DEF Attempt, Attempts
  <2>2. Continues(attempts[i], a)
    BY <2>1 DEF Continues, ValidAttempt
  <2>3. QED BY <1>5, <2>1, <2>2, Recorded
<1>6. QED BY <1>3, <1>4, <1>5 DEF TransportFailure

LEMMA AbortRequestStep ==
  ASSUME IInv, NEW i \in Issues, AbortRequest(i) PROVE IInv'
<1> DEFINE a == Attempt(i, "transport_failure", "stop", FALSE, "caller_aborted", FALSE)
<1>1. job[i] = "asking" /\ Aborted /\ Record(i, a, "abandoning")
  BY DEF AbortRequest, Record
<1>2. /\ a \in Attempts /\ a.status = "transport_failure" /\ a.decision = "stop"
      /\ a.retryable = FALSE /\ a.reason = "caller_aborted"
      /\ a.codes = FALSE /\ a.request = Request(attempts[i])
  BY <1>1, AskingChain DEF Attempt, Attempts
<1> HIDE DEF a
<1>3. Continues(attempts[i], a)
  BY <1>2 DEF Continues, ValidAttempt
<1>4. QED BY <1>1, <1>2, <1>3, Recorded

LEMMA AcceptStep ==
  ASSUME IInv, NEW i \in Issues, Accept(i) PROVE IInv'
<1> DEFINE a == Attempt(i, "accepted_success", "stop", FALSE, "accepted_success", FALSE)
<1>1. job[i] = "asking" /\ Record(i, a, "accepting")
  BY DEF Accept, Record
<1>2. /\ a \in Attempts /\ a.status = "accepted_success" /\ a.decision = "stop"
      /\ a.retryable = FALSE /\ a.reason = "accepted_success"
      /\ a.codes = FALSE /\ a.request = Request(attempts[i])
  BY <1>1, AskingChain DEF Attempt, Attempts
<1> HIDE DEF a
<1>3. Continues(attempts[i], a)
  BY <1>2 DEF Continues, ValidAttempt
<1>4. QED BY <1>1, <1>2, <1>3, Recorded

LEMMA RejectStep ==
  ASSUME IInv, NEW i \in Issues, Reject(i) PROVE IInv'
<1> USE BoundsAssumption
<1>1. job[i] = "asking" BY DEF Reject, Record
<1>2. Len(attempts[i]) \in Nat /\ Len(attempts[i]) + 1 <= MaxAttempts
  BY <1>1, AskingChain
<1>3. ASSUME Aborted,
             NEW a, a = Attempt(i, "semantic_rejection", "stop", FALSE, "caller_aborted", FALSE),
             Record(i, a, "abandoning")
      PROVE  IInv'
  <2>1. /\ a \in Attempts /\ a.status = "semantic_rejection" /\ a.decision = "stop"
        /\ a.retryable = FALSE /\ a.reason = "caller_aborted"
        /\ a.codes = FALSE /\ a.request = Request(attempts[i])
    BY <1>1, <1>3, AskingChain DEF Attempt, Attempts
  <2>2. Continues(attempts[i], a)
    BY <2>1 DEF Continues, ValidAttempt
  <2>3. QED BY <1>3, <2>1, <2>2, Recorded
<1>4. ASSUME AttemptsRemain(attempts[i]),
             NEW a, a = Attempt(i, "semantic_rejection", "retry", TRUE,
                                "retryable_semantic_rejection", TRUE),
             Record(i, a, "waiting")
      PROVE  IInv'
  <2>1. /\ a \in Attempts /\ a.status = "semantic_rejection" /\ a.decision = "retry"
        /\ a.retryable = TRUE /\ a.reason = "retryable_semantic_rejection"
        /\ a.codes = TRUE /\ a.request = Request(attempts[i])
    BY <1>1, <1>4, AskingChain DEF Attempt, Attempts
  <2>2. Continues(attempts[i], a)
    BY <2>1, <1>4 DEF Continues, ValidAttempt, AttemptsRemain
  <2>3. QED BY <1>4, <2>1, <2>2, Recorded
<1>5. ASSUME NEW a, a = Attempt(i, "semantic_rejection", "stop", FALSE,
                                "semantic_retry_preparation_failed", TRUE),
             Record(i, a, "failing")
      PROVE  IInv'
  <2>1. /\ a \in Attempts /\ a.status = "semantic_rejection" /\ a.decision = "stop"
        /\ a.retryable = FALSE /\ a.reason = "semantic_retry_preparation_failed"
        /\ a.codes = TRUE /\ a.request = Request(attempts[i])
    BY <1>1, <1>5, AskingChain DEF Attempt, Attempts
  <2>2. Continues(attempts[i], a)
    BY <2>1 DEF Continues, ValidAttempt
  <2>3. QED BY <1>5, <2>1, <2>2, Recorded
<1>6. ASSUME ~AttemptsRemain(attempts[i]),
             NEW a, a = Attempt(i, "semantic_rejection", "stop", TRUE,
                                "attempt_budget_exhausted", TRUE),
             Record(i, a, "failing")
      PROVE  IInv'
  <2>1. /\ a \in Attempts /\ a.status = "semantic_rejection" /\ a.decision = "stop"
        /\ a.retryable = TRUE /\ a.reason = "attempt_budget_exhausted"
        /\ a.codes = TRUE /\ a.request = Request(attempts[i])
    BY <1>1, <1>6, AskingChain DEF Attempt, Attempts
  <2>2. Len(attempts[i]) + 1 = MaxAttempts BY <1>2, <1>6 DEF AttemptsRemain
  <2>3. Continues(attempts[i], a)
    BY <2>1, <2>2 DEF Continues, ValidAttempt
  <2>4. QED BY <1>6, <2>1, <2>3, Recorded
<1>7. ASSUME NEW codes \in BOOLEAN,
             NEW a, a = Attempt(i, "semantic_rejection", "stop", FALSE,
                                "deterministic_semantic_rejection", codes),
             Record(i, a, "failing")
      PROVE  IInv'
  <2>1. /\ a \in Attempts /\ a.status = "semantic_rejection" /\ a.decision = "stop"
        /\ a.retryable = FALSE /\ a.reason = "deterministic_semantic_rejection"
        /\ a.request = Request(attempts[i])
    BY <1>1, <1>7, AskingChain DEF Attempt, Attempts
  <2>2. Continues(attempts[i], a)
    BY <2>1 DEF Continues, ValidAttempt
  <2>3. QED BY <1>7, <2>1, <2>2, Recorded
<1>8. QED BY <1>3, <1>4, <1>5, <1>6, <1>7 DEF Reject

LEMMA StartJobStep ==
  ASSUME IInv, NEW i \in Issues, StartJob(i) PROVE IInv'
<1>1. /\ pc = "classify" /\ i \in targets /\ job[i] = "queued" /\ ~Aborted
      /\ UNCHANGED <<store, world, crawl, attempts, receipt, pc>>
  BY DEF StartJob
<1>2. /\ attempts \in [Issues -> Seq(Attempts)] /\ receipt \in [Issues -> Receipts \cup {None}]
      /\ attempts[i] = <<>> /\ receipt[i] # "accepted_success"
  BY <1>1 DEF IInv, TypeOK, Chains, Chain, Working, Work
<1>3. /\ attempts' = attempts /\ receipt' = receipt BY <1>1
<1>4. ASSUME NEW next \in {"waiting", "failing", "refused"}, Become(i, next)
      PROVE  IInv'
  <2>1. Moves(i, next) BY <1>1, <1>4 DEF Moves
  <2>2. Chain(next, attempts'[i])
    <3>1. Len(<<>>) = 0 OBVIOUS
    <3>2. ValidPrefix(<<>>) BY <3>1, BoundsAssumption DEF ValidPrefix
    <3>3. QED BY <1>2, <1>3, <3>2 DEF Chain, Working
  <2>3. next \in Working \cup Settled /\ next # "invalid" /\ next # "reported"
        /\ next \notin {"abandoning", "abandoned", "accepted"}
    BY DEF Working, Settled
  <2>4. QED BY <1>2, <1>3, <2>1, <2>2, <2>3, OneMoves
<1>5. QED BY <1>4 DEF StartJob

LEMMA ResumeStep ==
  ASSUME IInv, NEW i \in Issues, Resume(i) PROVE IInv'
<1> DEFINE next == IF Aborted THEN "abandoning" ELSE "asking"
<1>1. /\ job[i] = "waiting" /\ Become(i, next)
      /\ UNCHANGED <<store, world, crawl, attempts, receipt, pc>>
  BY DEF Resume
<1>2. /\ attempts \in [Issues -> Seq(Attempts)] /\ receipt \in [Issues -> Receipts \cup {None}]
      /\ ValidPrefix(attempts[i])
      /\ attempts[i] = <<>> \/ Last(attempts[i]).decision = "retry"
      /\ pc = "classify" /\ i \in targets /\ receipt[i] # "accepted_success"
  BY <1>1 DEF IInv, TypeOK, Chains, Chain, Working, Work
<1>3. /\ attempts' = attempts /\ receipt' = receipt BY <1>1
<1>4. Moves(i, next) BY <1>1, <1>2 DEF Moves, Working
<1>5. Chain(next, attempts'[i])
  <2>1. attempts[i] # <<>> => Last(attempts[i]).status # "accepted_success"
    <3>1. SUFFICES ASSUME attempts[i] # <<>>
                   PROVE  Last(attempts[i]).status # "accepted_success"
      OBVIOUS
    <3>2. Len(attempts[i]) \in 1..Len(attempts[i]) BY <1>2, <3>1
    <3>3. ValidAttempt(Last(attempts[i])) BY <1>2, <3>2 DEF ValidPrefix, Last
    <3>4. QED BY <1>2, <3>1, <3>3 DEF ValidAttempt
  <2>2. QED BY <1>2, <1>3, <2>1 DEF Chain, Working
<1>6. /\ next \in Working \cup Settled /\ next # "invalid" /\ next # "reported"
      /\ next # "accepted" /\ (next \in {"abandoning", "abandoned"} => Aborted)
  BY DEF Working, Settled
<1>7. QED BY <1>2, <1>3, <1>4, <1>5, <1>6, OneMoves

(* The receipt of a classification fits its attempts. *)
LEMMA ReceiptFits ==
  ASSUME IInv, NEW i \in Issues
  PROVE  /\ job[i] = "accepting" => FitsReceipt("accepted_success", attempts[i])
         /\ job[i] = "abandoning" => FitsReceipt("abandoned", attempts[i])
         /\ job[i] = "failing" => FitsReceipt("terminal_failure", attempts[i])
<1> DEFINE l == attempts[i]
<1>1. l \in Seq(Attempts) BY DEF IInv, TypeOK
<1>2. Chain(job[i], l) BY DEF IInv, Chains
<1>3. ASSUME ValidPrefix(l), l = <<>> \/ Last(l).status # "accepted_success",
             NEW n \in 1..Len(l)
      PROVE  l[n].status # "accepted_success"
  <2>1. Len(l) \in Nat /\ ValidAttempt(l[n]) BY <1>1, <1>3 DEF ValidPrefix
  <2>2. CASE n < Len(l)
    <3>1. l[n].decision = "retry" BY <1>3, <2>2 DEF ValidPrefix
    <3>2. QED BY <2>1, <3>1 DEF ValidAttempt
  <2>3. CASE n = Len(l)
    <3>1. l # <<>> BY <1>1, <1>3
    <3>2. QED BY <1>3, <2>3, <3>1 DEF Last
  <2>4. QED BY <2>1, <2>2, <2>3
<1>4. job[i] = "accepting" => FitsReceipt("accepted_success", l)
  BY <1>2 DEF Chain, FitsReceipt
<1>5. job[i] = "abandoning" => FitsReceipt("abandoned", l)
  BY <1>2, <1>3 DEF Chain, FitsReceipt, Working
<1>6. job[i] = "failing" => FitsReceipt("terminal_failure", l)
  BY <1>2, <1>3 DEF Chain, FitsReceipt, Working
<1>7. QED BY <1>4, <1>5, <1>6

LEMMA FinalizeStep ==
  ASSUME IInv, NEW i \in Issues, NEW from \in {"accepting", "abandoning", "failing"},
         NEW status \in Receipts, NEW next \in {"accepted", "abandoned", "reported", "failed"},
         Finalize(i, from, status, next), FitsReceipt(status, attempts[i]),
         status = "accepted_success" <=> next = "accepted",
         next = "abandoned" => from = "abandoning",
         next = "reported" => caller = "page"
  PROVE  IInv'
<1>1. /\ job[i] = from /\ UNCHANGED <<store, world, crawl, pc>>
      /\ attempts' = [attempts EXCEPT ![i] = <<>>]
  BY DEF Finalize, Forget
<1>2. /\ attempts \in [Issues -> Seq(Attempts)] /\ receipt \in [Issues -> Receipts \cup {None}]
      /\ pc = "classify" /\ i \in targets /\ receipt[i] # "accepted_success"
      /\ job[i] \in Working /\ (from = "abandoning" => Aborted)
  BY <1>1 DEF IInv, TypeOK, Working, Work
<1>3. /\ attempts' \in [Issues -> Seq(Attempts)] /\ attempts'[i] = <<>>
      /\ \A k \in Issues : k # i => attempts'[k] = attempts[k]
  BY <1>1, <1>2
<1>4. ASSUME NEW state, state \notin Working PROVE Chain(state, attempts'[i])
  BY <1>3, <1>4 DEF Chain, Working
<1>5. CASE receipt' = [receipt EXCEPT ![i] = status] /\ Become(i, next)
  <2>1. Moves(i, next) BY <1>1, <1>2, <1>5 DEF Moves
  <2>2. /\ receipt' \in [Issues -> Receipts \cup {None}] /\ receipt'[i] = status
        /\ \A k \in Issues : k # i => receipt'[k] = receipt[k]
    BY <1>2, <1>5
  <2>3. next \in Working \cup Settled /\ next \notin Working /\ next # "invalid"
        /\ next # "abandoning"
    BY DEF Working, Settled
  <2>4. next \in {"abandoning", "abandoned"} => Aborted BY <1>2, <2>3
  <2>5. QED BY <1>3, <1>4, <2>1, <2>2, <2>3, <2>4, OneMoves
<1>6. CASE Become(i, "refused") /\ UNCHANGED receipt
  <2>1. Moves(i, "refused") BY <1>1, <1>2, <1>6 DEF Moves
  <2>2. /\ receipt' \in [Issues -> Receipts \cup {None}] /\ receipt'[i] # "accepted_success"
        /\ \A k \in Issues : k # i => receipt'[k] = receipt[k]
    BY <1>2, <1>6
  <2>3. "refused" \in Working \cup Settled /\ "refused" \notin Working
    BY DEF Working, Settled
  <2>4. Chain("refused", attempts'[i]) BY <1>4, <2>3
  <2>5. receipt'[i] = "accepted_success" <=> "refused" = "accepted" BY <2>2
  <2>6. QED BY <1>3, <2>1, <2>2, <2>3, <2>4, <2>5, OneMoves
<1>7. QED BY <1>5, <1>6 DEF Finalize

LEMMA FinalizeJobStep ==
  ASSUME IInv, NEW i \in Issues, FinalizeJob(i) PROVE IInv'
<1>1. CASE Finalize(i, "accepting", "accepted_success", "accepted")
  <2>1. FitsReceipt("accepted_success", attempts[i]) BY <1>1, ReceiptFits DEF Finalize
  <2>2. QED BY <1>1, <2>1, FinalizeStep DEF Receipts
<1>2. CASE Finalize(i, "abandoning", "abandoned", "abandoned")
  <2>1. FitsReceipt("abandoned", attempts[i]) BY <1>2, ReceiptFits DEF Finalize
  <2>2. QED BY <1>2, <2>1, FinalizeStep DEF Receipts
<1>3. CASE Finalize(i, "failing", "terminal_failure",
                    IF Accumulable(i) THEN "reported" ELSE "failed")
  <2>1. FitsReceipt("terminal_failure", attempts[i]) BY <1>3, ReceiptFits DEF Finalize
  <2>2. Accumulable(i) => caller = "page" BY DEF Accumulable
  <2>3. QED BY <1>3, <2>1, <2>2, FinalizeStep DEF Receipts
<1>4. QED BY <1>1, <1>2, <1>3 DEF FinalizeJob

LEMMA ClassifyStep ==
  ASSUME IInv, NEW i \in Issues, Classify(i) PROVE IInv'
BY TransportFailureStep, AbortRequestStep, AcceptStep, RejectStep, StartJobStep,
   ResumeStep, FinalizeJobStep DEF Classify

------------------------------------------------------------------------------
(* The steps of the reads.                                                    *)

(* No classification has begun. *)
LEMMA JobsUntouched ==
  ASSUME IInv, pc \in Reading, UNCHANGED <<jobs, world>>
  PROVE  Chains' /\ Work'
<1>1. \A i \in Issues : job[i] = "queued" BY DEF IInv, Work
<1>2. job' = job /\ attempts' = attempts /\ receipt' = receipt /\ cancelled' = cancelled
  BY DEF jobs, world
<1>3. Chains' BY <1>2 DEF IInv, Chains
<1>4. \A i \in Issues : receipt[i] # "accepted_success" BY <1>1 DEF IInv, Work
<1>5. Work' BY <1>1, <1>2, <1>4 DEF Work, Working
<1>6. QED BY <1>3, <1>5

(* The reads in flight see versions that the issue had. *)
LEMMA ReadSnapshotsStep == ASSUME IInv, ReadSnapshots PROVE IInv'
<1>1. PICK got \in [Issues -> Versions] :
        /\ \A i \in Issues : got[i] \in seen[i]
        /\ snap' = got
        /\ targets' = IF caller = "page" THEN Issues
                      ELSE {i \in Issues : class[i] # got[i]}
        /\ pending' = targets' \cup {i \in Issues : \/ row[i]["issue"] # got[i]
                                                    \/ row[i]["state"] # got[i]}
        /\ pc' = IF pending' = {} THEN "classify" ELSE "begin"
  BY DEF ReadSnapshots
<1>2. /\ pc = "snapshots" /\ seen' = [i \in Issues |-> {}] /\ caller' = caller
      /\ evidence' = evidence /\ reads' = reads /\ UNCHANGED <<store, world, jobs>>
  BY DEF ReadSnapshots, Away
<1>3. targets' \subseteq Issues /\ pending' \subseteq Issues BY <1>1
<1>4. TypeOK'
  <2>1. seen' \in [Issues -> SUBSET Versions'] BY <1>2
  <2>2. snap' \in [Issues -> (Versions \cup {None})'] BY <1>1 DEF Versions
  <2>3. pc' \in {"snapshots", "begin", "evidence", "classify", "check"} \cup Outcomes
    BY <1>1
  <2>4. QED BY <1>2, <1>3, <2>1, <2>2, <2>3 DEF IInv, TypeOK, store, world, jobs
<1>5. Chains' /\ Work' BY <1>2, JobsUntouched DEF Reading
<1>6. Progress'
  <2>1. row' = row /\ written' = written BY <1>2 DEF store
  <2>2. pc' \in {"classify", "begin"} /\ (pc' = "classify" => pending' = {}) BY <1>1
  <2>3. snap' \in [Issues -> Versions'] BY <1>1 DEF Versions
  <2>4. \A i \in Issues : \/ i \in pending'
                          \/ /\ i \notin targets'
                             /\ row'[i]["issue"] = snap'[i] /\ row'[i]["state"] = snap'[i]
    BY <1>1, <2>1
  <2>5. caller' = "page" => targets' = Issues BY <1>1, <1>2
  <2>6. written' = {} BY <1>2, <2>1 DEF IInv, Progress, Reading
  <2>7. \A i \in Issues : evidence'[i] # None => evidence'[i] = Whole(evidence'[i]["issue"])
    BY <1>2 DEF IInv, Progress
  <2>8. QED BY <2>2, <2>3, <2>4, <2>5, <2>6, <2>7 DEF Progress
<1>7. Rows' BY <1>2 DEF IInv, Rows, store
<1>8. Kept' /\ SuccessMeansCurrent'
  BY <1>1 DEF Kept, SuccessMeansCurrent
<1>9. QED BY <1>4, <1>5, <1>6, <1>7, <1>8 DEF IInv

LEMMA SnapshotsFailStep == ASSUME IInv, SnapshotsFail PROVE IInv'
<1>1. pc = "snapshots" /\ pc' = "threw" /\ UNCHANGED <<store, world, crawl, jobs>>
  BY DEF SnapshotsFail
<1>2. TypeOK' BY <1>1 DEF IInv, TypeOK, store, world, crawl, jobs, Stored, Versions, Outcomes
<1>3. Chains' BY <1>1 DEF IInv, Chains, jobs
<1>4. Work'
  <2>1. \A i \in Issues : job[i] = "queued" /\ receipt[i] # "accepted_success"
    BY <1>1 DEF IInv, Work, Reading
  <2>2. QED BY <1>1, <2>1 DEF Work, Working, jobs
<1>5. Progress' BY <1>1 DEF IInv, Progress, crawl, store, Reading
<1>6. Rows' BY <1>1 DEF IInv, Rows, store
<1>7. Kept' /\ SuccessMeansCurrent' BY <1>1 DEF Kept, SuccessMeansCurrent
<1>8. QED BY <1>2, <1>3, <1>4, <1>5, <1>6, <1>7 DEF IInv

LEMMA BeginReadsStep == ASSUME IInv, BeginReads PROVE IInv'
<1>1. /\ pc = "begin" /\ pc' \in {"threw", "evidence"} /\ seen' \in {seen, Now}
      /\ UNCHANGED <<store, world, jobs, caller, snap, evidence, targets, pending, reads>>
  BY DEF BeginReads
<1>2. TypeOK'
  <2>1. Now \in [Issues -> SUBSET Versions] BY DEF IInv, TypeOK, Now
  <2>2. QED BY <1>1, <2>1
        DEF IInv, TypeOK, store, world, jobs, Stored, Versions, Outcomes
<1>3. Chains' /\ Work' BY <1>1, JobsUntouched DEF Reading
<1>4. Progress' BY <1>1 DEF IInv, Progress, store, Reading, Versions
<1>5. Rows' BY <1>1 DEF IInv, Rows, store
<1>6. Kept' /\ SuccessMeansCurrent' BY <1>1 DEF Kept, SuccessMeansCurrent
<1>7. QED BY <1>2, <1>3, <1>4, <1>5, <1>6 DEF IInv

LEMMA ReadFailsStep == ASSUME IInv, ReadFails PROVE IInv'
<1>1. /\ pc = "evidence" /\ pc' \in {"threw", "begin"} /\ reads' \in 1..MaxReads
      /\ seen' = [i \in Issues |-> {}]
      /\ UNCHANGED <<store, world, jobs, caller, snap, evidence, targets, pending>>
  BY BoundsAssumption DEF ReadFails, Again, Away, IInv, TypeOK
<1>2. TypeOK' BY <1>1 DEF IInv, TypeOK, store, world, jobs, Stored, Versions, Outcomes
<1>3. Chains' /\ Work' BY <1>1, JobsUntouched DEF Reading
<1>4. Progress' BY <1>1 DEF IInv, Progress, store, Reading, Versions
<1>5. Rows' BY <1>1 DEF IInv, Rows, store
<1>6. Kept' /\ SuccessMeansCurrent' BY <1>1 DEF Kept, SuccessMeansCurrent
<1>7. QED BY <1>2, <1>3, <1>4, <1>5, <1>6 DEF IInv

LEMMA ReadEvidenceStep == ASSUME IInv, ReadEvidence PROVE IInv'
<1>1. PICK there \in SUBSET pending : \E got \in [there -> [Parts -> Versions]] :
        /\ \A i \in there, q \in Parts : got[i][q] \in seen[i]
        /\ LET stable == {i \in there : Matches(got[i])}
           IN /\ evidence' = [i \in Issues |-> IF i \in stable THEN got[i] ELSE evidence[i]]
              /\ pending' = pending \ stable
        /\ IF pending' = {} THEN pc' = "classify" /\ UNCHANGED reads ELSE Again
  BY DEF ReadEvidence
<1>2. PICK got \in [there -> [Parts -> Versions]] :
        /\ LET stable == {i \in there : Matches(got[i])}
           IN /\ evidence' = [i \in Issues |-> IF i \in stable THEN got[i] ELSE evidence[i]]
              /\ pending' = pending \ stable
        /\ IF pending' = {} THEN pc' = "classify" /\ UNCHANGED reads ELSE Again
  BY <1>1
<1> DEFINE stable == {i \in there : Matches(got[i])}
<1>3. /\ evidence' = [i \in Issues |-> IF i \in stable THEN got[i] ELSE evidence[i]]
      /\ pending' = pending \ stable
      /\ stable \subseteq pending /\ \A i \in stable : i \in there /\ Matches(got[i])
  BY <1>2
<1> HIDE DEF stable
<1>4. /\ pc = "evidence" /\ seen' = [i \in Issues |-> {}]
      /\ UNCHANGED <<store, world, jobs, caller, snap, targets>>
  BY DEF ReadEvidence, Away
<1>5. pc' \in {"classify", "begin", "threw"} /\ (pc' = "classify" => pending' = {})
      /\ reads' \in 1..MaxReads
  BY <1>2, BoundsAssumption DEF Again, IInv, TypeOK
<1>6. \A i \in stable : got[i] \in [Parts -> Versions] /\ got[i] = Whole(got[i]["issue"])
  <2> SUFFICES ASSUME NEW i \in stable
               PROVE  got[i] \in [Parts -> Versions] /\ got[i] = Whole(got[i]["issue"])
    OBVIOUS
  <2>1. got[i] \in [Parts -> Versions] /\ Matches(got[i]) BY <1>3
  <2>2. QED BY <2>1 DEF Matches, Whole
<1>7. TypeOK'
  <2>1. evidence' \in [Issues -> [Parts -> Versions] \cup {None}]
    BY <1>3, <1>6 DEF IInv, TypeOK
  <2>2. pending' \subseteq Issues BY <1>3 DEF IInv, TypeOK
  <2>3. QED BY <1>4, <1>5, <2>1, <2>2
        DEF IInv, TypeOK, store, world, jobs, Stored, Versions, Outcomes
<1>8. Chains' /\ Work' BY <1>4, JobsUntouched DEF Reading
<1>9. Progress'
  <2>1. \A i \in Issues : evidence'[i] # None => evidence'[i] = Whole(evidence'[i]["issue"])
    BY <1>3, <1>6 DEF IInv, Progress
  <2>2. \A i \in Issues :
          \/ evidence'[i] # None
          \/ i \in pending'
          \/ i \notin targets /\ row[i]["issue"] = snap[i] /\ row[i]["state"] = snap[i]
    <3> SUFFICES ASSUME NEW i \in Issues, evidence'[i] = None, i \notin pending'
                 PROVE  i \notin targets /\ row[i]["issue"] = snap[i] /\ row[i]["state"] = snap[i]
      OBVIOUS
    <3>1. i \notin stable BY <1>3, <1>6, NoneAssumption
    <3>2. evidence[i] = None /\ i \notin pending BY <1>3, <3>1
    <3>3. QED BY <1>4, <3>2 DEF IInv, Progress
  <2>3. row' = row /\ written' = written /\ snap' = snap /\ targets' = targets
        /\ caller' = caller
    BY <1>4 DEF store
  <2>4. snap \in [Issues -> Versions] /\ (caller = "page" => targets = Issues) /\ written = {}
    BY <1>4 DEF IInv, Progress, Reading
  <2>5. QED BY <1>5, <2>1, <2>2, <2>3, <2>4 DEF Progress, Versions
<1>10. Rows' BY <1>4 DEF IInv, Rows, store
<1>11. Kept' /\ SuccessMeansCurrent' BY <1>5 DEF Kept, SuccessMeansCurrent
<1>12. QED BY <1>7, <1>8, <1>9, <1>10, <1>11 DEF IInv

------------------------------------------------------------------------------
(* The transaction and what follows.                                          *)

(* The workers have ended; nothing but the store and pc changes. *)
LEMMA Ended ==
  ASSUME IInv, pc = "classify" => Active = {}, pc \notin Reading, pc' # "classify",
         pc' \notin Reading, UNCHANGED <<world, crawl, jobs>>
  PROVE  Chains' /\ Work'
<1>1. \A i \in Issues : job[i] \notin Working BY DEF IInv, Work, Active
<1>2. /\ job' = job /\ attempts' = attempts /\ receipt' = receipt /\ targets' = targets
      /\ caller' = caller /\ cancelled' = cancelled
  BY DEF jobs, crawl, world
<1>3. Chains' BY <1>2 DEF IInv, Chains
<1>4. Aborted' <=> Aborted BY <1>2 DEF Aborted, Failed
<1>5. Work'
  <2> SUFFICES ASSUME NEW k \in Issues
               PROVE  /\ job'[k] # "invalid"
                      /\ receipt'[k] = "accepted_success" <=> job'[k] = "accepted"
                      /\ job'[k] # "queued" => k \in targets' /\ pc' \notin Reading
                      /\ job'[k] \in Working => pc' = "classify"
                      /\ job'[k] \in {"abandoning", "abandoned"} => Aborted'
                      /\ job'[k] = "reported" => caller' = "page"
    BY DEF Work
  <2>1. /\ job[k] # "invalid"
        /\ receipt[k] = "accepted_success" <=> job[k] = "accepted"
        /\ job[k] # "queued" => k \in targets
        /\ job[k] \in {"abandoning", "abandoned"} => Aborted
        /\ job[k] = "reported" => caller = "page"
    BY DEF IInv, Work
  <2>2. receipt'[k] = "accepted_success" <=> job'[k] = "accepted" BY <2>1, <1>2
  <2>3. job'[k] \in {"abandoning", "abandoned"} => Aborted' BY <2>1, <1>2, <1>4
  <2>4. QED BY <1>1, <1>2, <2>1, <2>2, <2>3
<1>6. QED BY <1>3, <1>5

LEMMA PersistRefusedStep == ASSUME IInv, PersistRefused PROVE IInv'
<1>1. pc = "classify" /\ Active = {} /\ pc' = "threw" /\ UNCHANGED <<store, world, crawl, jobs>>
  BY DEF PersistRefused, Drained
<1>2. TypeOK' BY <1>1 DEF IInv, TypeOK, store, world, crawl, jobs, Stored, Versions, Outcomes
<1>3. Chains' /\ Work' BY <1>1, Ended DEF Reading
<1>4. Progress' BY <1>1 DEF IInv, Progress, crawl, store, Reading
<1>5. Rows' BY <1>1 DEF IInv, Rows, store
<1>6. Kept' /\ SuccessMeansCurrent' BY <1>1 DEF Kept, SuccessMeansCurrent
<1>7. QED BY <1>2, <1>3, <1>4, <1>5, <1>6 DEF IInv

LEMMA CheckCurrentStep == ASSUME IInv, CheckCurrent PROVE IInv'
<1>1. /\ pc = "check" /\ UNCHANGED <<store, world, crawl, jobs>>
      /\ pc' = IF \A i \in Issues : class[i] = Latest(i) THEN "done" ELSE "threw"
  BY DEF CheckCurrent
<1>2. TypeOK' BY <1>1 DEF IInv, TypeOK, store, world, crawl, jobs, Stored, Versions, Outcomes
<1>3. Chains' /\ Work' BY <1>1, Ended DEF Reading
<1>4. Progress' BY <1>1 DEF IInv, Progress, crawl, store, Reading, Versions
<1>5. Rows' BY <1>1 DEF IInv, Rows, store
<1>6. Kept' BY <1>1 DEF IInv, Kept, store, crawl, jobs
<1>7. SuccessMeansCurrent'
  BY <1>1 DEF IInv, Kept, SuccessMeansCurrent, store, crawl, jobs
<1>8. QED BY <1>2, <1>3, <1>4, <1>5, <1>6, <1>7 DEF IInv

(* In an orderly end every issue that is not reported has been accepted or was current. *)
LEMMA AllAccepted ==
  ASSUME IInv, Drained, ~cancelled, ~Failed, NEW i \in targets,
         job[i] # "reported"
  PROVE  job[i] = "accepted"
<1>1. i \in Issues BY DEF IInv, TypeOK
<1>2. ~Aborted BY DEF Aborted
<1>3. job[i] # "queued" BY <1>2 DEF Drained
<1>4. job[i] \notin Working BY <1>1 DEF Drained, Active
<1>5. job[i] \notin {"abandoned", "failed", "refused", "invalid"}
  BY <1>1, <1>2 DEF IInv, Work, Failed
<1>6. job[i] \in {"queued"} \cup Working \cup Settled BY <1>1 DEF IInv, TypeOK
<1>7. QED BY <1>3, <1>4, <1>5, <1>6 DEF Settled

(* What an issue with complete evidence, or none to be read, is given. *)
LEMMA StoredRows ==
  ASSUME IInv, pc = "classify", Store, NEW i \in Issues
  PROVE  /\ i \notin Persistable => row'[i] = row[i]
         /\ i \in Persistable => row'[i] = Whole(Latest(i)) /\ Latest(i) \in Versions
         /\ i \in targets => evidence[i] # None
         /\ evidence[i] # None => evidence[i] = Whole(Latest(i))
                                  /\ Latest(i) = evidence[i]["comments"]
<1>1. /\ evidence[i] \in [Parts -> Versions] \cup {None} /\ row[i] \in Stored
      /\ snap[i] \in Versions
      /\ evidence[i] # None => evidence[i] = Whole(evidence[i]["issue"])
      /\ evidence[i] = None => i \notin targets /\ row[i]["issue"] = snap[i]
                                /\ row[i]["state"] = snap[i]
      /\ row[i]["labels"] = row[i]["issue"]
  BY DEF IInv, TypeOK, Progress, Rows
<1>2. row'[i] = CASE i \notin Persistable -> row[i]
                  [] i \in Persistable /\ evidence[i] # None -> evidence[i]
                  [] OTHER -> [row[i] EXCEPT !["comments"] = snap[i]]
  BY DEF Store
<1>3. evidence[i] # None => /\ evidence[i] = Whole(Latest(i)) /\ Latest(i) \in Versions
                            /\ Latest(i) = evidence[i]["comments"]
  BY <1>1 DEF Latest, Whole, Parts
<1>4. ASSUME i \in Persistable, evidence[i] = None
      PROVE  row'[i] = Whole(Latest(i)) /\ Latest(i) \in Versions
  <2>1. row'[i] = [row[i] EXCEPT !["comments"] = snap[i]] BY <1>2, <1>4
  <2>2. Latest(i) = snap[i] BY <1>4 DEF Latest
  <2>3. row'[i] = [q \in Parts |-> snap[i]]
    <3>1. \A q \in Parts : row'[i][q] = snap[i] BY <1>1, <1>4, <2>1 DEF Parts, Stored
    <3>2. row'[i] = [q \in Parts |-> row'[i][q]] BY <1>1, <2>1 DEF Stored
    <3>3. QED BY <3>1, <3>2
  <2>4. QED BY <2>2, <2>3, <1>1 DEF Whole
<1>5. QED BY <1>1, <1>2, <1>3, <1>4

LEMMA PersistStep == ASSUME IInv, Persist PROVE IInv'
<1>1. /\ Drained /\ ~cancelled /\ pc = "classify" /\ Active = {}
      /\ UNCHANGED <<world, crawl, jobs>>
      /\ IF Persistable = {} THEN UNCHANGED store ELSE Store
  BY DEF Persist, Drained
<1>2. /\ Failed => pc' = "failed"
      /\ ~Failed /\ caller = "dependencies" => pc' = "check"
      /\ ~Failed /\ caller = "page" => pc' = "done"
      /\ caller \in {"page", "dependencies"}
  BY DEF Persist, Return, IInv, TypeOK
<1>3. pc' \in {"failed", "check", "done"} BY <1>2
<1>4. /\ evidence' = evidence /\ snap' = snap /\ targets' = targets /\ pending' = pending
      /\ caller' = caller /\ seen' = seen /\ reads' = reads
      /\ job' = job /\ receipt' = receipt /\ attempts' = attempts
      /\ remote' = remote /\ edits' = edits /\ cancelled' = cancelled
  BY <1>1 DEF crawl, jobs, world
<1>5. Chains' /\ Work' BY <1>1, <1>3, Ended DEF Reading
<1>6. pending = {} /\ snap \in [Issues -> Versions] /\ written = {}
      /\ (caller = "page" => targets = Issues) /\ targets \subseteq Issues
  BY <1>1 DEF IInv, Progress, Reading, TypeOK
<1>7. Staged = {i \in Issues : job[i] = "accepted"}
  BY <1>6 DEF Staged, IInv, Work
<1>8. \A i \in Issues : i \in Persistable <=> i \notin targets \/ job[i] = "accepted"
  BY <1>6 DEF Persistable, Staged
<1>9. CASE Persistable # {}
  <2>1. Store BY <1>1, <1>9
  <2>2. \A i \in Issues :
          /\ i \notin Persistable => row'[i] = row[i]
          /\ i \in Persistable => row'[i] = Whole(Latest(i)) /\ Latest(i) \in Versions
          /\ i \in targets => evidence[i] # None
          /\ evidence[i] # None => evidence[i] = Whole(Latest(i))
                                   /\ Latest(i) = evidence[i]["comments"]
    BY <1>1, <2>1, StoredRows
  <2>3. /\ row' = [i \in Issues |-> row'[i]] /\ written' = Staged
        /\ class' = [i \in Issues |-> IF i \in Staged THEN Latest(i) ELSE class[i]]
    BY <2>1 DEF Store
  <2>4. \A i \in Staged : i \in Issues /\ i \in Persistable /\ i \in targets
                           /\ class'[i] = Latest(i)
    BY <1>6, <1>7, <2>3 DEF Persistable, Staged
  <2>5. \A v \in Versions : Whole(v) \in Stored BY DEF Whole, Stored
  <2>6. row' \in [Issues -> Stored]
    <3>1. \A i \in Issues : row[i] \in Stored BY DEF IInv, TypeOK
    <3>2. \A i \in Issues : row'[i] \in Stored BY <2>2, <2>5, <3>1
    <3>3. QED BY <2>3, <3>2
  <2>7. class' \in [Issues -> Versions \cup {None}]
    <3>1. \A i \in Issues : class[i] \in Versions \cup {None} BY DEF IInv, TypeOK
    <3>2. QED BY <2>2, <2>3, <2>4, <3>1
  <2>8. TypeOK'
    BY <1>3, <1>4, <1>7, <2>3, <2>6, <2>7 DEF IInv, TypeOK, Versions, Stored, Outcomes
  <2>9. Progress'
    <3>1. ASSUME NEW i \in Issues, evidence[i] = None
          PROVE  i \notin targets /\ row'[i]["issue"] = snap[i] /\ row'[i]["state"] = snap[i]
      <4>1. i \notin targets BY <2>2, <3>1
      <4>2. row'[i] = Whole(Latest(i)) BY <1>8, <2>2, <4>1
      <4>3. Latest(i) = snap[i] BY <3>1 DEF Latest
      <4>4. QED BY <4>1, <4>2, <4>3 DEF Whole, Parts
    <3>2. \A i \in Issues : evidence'[i] # None => evidence'[i] = Whole(evidence'[i]["issue"])
      BY <1>4 DEF IInv, Progress
    <3>3. QED BY <1>3, <1>4, <1>6, <3>1, <3>2 DEF Progress, Versions, Reading
  <2>10. Rows'
    <3> SUFFICES ASSUME NEW i \in Issues
                 PROVE  /\ row'[i]["comments"] = row'[i]["issue"]
                        /\ row'[i]["labels"] = row'[i]["issue"]
                        /\ row'[i]["state"] \in {row'[i]["issue"], None}
      BY DEF Rows
    <3>1. CASE i \in Persistable
      <4>1. row'[i] = Whole(Latest(i)) BY <3>1, <2>2
      <4>2. QED BY <4>1 DEF Whole, Parts
    <3>2. CASE i \notin Persistable
      <4>1. row'[i] = row[i] BY <3>2, <2>2
      <4>2. /\ row[i]["comments"] = row[i]["issue"] /\ row[i]["labels"] = row[i]["issue"]
            /\ row[i]["state"] \in {row[i]["issue"], None}
        BY DEF IInv, Rows
      <4>3. QED BY <4>1, <4>2
    <3>3. QED BY <3>1, <3>2
  <2>11. Kept'
    <3>1. written' = {i \in Issues : job'[i] = "accepted"} BY <1>4, <1>7, <2>3
    <3>2. \A i \in written' : row'[i] = evidence'[i] /\ class'[i] = evidence'[i]["comments"]
      BY <1>4, <2>2, <2>3, <2>4
    <3>3. ASSUME pc' = "check", NEW i \in Issues PROVE row'[i] = Whole(Latest(i)')
      <4>1. ~Failed /\ caller = "dependencies" BY <1>2, <3>3
      <4>2. i \in targets => job[i] # "reported" BY <4>1 DEF IInv, Work
      <4>3. i \in Persistable BY <1>1, <1>8, <4>1, <4>2, AllAccepted
      <4>4. Latest(i)' = Latest(i) BY <1>4 DEF Latest
      <4>5. QED BY <2>2, <4>3, <4>4
    <3>4. QED BY <3>1, <3>2, <3>3 DEF Kept
  <2>12. SuccessMeansCurrent'
    <3> SUFFICES ASSUME pc' = "done", NEW i \in Issues, job[i] # "reported"
                 PROVE  row'[i] = Whole(class'[i])
      BY <1>4 DEF SuccessMeansCurrent
    <3>1. ~Failed /\ targets = Issues BY <1>2, <1>6
    <3>2. i \in Staged BY <1>1, <1>7, <3>1, AllAccepted
    <3>3. QED BY <2>2, <2>4, <3>2
  <2>13. QED BY <1>5, <2>8, <2>9, <2>10, <2>11, <2>12 DEF IInv
<1>10. CASE Persistable = {}
  <2>1. row' = row /\ class' = class /\ written' = written BY <1>1, <1>10 DEF store
  <2>2. \A i \in Issues : i \in targets /\ job[i] # "accepted" BY <1>8, <1>10
  <2>3. TypeOK' BY <1>3, <1>4, <2>1 DEF IInv, TypeOK, Versions, Stored, Outcomes
  <2>4. Progress' BY <1>1, <1>3, <1>4, <1>6, <2>1 DEF IInv, Progress, Versions, Reading
  <2>5. Rows' BY <2>1 DEF IInv, Rows
  <2>6. ASSUME ~Failed, NEW i \in Issues PROVE job[i] = "reported"
    BY <1>1, <2>2, <2>6, AllAccepted
  <2>7. Kept'
    <3>1. written' = {i \in Issues : job'[i] = "accepted"} BY <1>4, <1>6, <2>1, <2>2
    <3>2. written' = {} BY <1>6, <2>1
    <3>3. ASSUME pc' = "check", NEW i \in Issues PROVE FALSE
      <4>1. ~Failed /\ caller = "dependencies" BY <1>2, <3>3
      <4>2. QED BY <4>1, <2>6 DEF IInv, Work
    <3>4. QED BY <3>1, <3>2, <3>3 DEF Kept
  <2>8. SuccessMeansCurrent' BY <1>2, <1>4, <2>6 DEF SuccessMeansCurrent
  <2>9. QED BY <1>5, <2>3, <2>4, <2>5, <2>7, <2>8 DEF IInv
<1>11. QED BY <1>9, <1>10

------------------------------------------------------------------------------
(* The invariant, and what follows from it.                                   *)

LEMMA EditStep == ASSUME IInv, NEW i \in Issues, Edit(i) PROVE IInv'
<1>1. /\ pc \in Reading /\ pc' = pc /\ edits' = edits + 1 /\ edits' \in Versions
      /\ remote' = [remote EXCEPT ![i] = edits + 1]
      /\ seen' \in {seen, [seen EXCEPT ![i] = @ \cup {edits + 1}]}
      /\ UNCHANGED <<store, cancelled, caller, snap, evidence, targets, pending, reads, jobs>>
  BY BoundsAssumption DEF Edit, Reading, IInv, TypeOK, Versions
<1>2. TypeOK'
  <2>1. /\ edits + 1 \in Versions /\ remote \in [Issues -> Versions]
        /\ seen \in [Issues -> SUBSET Versions]
    BY <1>1 DEF IInv, TypeOK
  <2>2. [seen EXCEPT ![i] = @ \cup {edits + 1}] \in [Issues -> SUBSET Versions]
    BY <2>1
  <2>3. remote' \in [Issues -> Versions] BY <1>1, <2>1
  <2>4. seen' \in [Issues -> SUBSET Versions] BY <1>1, <2>1, <2>2
  <2>5. QED BY <1>1, <2>3, <2>4 DEF IInv, TypeOK, store, jobs, Stored, Versions, Outcomes
<1>3. job' = job /\ attempts' = attempts /\ receipt' = receipt
      /\ row' = row /\ class' = class /\ written' = written
  BY <1>1 DEF jobs, store
<1>4. Chains' BY <1>3 DEF IInv, Chains
<1>5. \A k \in Issues : job[k] = "queued" /\ receipt[k] # "accepted_success"
  BY <1>1 DEF IInv, Work
<1>6. Work' BY <1>3, <1>5 DEF Work, Working
<1>7. Progress' BY <1>1, <1>3 DEF IInv, Progress, Reading, Versions
<1>8. Rows' BY <1>3 DEF IInv, Rows
<1>9. Kept' /\ SuccessMeansCurrent' BY <1>1 DEF Kept, SuccessMeansCurrent, Reading
<1>10. QED BY <1>2, <1>4, <1>6, <1>7, <1>8, <1>9 DEF IInv

LEMMA CancelStep == ASSUME IInv, Cancel PROVE IInv'
<1>1. /\ cancelled' = TRUE /\ pc' = pc /\ UNCHANGED <<store, remote, edits, crawl, jobs>>
  BY DEF Cancel
<1>2. cancelled' \in BOOLEAN /\ Aborted' BY <1>1 DEF Aborted
<1>3. TypeOK'
  BY <1>1, <1>2 DEF IInv, TypeOK, store, crawl, jobs, Stored, Versions, Outcomes
<1>4. Chains' BY <1>1 DEF IInv, Chains, jobs
<1>5. Work'
  <2> SUFFICES ASSUME NEW k \in Issues
               PROVE  /\ job'[k] # "invalid"
                      /\ receipt'[k] = "accepted_success" <=> job'[k] = "accepted"
                      /\ job'[k] # "queued" => k \in targets' /\ pc' \notin Reading
                      /\ job'[k] \in Working => pc' = "classify"
                      /\ job'[k] = "reported" => caller' = "page"
    BY <1>2 DEF Work
  <2>1. job' = job /\ receipt' = receipt /\ targets' = targets /\ caller' = caller
    BY <1>1 DEF jobs, crawl
  <2>2. receipt'[k] = "accepted_success" <=> job'[k] = "accepted"
    BY <2>1 DEF IInv, Work
  <2>3. QED BY <1>1, <2>1, <2>2 DEF IInv, Work
<1>6. Progress' /\ Rows'
  BY <1>1 DEF IInv, Progress, Rows, store, crawl, Versions
<1>7. Kept'
  <2>1. \A k \in Issues : Latest(k)' = Latest(k) BY <1>1 DEF Latest, crawl
  <2>2. QED BY <1>1, <2>1 DEF IInv, Kept, store, crawl, jobs
<1>8. SuccessMeansCurrent' BY <1>1 DEF IInv, SuccessMeansCurrent, store, jobs
<1>9. QED BY <1>3, <1>4, <1>5, <1>6, <1>7, <1>8 DEF IInv

LEMMA StutterStep == ASSUME IInv, UNCHANGED vars PROVE IInv'
<1>1. UNCHANGED <<store, world, crawl, jobs, pc>> BY DEF vars
<1>2. TypeOK' BY <1>1 DEF IInv, TypeOK, store, world, crawl, jobs, Stored, Versions
<1>3. Chains' BY <1>1 DEF IInv, Chains, jobs
<1>4. Work'
  <2>1. Aborted' <=> Aborted BY <1>1 DEF Aborted, Failed, world, jobs
  <2>2. QED BY <1>1, <2>1 DEF IInv, Work, jobs, crawl
<1>5. Progress' /\ Rows' BY <1>1 DEF IInv, Progress, Rows, store, crawl, Versions
<1>6. Kept'
  <2>1. \A k \in Issues : Latest(k)' = Latest(k) BY <1>1 DEF Latest, crawl
  <2>2. QED BY <1>1, <2>1 DEF IInv, Kept, store, crawl, jobs
<1>7. SuccessMeansCurrent' BY <1>1 DEF IInv, SuccessMeansCurrent, store, jobs
<1>8. QED BY <1>2, <1>3, <1>4, <1>5, <1>6, <1>7 DEF IInv

LEMMA NextIInv == IInv /\ [Next]_vars => IInv'
<1> SUFFICES ASSUME IInv, [Next]_vars PROVE IInv' OBVIOUS
<1>1. CASE ReadSnapshots BY <1>1, ReadSnapshotsStep
<1>2. CASE SnapshotsFail BY <1>2, SnapshotsFailStep
<1>3. CASE BeginReads BY <1>3, BeginReadsStep
<1>4. CASE ReadEvidence BY <1>4, ReadEvidenceStep
<1>5. CASE ReadFails BY <1>5, ReadFailsStep
<1>6. ASSUME NEW i \in Issues, Classify(i) PROVE IInv' BY <1>6, ClassifyStep
<1>7. CASE Persist BY <1>7, PersistStep
<1>8. CASE PersistRefused BY <1>8, PersistRefusedStep
<1>9. CASE CheckCurrent BY <1>9, CheckCurrentStep
<1>10. ASSUME NEW i \in Issues, Edit(i) PROVE IInv' BY <1>10, EditStep
<1>11. CASE Cancel BY <1>11, CancelStep
<1>12. CASE UNCHANGED vars BY <1>12, StutterStep
<1>13. QED
  BY <1>1, <1>2, <1>3, <1>4, <1>5, <1>6, <1>7, <1>8, <1>9, <1>10, <1>11, <1>12
  DEF Next, Reconcile, Finished

(* The inductive invariant holds in every state of every call, whatever the   *)
(* number of issues, edits, attempts and reads, and with any concurrency.     *)
THEOREM Invariance == Spec => []IInv
<1>1. QED BY InitIInv, NextIInv, PTL DEF Spec

(* The state keeps its type. *)
THEOREM TypeCorrect == Spec => []TypeOK
<1>1. IInv => TypeOK BY DEF IInv
<1>2. QED BY <1>1, Invariance, PTL

(* Neither the rules for an attempt nor those for a receipt ever refuse what  *)
(* the retry loop writes, for every budget of attempts.                       *)
THEOREM LedgerAccepts == Spec => []LedgerAcceptsAttempts
<1>1. IInv => LedgerAcceptsAttempts BY DEF IInv, Work, LedgerAcceptsAttempts
<1>2. QED BY <1>1, Invariance, PTL

(* The rows of an issue are of one version, and the transaction stores the    *)
(* work of exactly the accepted receipts, with the evidence it was made from. *)
THEOREM WorkIsKept == Spec => []AcceptedWorkIsKept
<1>1. ASSUME IInv PROVE AcceptedWorkIsKept
  <2>1. \A i \in Issues : \A q \in Parts : row[i][q] \in {row[i]["issue"], None}
    BY <1>1 DEF IInv, Rows, Parts
  <2>2. {i \in Issues : receipt[i] = "accepted_success"} = {i \in Issues : job[i] = "accepted"}
    BY <1>1 DEF IInv, Work
  <2>3. QED BY <1>1, <2>1, <2>2 DEF IInv, Kept, AcceptedWorkIsKept
<1>2. QED BY <1>1, Invariance, PTL

(* A call that succeeds leaves every issue that it does not report complete   *)
(* and classified at one version.                                             *)
THEOREM SuccessIsCurrent == Spec => []SuccessMeansCurrent
<1>1. IInv => SuccessMeansCurrent BY DEF IInv
<1>2. QED BY <1>1, Invariance, PTL
=============================================================================
