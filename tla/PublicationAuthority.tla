------------------------ MODULE PublicationAuthority ------------------------
(***************************************************************************)
(* What the refresh lease and the operation ledger promise together, with  *)
(* no clock, no transaction and no stage: one holder at a time owns the    *)
(* right to write, only the owner opens an attempt, writes evidence or     *)
(* terminates its own attempt, a score becomes the tip in the same step as *)
(* the success of its run, and an attempt that lost the right can only be  *)
(* closed as abandoned, by a later owner.  RefreshLedger implements it.    *)
(***************************************************************************)
EXTENDS Integers, Sequences

CONSTANTS
  Runs,       \* refresh() calls
  Holders,    \* everything that may own the write right; contains Runs
  Ledgered,   \* the runs an outcome is recorded of; contains Runs
  None

VARIABLES
  owner,      \* who owns the write right, or None
  outcome,    \* outcome[r]: none, open, success, failure or abandoned
  log,        \* the runs whose score was ever published, oldest first
  tip,        \* the run whose score is the current publication, or None
  evidence    \* who wrote the evidence rows last, or None

vars == <<owner, outcome, log, tip, evidence>>

Outcomes == {"none", "open", "success", "failure", "abandoned"}

(* The newest publication of the log whose run succeeded. *)
NewestSuccess(l, o, n) ==
  \/ /\ n = None
     /\ \A i \in 1..Len(l) : o[l[i]] # "success"
  \/ \E i \in 1..Len(l) :
       /\ n = l[i]
       /\ o[l[i]] = "success"
       /\ \A j \in (i + 1)..Len(l) : o[l[j]] # "success"

Init ==
  /\ owner = None
  /\ outcome \in [Ledgered -> Outcomes]
  /\ \A r \in Runs : outcome[r] = "none"
  /\ log \in Seq(Ledgered)
  /\ tip = IF log = <<>> THEN None ELSE log[Len(log)]
  /\ evidence = None

Grant(h) ==
  /\ owner' = h
  /\ UNCHANGED <<outcome, log, tip, evidence>>

Drop ==
  /\ owner' = None
  /\ UNCHANGED <<outcome, log, tip, evidence>>

(* Opening an attempt closes any number of attempts left open as abandoned *)
(* and takes an unsuccessful publication off the tip.                      *)
Open(r) ==
  /\ owner = r
  /\ outcome[r] = "none"
  /\ \E A \in SUBSET {q \in Ledgered \ {r} : outcome[q] = "open"} :
       outcome' = [q \in Ledgered |->
                     IF q = r THEN "open"
                     ELSE IF q \in A THEN "abandoned" ELSE outcome[q]]
  /\ IF tip # None /\ outcome'[tip] \in {"failure", "abandoned"}
     THEN NewestSuccess(log, outcome', tip')
     ELSE tip' = tip
  /\ UNCHANGED <<owner, log, evidence>>

Publish(r) ==
  /\ owner = r
  /\ outcome[r] = "open"
  /\ outcome' = [outcome EXCEPT ![r] = "success"]
  /\ log' = Append(log, r)
  /\ tip' = r
  /\ UNCHANGED <<owner, evidence>>

Fail(r) ==
  /\ owner = r
  /\ outcome[r] = "open"
  /\ outcome' = [outcome EXCEPT ![r] = "failure"]
  /\ UNCHANGED <<owner, log, tip, evidence>>

Write(h) ==
  /\ owner = h
  /\ evidence' = h
  /\ UNCHANGED <<owner, outcome, log, tip>>

Next ==
  \/ Drop
  \/ \E h \in Holders : Grant(h) \/ Write(h)
  \/ \E r \in Runs : Open(r) \/ Publish(r) \/ Fail(r)

Spec == Init /\ [][Next]_vars
=============================================================================
