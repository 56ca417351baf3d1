--------------------------- MODULE Installer_proof ---------------------------
(***************************************************************************)
(* Proofs about Installer, for any transactions, releases, shells,         *)
(* watchdogs and number of faults.  They hold of every behaviour, up to    *)
(* the moment at which an activation goes to its exit trap without the     *)
(* lock (strayed): what its rollback does then, other commands interrupt.  *)
(*                                                                         *)
(* The invariant has four parts.                                           *)
(*   FlowInv      which stages a process may still have before it, who     *)
(*                holds the lock meanwhile, what the boot reconciler       *)
(*                implies for the service                                  *)
(*   Data         how the records, the files and the service agree         *)
(*   ReachedInv   what the stages that are behind the holder of the lock   *)
(*                have established                                         *)
(*   RecordedInv  whoever is about to seal a deployment has put the        *)
(*                outcome on disk before, whatever happened in between     *)
(* Only the holder of the lock writes, so ReachedInv and Data are shown of *)
(* one process at a time; the first part is what makes that so.            *)
(***************************************************************************)
EXTENDS Installer, TLAPS

------------------------------------------------------------------------------
(* The lists of stages.  Every list a process can have is a chain: each stage *)
(* may be followed by the next one, an activation that has its intent before  *)
(* it does nothing but activate, and no decision comes after a seal.          *)
Elems(q) == {q[i] : i \in DOMAIN q}

AfterRecovery == {"intents", "intend", "approve", "completed", "finalized", "rollback",
                  "commit", "undo", "review", "seal", "fail"}
Recoveries == {"discard", "intents", "finalized", "completed", "drop",
               "reload_pending", "reload_decided", "reload_done"}
Follows(s, n) ==
  \/ s = "intend" /\ n = "unpack"
  \/ s = "unpack" /\ n = "halt"
  \/ s = "halt" /\ n = "snapshot"
  \/ s = "snapshot" /\ n = "pend"
  \/ s = "pend" /\ n = "arm"
  \/ s = "arm" /\ n = "unintend"
  \/ s = "unintend" /\ n = "promote"
  \/ s = "promote" /\ n = "report"
  \/ s = "report" /\ n = "switch"
  \/ s = "switch" /\ n = "activated"
  \/ s = "activated" /\ n = "permit"
  \/ s = "permit" /\ n \in {"restart", "ready"}
  \/ s = "restart" /\ n = "relock"
  \/ s = "relock" /\ n \in {"confirm", "reload_intent", "reload_pending",
                           "reload_decided", "reload_done"}
  \/ s = "reload_intent" /\ n = "discard"
  \/ s \in Recoveries /\ n \in AfterRecovery
  \/ s = "complete" /\ n = "grant"
  \/ s = "grant" /\ n = "drop"
  \/ s = "approve" /\ n = "verify"
  \/ s = "verify" /\ n = "valid"
  \/ s = "valid" /\ n \in {"ready", "permit"}
  \/ s = "ready" /\ n = "decide"
  \/ s = "rollback" /\ n = "cease"
  \/ s = "cease" /\ n = "restore"
  \/ s = "restore" /\ n = "switchback"
  \/ s = "switchback" /\ n = "regrant"
  \/ s = "regrant" /\ n = "decide"
  \/ s = "decide" /\ n \in {"previous", "seal"}
  \/ s = "previous" /\ n = "completed"
  \/ s = "seal" /\ n = "finalized"
  \/ s = "fail" /\ n = "fail"

(* The stages of an activation after its intent, and with its restart. *)
Activating == {"unpack", "halt", "snapshot", "pend", "arm", "unintend", "promote",
               "report", "switch", "activated"}
Guarded == Activating \cup {"permit", "restart", "relock", "confirm", "trap"}

Later(s, n) == (s = "intend" => n \in Guarded) /\ (s = "seal" => n # "decide")

Chain(q) ==
  /\ \A i \in 1..(Len(q) - 1) : Follows(q[i], q[i + 1])
  /\ \A i, k \in 1..Len(q) : i < k => Later(q[i], q[k])

(* What a stage in the list of p says of the command j of p: activations alone *)
(* have the stages of an activation, a rollback has decided for one, and the   *)
(* boot reconciler never restarts the service that waits for it.               *)
Armed(j) == j.cmd = "activate" /\ j.trap = "set"
Suits(p, j, s) ==
  /\ s \in Activating \cup {"intend", "confirm", "trap"} => j.cmd = "activate"
  /\ s = "intend" => j.trap = "off"
  /\ s \in Activating \cup {"confirm"} => j.trap # "run"
  /\ s = "trap" => j.trap = "set"
  /\ Armed(j) => s \in Guarded
  /\ s \in {"commit", "undo", "review", "expire", "approve"} => j.cmd # "activate"
  /\ s = "valid" => j.out # "rolled-back"
  /\ s = "ready" => j.out = "committed"
  /\ s \in {"rollback", "cease", "restore", "switchback", "regrant"} => j.out = "rolled-back"
  /\ s \in {"decide", "seal"} => j.out # None
  /\ s \in {"completed", "decide", "seal", "previous", "expire"} => j.txn # None
  /\ s \in {"restart", "relock"} => p # Boot

JobInv(p, j) ==
  /\ j \in JobStates
  /\ j.cmd = "none" => j = Idle
  /\ j.cmd \notin {"none", "reconcile"} => j.txn # None /\ p # Boot
  /\ j.cmd = "activate" => j.rel = Target[j.txn] /\ j.out \in {None, "rolled-back"}
  /\ Chain(j.todo)
  /\ \A s \in Elems(j.todo) : Suits(p, j, s)

JobsInv == job \in [Jobs -> JobStates] /\ \A p \in Jobs : JobInv(p, job[p])

(* Who works holds the lock, but between Restart and Relock. *)
LockInv ==
  \A p \in Jobs :
    job[p].todo # <<>> /\ ~At(p, "relock") /\ ~At(p, "fail") => lock = p

(* The boot reconciler works only while the start of the service waits for it. *)
BootInv ==
  /\ job[Boot].cmd # "none" => lock = Boot /\ svc.st = "starting"
  /\ lock # None => job[lock].cmd # "none"

------------------------------------------------------------------------------
(* The data.  A deployment record belongs to its transaction, and a release    *)
(* that it has created is not the one it replaces, so that no cleanup of it    *)
(* removes the previous release.                                               *)
IsRecord(r) == r.rel = Target[r.txn] /\ (r.fresh => r.prev # r.rel)

RecordsInv ==
  /\ intent # None => IsRecord(intent)
  /\ pending # None =>
       /\ IsRecord(pending)
       /\ ~Terminal(pending.txn)
       /\ pending.prev # None => pending.prev \in dirs
       /\ snap[pending.txn] # None /\ snap[pending.txn].txn # pending.txn
       /\ decided # None /\ decided.outcome = "rolled-back" => pending.prev = decided.prev
  /\ decided # None => IsRecord(decided) /\ done[decided.txn] = None
  /\ \A t \in Txns : done[t] # None => IsRecord(done[t]) /\ done[t].txn = t

(* A promotion binding names the database of its own transaction, and what a   *)
(* file was promoted for is a transaction that has got that far.               *)
FilesInv ==
  /\ current # None => current \in dirs
  /\ \A t \in Txns : t \in live => db = [txn |-> t, rel |-> Target[t]]
  /\ db.txn # None => Terminal(db.txn) \/ IsPending(db.txn)
  /\ \A t \in Txns : snap[t] # None /\ snap[t].txn # None =>
       Terminal(snap[t].txn) \/ IsPending(snap[t].txn)
  /\ auth # None => auth.rel = auth.db.rel
  /\ \A r \in {pending, decided} \cup {done[t] : t \in Txns} :
       r # None /\ r.saved # None => r.saved.rel = r.saved.db.rel

(* What the records and the files hold, with the checked properties. *)
Data ==
  /\ TypeOK /\ RecordsInv /\ FilesInv
  /\ DecisionHolds /\ CodeMatchesDb

------------------------------------------------------------------------------
(* What the holder of the lock has reached before each of its stages: an       *)
(* activation that has its intent is alone with it, the service is down from   *)
(* `snapshot' to `activated', and a rollback has replaced what it has passed.  *)
Down(p) == svc.st = "stopped" \/ (p = Boot /\ svc.st = "starting")
Open(t) == IsPending(t) /\ pending.outcome = None /\ ~pending.approved

Reached(p) ==
  LET j == job[p]
      t == j.txn
  IN /\ \A s \in {"unpack", "halt", "snapshot", "pend"} : At(p, s) =>
           /\ intent # None /\ intent.txn = t /\ intent.rel = j.rel
           /\ pending = None /\ ~Terminal(t)
           /\ current = intent.prev
     /\ \A s \in {"halt", "snapshot", "pend", "arm", "unintend", "promote", "report", "switch"} :
          At(p, s) => j.rel \in dirs
     /\ At(p, "pend") => snap[t] # None /\ snap[t] = db
     /\ \A s \in {"snapshot", "pend", "arm", "unintend", "promote", "report", "switch",
                  "activated"} :
          At(p, s) => svc.st = "stopped"
     /\ \A s \in {"arm", "unintend", "promote", "report", "switch", "activated"} :
          At(p, s) => Open(t)
     /\ At(p, "report") => db = [txn |-> t, rel |-> j.rel]
     /\ At(p, "verify") => IsPending(t)
     /\ \A s \in {"valid", "ready"} : At(p, s) => IsPending(t) /\ pending.approved
     /\ (At(p, "decide") \/ At(p, "permit")) /\ j.out = "committed"
          => IsPending(t) /\ pending.approved
     /\ At(p, "complete") => decided # None
     /\ At(p, "grant") => j.sub # None /\ done[j.sub] # None
     /\ \A s \in {"cease", "restore", "switchback", "regrant", "decide"} :
          At(p, s) /\ j.out = "rolled-back" =>
            /\ IsPending(t) /\ ~pending.approved /\ pending.outcome # "committed"
            /\ current \in {pending.rel, pending.prev}
     /\ \A s \in {"cease", "restore", "switchback"} : At(p, s) => j.prev = pending.prev
     /\ \A s \in {"restore", "switchback", "regrant", "decide"} :
          At(p, s) /\ j.out = "rolled-back" => Down(p)
     /\ \A s \in {"switchback", "regrant", "decide"} :
          At(p, s) /\ j.out = "rolled-back" => db.txn # t
     /\ \A s \in {"regrant", "decide"} :
          At(p, s) /\ j.out = "rolled-back" => current = pending.prev

ReachedInv == \A p \in Jobs : lock = p => Reached(p)

(* Whoever is about to seal a deployment has its outcome on disk, also after   *)
(* it has left the lock to others: in one of the places a record moves to.     *)
Recorded(p) ==
  \E r \in {pending, decided, done[job[p].txn]} \ {None} :
    r.txn = job[p].txn /\ r.outcome = job[p].out

Due(p) == "seal" \in Elems(job[p].todo) /\ "decide" \notin Elems(job[p].todo)
RecordedInv == \A p \in Jobs : Due(p) => Recorded(p)
LEMMA TailOf ==
  ASSUME NEW q \in Seq(Stages), q # <<>>
  PROVE  /\ Tail(q) \in Seq(Stages) /\ Tail(q) # q /\ Head(q) \in Stages
         /\ Head(q) \in Elems(q)
         /\ Elems(q) = {Head(q)} \cup Elems(Tail(q))
         /\ Chain(q) => /\ Chain(Tail(q))
                        /\ Tail(q) # <<>> => Follows(Head(q), Head(Tail(q)))
                        /\ \A n \in Elems(Tail(q)) : Later(Head(q), n)
<1> DEFINE r == Tail(q)
<1>1. /\ r \in Seq(Stages) /\ Len(r) = Len(q) - 1
      /\ \A i \in 1..Len(r) : r[i] = q[i + 1]
      /\ Len(q) \in Nat \ {0} /\ Head(q) = q[1]
  OBVIOUS
<1>2. DOMAIN q = 1..Len(q) /\ DOMAIN r = 1..Len(r) /\ \A i \in 1..Len(q) : q[i] \in Stages
  BY <1>1
<1>3. r # q
  <2>1. Len(q) \in Nat /\ Len(r) = Len(q) - 1 BY <1>1
  <2>2. ASSUME r = q PROVE FALSE
    <3>1. Len(r) = Len(q) BY <2>2
    <3>2. QED BY <2>1, <3>1
  <2>3. QED BY <2>2
<1>4. Elems(q) = {q[1]} \cup Elems(r)
  <2>1. ASSUME NEW i \in 1..Len(q) PROVE q[i] \in {q[1]} \cup Elems(r)
    <3>1. CASE i = 1 BY <3>1
    <3>2. CASE i # 1
      <4>1. i - 1 \in 1..Len(r) /\ r[i - 1] = q[i] BY <1>1, <3>2
      <4>2. QED BY <4>1, <1>2 DEF Elems
    <3>3. QED BY <3>1, <3>2
  <2>2. ASSUME NEW i \in 1..Len(r) PROVE r[i] \in Elems(q)
    <3>1. i + 1 \in 1..Len(q) /\ r[i] = q[i + 1] BY <1>1
    <3>2. QED BY <3>1, <1>2 DEF Elems
  <2>3. q[1] \in Elems(q) BY <1>1, <1>2 DEF Elems
  <2>4. QED BY <2>1, <2>2, <2>3, <1>2 DEF Elems
<1>5. ASSUME Chain(q) PROVE Chain(r) /\ (r # <<>> => Follows(Head(q), Head(r)))
  <2>1. ASSUME NEW i \in 1..(Len(r) - 1) PROVE Follows(r[i], r[i + 1])
    <3>1. i + 1 \in 1..(Len(q) - 1) /\ i \in 1..Len(r) /\ i + 1 \in 1..Len(r) BY <1>1
    <3>2. Follows(q[i + 1], q[(i + 1) + 1]) BY <1>5, <3>1 DEF Chain
    <3>3. QED BY <3>1, <3>2, <1>1
  <2>2. ASSUME r # <<>> PROVE Follows(Head(q), Head(r))
    <3>1. Len(r) >= 1 /\ Head(r) = r[1] BY <1>1, <2>2
    <3>2. 1 \in 1..(Len(q) - 1) /\ r[1] = q[1 + 1] BY <1>1, <3>1
    <3>3. Follows(q[1], q[1 + 1]) BY <1>5, <3>2 DEF Chain
    <3>4. QED BY <1>1, <3>1, <3>2, <3>3
  <2>3. ASSUME NEW i \in 1..Len(r), NEW k \in 1..Len(r), i < k
        PROVE  Later(r[i], r[k])
    <3>1. /\ i + 1 \in 1..Len(q) /\ k + 1 \in 1..Len(q) /\ i + 1 < k + 1
          /\ r[i] = q[i + 1] /\ r[k] = q[k + 1]
      BY <1>1, <2>3
    <3>2. QED BY <3>1, <2>3, <1>5 DEF Chain
  <2>4. QED BY <2>1, <2>2, <2>3 DEF Chain
<1>6. Head(q) \in Stages /\ Head(q) \in Elems(q)
  <2>1. 1 \in 1..Len(q) BY <1>1
  <2>2. QED BY <2>1, <1>1, <1>2 DEF Elems
<1>7. ASSUME Chain(q) PROVE \A n \in Elems(r) : Later(Head(q), n)
  <2>1. ASSUME NEW k \in 1..Len(r) PROVE Later(Head(q), r[k])
    <3>1. 1 \in 1..Len(q) /\ k + 1 \in 1..Len(q) /\ 1 < k + 1 /\ r[k] = q[k + 1] BY <1>1
    <3>2. QED BY <3>1, <1>1, <1>7 DEF Chain
  <2>2. QED BY <2>1, <1>2 DEF Elems
<1>8. QED BY <1>1, <1>3, <1>4, <1>5, <1>6, <1>7

LEMMA ConcatOf ==
  ASSUME NEW a \in Seq(Stages), NEW b \in Seq(Stages), a # <<>>
  PROVE  /\ a \o b \in Seq(Stages) /\ a \o b # <<>>
         /\ Head(a \o b) = Head(a)
         /\ Elems(a \o b) = Elems(a) \cup Elems(b)
         /\ /\ Chain(a) /\ Chain(b) /\ (b # <<>> => Follows(a[Len(a)], Head(b)))
            /\ \A s \in Elems(a), n \in Elems(b) : Later(s, n)
            => Chain(a \o b)
<1> DEFINE c == a \o b
<1>1. /\ c \in Seq(Stages) /\ Len(c) = Len(a) + Len(b) /\ Len(a) \in Nat \ {0} /\ Len(b) \in Nat
      /\ \A i \in 1..Len(c) : c[i] = IF i <= Len(a) THEN a[i] ELSE b[i - Len(a)]
  OBVIOUS
<1>2. /\ DOMAIN a = 1..Len(a) /\ DOMAIN b = 1..Len(b) /\ DOMAIN c = 1..Len(c)
  BY <1>1
<1>3. c # <<>> /\ Head(c) = c[1] /\ Head(a) = a[1] /\ c[1] = a[1]
  BY <1>1
<1>4. Elems(c) = Elems(a) \cup Elems(b)
  <2>1. ASSUME NEW i \in 1..Len(c) PROVE c[i] \in Elems(a) \cup Elems(b)
    <3>1. CASE i <= Len(a) BY <3>1, <1>1, <1>2 DEF Elems
    <3>2. CASE ~(i <= Len(a))
      <4>1. i - Len(a) \in 1..Len(b) /\ c[i] = b[i - Len(a)] BY <1>1, <3>2
      <4>2. QED BY <4>1, <1>2 DEF Elems
    <3>3. QED BY <3>1, <3>2
  <2>2. ASSUME NEW i \in 1..Len(a) PROVE a[i] \in Elems(c)
    <3>1. i \in 1..Len(c) /\ c[i] = a[i] BY <1>1
    <3>2. QED BY <3>1, <1>2 DEF Elems
  <2>3. ASSUME NEW i \in 1..Len(b) PROVE b[i] \in Elems(c)
    <3>1. i + Len(a) \in 1..Len(c) /\ c[i + Len(a)] = b[i] BY <1>1
    <3>2. QED BY <3>1, <1>2 DEF Elems
  <2>4. QED BY <2>1, <2>2, <2>3, <1>2 DEF Elems
<1>5. ASSUME Chain(a), Chain(b), b # <<>> => Follows(a[Len(a)], Head(b)),
             \A s \in Elems(a), n \in Elems(b) : Later(s, n)
      PROVE  Chain(c)
  <2>1. ASSUME NEW i \in 1..(Len(c) - 1) PROVE Follows(c[i], c[i + 1])
    <3>1. CASE i < Len(a)
      <4>1. i \in 1..(Len(a) - 1) /\ c[i] = a[i] /\ c[i + 1] = a[i + 1] BY <3>1, <1>1
      <4>2. QED BY <4>1, <1>5 DEF Chain
    <3>2. CASE i = Len(a)
      <4>1. c[i] = a[Len(a)] /\ c[i + 1] = b[1] /\ Len(b) >= 1 BY <3>2, <1>1
      <4>2. Head(b) = b[1] /\ b # <<>> BY <4>1
      <4>3. QED BY <4>1, <4>2, <1>5
    <3>3. CASE i > Len(a)
      <4>1. /\ i - Len(a) \in 1..(Len(b) - 1) /\ c[i] = b[i - Len(a)]
            /\ c[i + 1] = b[(i - Len(a)) + 1]
        BY <3>3, <1>1
      <4>2. Follows(b[i - Len(a)], b[(i - Len(a)) + 1]) BY <4>1, <1>5 DEF Chain
      <4>3. QED BY <4>1, <4>2
    <3>4. QED BY <3>1, <3>2, <3>3, <1>1
  <2>2. ASSUME NEW i \in 1..Len(c), NEW k \in 1..Len(c), i < k
        PROVE  Later(c[i], c[k])
    <3>1. CASE k <= Len(a)
      <4>1. i \in 1..Len(a) /\ k \in 1..Len(a) /\ c[i] = a[i] /\ c[k] = a[k]
        BY <3>1, <2>2, <1>1
      <4>2. QED BY <4>1, <2>2, <1>5 DEF Chain
    <3>2. CASE i <= Len(a) /\ k > Len(a)
      <4>1. /\ i \in 1..Len(a) /\ c[i] = a[i]
            /\ k - Len(a) \in 1..Len(b) /\ c[k] = b[k - Len(a)]
        BY <3>2, <1>1
      <4>2. a[i] \in Elems(a) /\ b[k - Len(a)] \in Elems(b) BY <4>1, <1>2 DEF Elems
      <4>3. QED BY <4>1, <4>2, <1>5
    <3>3. CASE i > Len(a)
      <4>1. /\ i - Len(a) \in 1..Len(b) /\ k - Len(a) \in 1..Len(b) /\ i - Len(a) < k - Len(a)
            /\ c[i] = b[i - Len(a)] /\ c[k] = b[k - Len(a)]
        BY <3>3, <2>2, <1>1
      <4>2. QED BY <4>1, <1>5 DEF Chain
    <3>4. QED BY <3>1, <3>2, <3>3, <1>1, <2>2
  <2>3. QED BY <2>1, <2>2 DEF Chain
<1>6. QED BY <1>1, <1>3, <1>4, <1>5

LEMMA Programs ==
  ASSUME NEW c \in Commands
  PROVE  Program[c] \in Seq(Stages) /\ Program[c] # <<>> /\ Chain(Program[c])
<1>1. CASE c = "activate"
  <2>1. Program[c] = Program["activate"] BY <1>1
  <2> DEFINE q == Program["activate"]
  <2>2. q \in Seq(Stages) /\ q # <<>> /\ Len(q) = 17 BY DEF Program, Stages
  <2>3. ASSUME NEW i \in 1..16 PROVE Follows(q[i], q[i + 1])
    <3>1. CASE i <= 5 BY <3>1 DEF Program, Follows, Recoveries, AfterRecovery
    <3>2. CASE i > 5 /\ i <= 11 BY <3>2 DEF Program, Follows
    <3>3. CASE i > 11 BY <3>3 DEF Program, Follows
    <3>4. QED BY <3>1, <3>2, <3>3
  <2>4. ASSUME NEW i \in 1..17, NEW k \in 1..17, i < k PROVE Later(q[i], q[k])
    <3> SUFFICES ASSUME q[i] = "intend" PROVE q[k] \in Guarded
      BY DEF Later, Program
    <3>1. i = 3 BY <2>4 DEF Program
    <3>2. k \in 4..17 BY <3>1, <2>4
    <3>3. CASE k <= 10 BY <3>2, <3>3 DEF Program, Guarded, Activating
    <3>4. CASE k > 10 BY <3>2, <3>4 DEF Program, Guarded, Activating
    <3>5. QED BY <3>3, <3>4
  <2>5. Len(q) - 1 = 16 BY <2>2
  <2> HIDE DEF q
  <2>6. Chain(q) BY <2>2, <2>3, <2>4, <2>5 DEF Chain
  <2>7. QED BY <2>1, <2>2, <2>6 DEF q
<1> DEFINE Sound(q) == q \in Seq(Stages) /\ q # <<>> /\ Chain(q)
<1>2. CASE c = "authorize"
  <2>1. Program[c] = <<"intents", "approve", "verify">> BY <1>2 DEF Program
  <2>2. Sound(<<"intents", "approve", "verify">>)
    BY DEF Stages, Chain, Later, Follows, Recoveries, AfterRecovery
  <2>3. QED BY <2>1, <2>2
<1>3. CASE c = "commit"
  <2>1. Program[c] = <<"intents", "completed", "finalized", "commit">> BY <1>3 DEF Program
  <2>2. Sound(<<"intents", "completed", "finalized", "commit">>)
    BY DEF Stages, Chain, Later, Follows, Recoveries, AfterRecovery
  <2>3. QED BY <2>1, <2>2
<1>4. CASE c = "rollback"
  <2>1. Program[c] = <<"intents", "completed", "finalized", "undo">> BY <1>4 DEF Program
  <2>2. Sound(<<"intents", "completed", "finalized", "undo">>)
    BY DEF Stages, Chain, Later, Follows, Recoveries, AfterRecovery
  <2>3. QED BY <2>1, <2>2
<1>5. CASE c = "reconcile"
  <2>1. Program[c] = <<"intents", "finalized", "review">> BY <1>5 DEF Program
  <2>2. Sound(<<"intents", "finalized", "review">>)
    BY DEF Stages, Chain, Later, Follows, Recoveries, AfterRecovery
  <2>3. QED BY <2>1, <2>2
<1>6. CASE c = "watchdog"
  <2>1. Program[c] = <<"expire">> BY <1>6 DEF Program
  <2>2. Sound(<<"expire">>)
    BY DEF Stages, Chain, Later, Follows, Recoveries, AfterRecovery
  <2>3. QED BY <2>1, <2>2
<1>7. QED BY <1>1, <1>2, <1>3, <1>4, <1>5, <1>6 DEF Commands
------------------------------------------------------------------------------
(* The lists that commands are given on their way. *)
Keeping == <<"verify", "valid", "permit">>
Readying == <<"verify", "valid", "permit", "ready", "decide">> \o Sealing
Quitting == <<"completed", "finalized", "fail">>
Sound(q) == q \in Seq(Stages) /\ q # <<>> /\ Chain(q)

LEMMA SealingList ==
  /\ Sound(Sealing) /\ Head(Sealing) = "seal"
  /\ Elems(Sealing) = {"seal", "finalized", "fail"}
  BY DEF Sound, Sealing, Stages, Chain, Later, Follows, Recoveries, AfterRecovery, Elems

LEMMA SettlingList ==
  /\ Sound(Settling) /\ Head(Settling) = "previous"
  /\ Elems(Settling) = {"previous", "completed", "finalized", "seal", "fail"}
  BY DEF Sound, Settling, Stages, Chain, Later, Follows, Recoveries, AfterRecovery, Elems

LEMMA CommittingList ==
  /\ Sound(Committing) /\ Head(Committing) = "verify"
  /\ Elems(Committing) = {"verify", "valid", "ready", "decide", "seal", "finalized", "fail"}
  BY DEF Sound, Committing, Sealing, Stages, Chain, Later, Follows, Recoveries, AfterRecovery, Elems

LEMMA KeepingList ==
  /\ Sound(Keeping) /\ Head(Keeping) = "verify"
  /\ Elems(Keeping) = {"verify", "valid", "permit"}
  BY DEF Sound, Keeping, Stages, Chain, Later, Follows, Recoveries, AfterRecovery, Elems

LEMMA ReadyingList ==
  /\ Sound(Readying) /\ Head(Readying) = "verify"
  /\ Elems(Readying) = {"verify", "valid", "permit", "ready", "decide", "seal", "finalized", "fail"}
  BY DEF Sound, Readying, Sealing, Stages, Chain, Later, Follows, Recoveries, AfterRecovery, Elems

LEMMA QuittingList ==
  /\ Sound(Quitting) /\ Head(Quitting) = "completed"
  /\ Elems(Quitting) = {"completed", "finalized", "fail"}
  BY DEF Sound, Quitting, Stages, Chain, Later, Follows, Recoveries, AfterRecovery, Elems

LEMMA RollingList ==
  /\ Sound(Rolling) /\ Head(Rolling) = "rollback"
  /\ Elems(Rolling) = {"rollback", "cease", "restore", "switchback", "regrant", "decide"}
                      \cup Elems(Settling)
<1> DEFINE a == <<"rollback", "cease", "restore", "switchback", "regrant", "decide">>
<1>1. /\ Sound(a) /\ Head(a) = "rollback" /\ a[Len(a)] = "decide"
      /\ Elems(a) = {"rollback", "cease", "restore", "switchback", "regrant", "decide"}
  BY DEF Sound, Stages, Chain, Later, Follows, Elems
<1>2. Follows("decide", "previous") BY DEF Follows
<1>3. \A s \in Elems(a), n \in Elems(Settling) : Later(s, n) BY <1>1 DEF Later
<1>4. Rolling = a \o Settling BY DEF Rolling
<1> HIDE DEF a
<1>5. QED BY <1>1, <1>2, <1>3, <1>4, ConcatOf, SettlingList DEF Sound

(* What an interrupted activation has left to do. *)
LEMMA ExitList ==
  ASSUME NEW a \in {<<"intents">>, <<>>}, NEW b \in {Rolling, <<>>}
  PROVE  /\ Sound(a \o b \o <<"fail">>)
         /\ Head(a \o b \o <<"fail">>) \in {"intents", "rollback", "fail"}
         /\ Elems(a \o b \o <<"fail">>) \subseteq {"intents", "fail"} \cup Elems(Rolling)
         /\ "seal" \in Elems(a \o b \o <<"fail">>) => "decide" \in Elems(a \o b \o <<"fail">>)
<1> DEFINE c == <<"fail">>
           i == <<"intents">>
<1>1. Sound(c) /\ Head(c) = "fail" /\ Elems(c) = {"fail"}
  BY DEF Sound, Stages, Chain, Later, Elems
<1>2. /\ Sound(i) /\ Head(i) = "intents" /\ Elems(i) = {"intents"} /\ i[Len(i)] = "intents"
  BY DEF Sound, Stages, Chain, Later, Elems
<1>3. Sound(Rolling) /\ Rolling[Len(Rolling)] = "fail" BY RollingList DEF Rolling, Settling
<1>4. /\ Follows("fail", "fail") /\ Follows("intents", "rollback") /\ Follows("intents", "fail")
  BY DEF Follows, Recoveries, AfterRecovery
<1>5. /\ <<>> \o <<>> \o c = c /\ i \o <<>> \o c = i \o c
      /\ <<>> \o Rolling \o c = Rolling \o c
      /\ i \o Rolling \o c = i \o (Rolling \o c)
  BY <1>3 DEF Sound
<1>6. /\ "decide" \in Elems(Rolling) /\ "intend" \notin Elems(Rolling)
      /\ Head(Rolling) = "rollback" /\ "seal" \in Elems(Rolling)
  BY RollingList, SettlingList
<1>17. /\ \A s \in Elems(Rolling), n \in Elems(c) : Later(s, n)
       /\ \A s \in Elems(i) : \A n : Later(s, n)
  BY <1>1, <1>2, <1>6 DEF Later
<1> HIDE DEF c, i
<1> DEFINE r == Rolling \o c
<1>7. /\ Sound(r) /\ Head(r) = "rollback" /\ Elems(r) = Elems(Rolling) \cup {"fail"}
  BY <1>1, <1>3, <1>4, <1>6, <1>17, ConcatOf DEF Sound
<1> HIDE DEF r
<1>8. /\ Sound(i \o r) /\ Head(i \o r) = "intents"
      /\ Elems(i \o r) = {"intents", "fail"} \cup Elems(Rolling)
  BY <1>2, <1>4, <1>7, <1>17, ConcatOf DEF Sound
<1>9. /\ Sound(i \o c) /\ Head(i \o c) = "intents" /\ Elems(i \o c) = {"intents", "fail"}
  BY <1>1, <1>2, <1>4, <1>17, ConcatOf DEF Sound
<1>10. a \o b \o c \in {c, i \o c, r, i \o r}
  <2>1. (a = i \/ a = <<>>) /\ (b = Rolling \/ b = <<>>) BY DEF i
  <2>2. CASE a = i /\ b = Rolling BY <2>2, <1>5 DEF r
  <2>3. CASE a = i /\ b = <<>> BY <2>3, <1>5
  <2>4. CASE a = <<>> /\ b = Rolling BY <2>4, <1>5 DEF r
  <2>5. CASE a = <<>> /\ b = <<>> BY <2>5, <1>5
  <2>6. QED BY <2>1, <2>2, <2>3, <2>4, <2>5
<1> DEFINE Good(x) ==
      /\ Sound(x) /\ Head(x) \in {"intents", "rollback", "fail"}
      /\ Elems(x) \subseteq {"intents", "fail"} \cup Elems(Rolling)
      /\ "seal" \in Elems(x) => "decide" \in Elems(x)
<1>11. Good(c) BY <1>1
<1>12. Good(i \o c) BY <1>9
<1>13. Good(r) BY <1>6, <1>7
<1>14. Good(i \o r) BY <1>6, <1>8
<1> HIDE DEF Good
<1>15. Good(a \o b \o c) BY <1>10, <1>11, <1>12, <1>13, <1>14
<1>16. QED BY <1>15 DEF Good, c

------------------------------------------------------------------------------
(* Jobs: what the ways in which a stage ends make of a job. *)
LEMMA IdleJob == ASSUME NEW p \in Jobs PROVE JobInv(p, Idle)
<1>1. Idle \in JobStates BY InstallerAssumption DEF Idle, JobStates, Commands
<1>2. Idle.todo = <<>> /\ Idle.cmd = "none" BY DEF Idle
<1>3. Chain(<<>>) /\ Elems(<<>>) = {} BY DEF Chain, Later, Elems
<1>4. QED BY <1>1, <1>2, <1>3 DEF JobInv

LEMMA Goes ==
  ASSUME NEW p \in Jobs, NEW j, JobInv(p, j), j.todo # <<>>,
         NEW k \in JobStates, k.todo = Tail(j.todo),
         k.cmd = j.cmd, k.txn = j.txn, k.rel = j.rel, k.out = j.out,
         \/ k.trap = j.trap
         \/ k.trap = "set" /\ Head(j.todo) = "intend"
  PROVE  /\ JobInv(p, k)
         /\ Elems(j.todo) = {Head(j.todo)} \cup Elems(k.todo)
         /\ k.todo # <<>> => Follows(Head(j.todo), Head(k.todo))
                             /\ Suits(p, k, Head(k.todo))
<1>1. j.todo \in Seq(Stages) BY DEF JobInv, JobStates
<1>2. /\ Chain(k.todo) /\ Elems(j.todo) = {Head(j.todo)} \cup Elems(k.todo)
      /\ k.todo # <<>> => Follows(Head(j.todo), Head(k.todo))
      /\ \A n \in Elems(k.todo) : Later(Head(j.todo), n)
      /\ k.todo \in Seq(Stages)
  BY <1>1, TailOf DEF JobInv
<1>3. j.cmd # "none"
  <2>1. ASSUME j.cmd = "none" PROVE FALSE BY <2>1 DEF JobInv, Idle
  <2>2. QED BY <2>1
<1>4. ASSUME NEW s \in Elems(k.todo) PROVE Suits(p, k, s)
  <2>1. Suits(p, j, s) BY <1>2 DEF JobInv
  <2>2. CASE k.trap = j.trap BY <2>1, <2>2 DEF Suits, Armed
  <2>3. CASE Head(j.todo) = "intend" /\ k.trap = "set"
    <3>1. s \in Guarded BY <1>2, <2>3 DEF Later
    <3>2. s # "intend" BY <3>1 DEF Guarded, Activating
    <3>3. QED BY <2>1, <2>3, <3>1, <3>2 DEF Suits, Armed
  <2>4. QED BY <2>2, <2>3
<1>5. k.todo # <<>> => Head(k.todo) \in Elems(k.todo) BY <1>2, TailOf
<1>6. QED BY <1>2, <1>3, <1>4, <1>5 DEF JobInv

LEMMA ShortLists ==
  /\ <<>> \in Seq(Stages) /\ Chain(<<>>) /\ Elems(<<>>) = {}
  /\ Sound(<<"trap">>) /\ Elems(<<"trap">>) = {"trap"} /\ Head(<<"trap">>) = "trap"
  /\ Sound(<<"fail">>) /\ Elems(<<"fail">>) = {"fail"} /\ Head(<<"fail">>) = "fail"
  /\ Sound(<<"permit">>) /\ Elems(<<"permit">>) = {"permit"} /\ Head(<<"permit">>) = "permit"
  BY DEF Sound, Stages, Chain, Later, Elems

LEMMA Fails ==
  ASSUME NEW p \in Jobs, NEW j, JobInv(p, j), j.cmd # "none",
         NEW k \in JobStates, k.cmd = j.cmd, k.txn = j.txn, k.rel = j.rel,
         k.out = j.out, k.trap = j.trap,
         \/ k.todo = <<>>
         \/ Armed(j) /\ k.todo = <<"trap">>
         \/ ~Armed(j) /\ k.todo = <<"fail">>
  PROVE  JobInv(p, k) /\ Elems(k.todo) \subseteq {"trap", "fail"}
<1> DEFINE Fit(q) == /\ Chain(q)
                     /\ \A s \in Elems(q) : (Armed(j) /\ s = "trap") \/ (~Armed(j) /\ s = "fail")
<1>1. Fit(<<>>) BY ShortLists
<1>2. Fit(k.todo)
  <2>1. CASE k.todo = <<>> BY <1>1, <2>1
  <2>2. CASE Armed(j) /\ k.todo = <<"trap">>
    <3>1. Fit(<<"trap">>) BY <2>2, ShortLists DEF Sound
    <3>2. QED BY <2>2, <3>1
  <2>3. CASE ~Armed(j) /\ k.todo = <<"fail">>
    <3>1. Fit(<<"fail">>) BY <2>3, ShortLists DEF Sound
    <3>2. QED BY <2>3, <3>1
  <2>4. QED BY <2>1, <2>2, <2>3
<1>3. \A s \in Elems(k.todo) : Suits(p, k, s)
  BY <1>2 DEF Suits, Armed, Guarded, Activating
<1>4. QED BY <1>1, <1>2, <1>3 DEF JobInv

Prefixes ==
  {<<"restart", "relock", "reload_intent", "discard">>, <<"restart", "relock", "reload_pending">>,
   <<"restart", "relock", "reload_decided">>, <<"restart", "relock", "reload_done">>,
   <<"complete", "grant", "drop">>, <<"grant", "drop">>}

LEMMA PrefixList ==
  ASSUME NEW a \in Prefixes
  PROVE  /\ Sound(a) /\ a[Len(a)] \in Recoveries
         /\ Elems(a) \subseteq {"restart", "relock", "reload_intent", "reload_pending",
                                "reload_decided", "reload_done", "discard", "complete",
                                "grant", "drop"}
         /\ Head(a) \in {"restart", "complete", "grant"}
         /\ Head(a) # "restart" => Elems(a) \cap {"restart", "relock"} = {}
<1> DEFINE Goal(q) ==
      /\ Sound(q) /\ q[Len(q)] \in Recoveries
      /\ Elems(q) \subseteq {"restart", "relock", "reload_intent", "reload_pending",
                             "reload_decided", "reload_done", "discard", "complete",
                             "grant", "drop"}
      /\ Head(q) \in {"restart", "complete", "grant"}
      /\ Head(q) # "restart" => Elems(q) \cap {"restart", "relock"} = {}
<1>1. Goal(<<"restart", "relock", "reload_intent", "discard">>)
  BY DEF Sound, Stages, Chain, Later, Follows, Recoveries, AfterRecovery, Elems
<1>2. Goal(<<"restart", "relock", "reload_pending">>)
  BY DEF Sound, Stages, Chain, Later, Follows, Recoveries, AfterRecovery, Elems
<1>3. Goal(<<"restart", "relock", "reload_decided">>)
  BY DEF Sound, Stages, Chain, Later, Follows, Recoveries, AfterRecovery, Elems
<1>4. Goal(<<"restart", "relock", "reload_done">>)
  BY DEF Sound, Stages, Chain, Later, Follows, Recoveries, AfterRecovery, Elems
<1>5. Goal(<<"complete", "grant", "drop">>)
  BY DEF Sound, Stages, Chain, Later, Follows, Recoveries, AfterRecovery, Elems
<1>6. Goal(<<"grant", "drop">>)
  BY DEF Sound, Stages, Chain, Later, Follows, Recoveries, AfterRecovery, Elems
<1> HIDE DEF Goal
<1>7. Goal(a) BY <1>1, <1>2, <1>3, <1>4, <1>5, <1>6 DEF Prefixes
<1>8. QED BY <1>7 DEF Goal

(* More stages before what is left, on the way of a recovery. *)
Inserted(p, j, a, k) ==
  /\ JobInv(p, k)
  /\ k.todo # <<>> /\ Head(k.todo) = Head(a) /\ ~Armed(k)
  /\ ("seal" \in Elems(k.todo) <=> "seal" \in Elems(j.todo))
  /\ ("decide" \in Elems(k.todo) <=> "decide" \in Elems(j.todo))

LEMMA Inserts ==
  ASSUME NEW p \in Jobs, NEW j, JobInv(p, j), j.todo # <<>>, j.cmd # "none",
         NEW a \in Prefixes, Head(a) = "restart" => p # Boot,
         NEW b,
         \/ Head(j.todo) \in {"finalized", "completed"} /\ b = j.todo
         \/ Head(j.todo) \in {"intents", "previous", "finalized", "completed"} /\ b = Tail(j.todo),
         NEW k \in JobStates, k.todo = a \o b,
         k.cmd = j.cmd, k.txn = j.txn, k.rel = j.rel, k.out = j.out, k.trap = j.trap
  PROVE  Inserted(p, j, a, k)
<1>1. j.todo \in Seq(Stages) BY DEF JobInv, JobStates
<1> DEFINE t == Tail(j.todo)
<1>2. /\ Chain(t) /\ Elems(j.todo) = {Head(j.todo)} \cup Elems(t)
      /\ t # <<>> => Follows(Head(j.todo), Head(t))
      /\ t \in Seq(Stages) /\ Head(j.todo) \in Elems(j.todo)
  BY <1>1, TailOf DEF JobInv
<1>3. Head(j.todo) \in {"intents", "previous", "finalized", "completed"}
  OBVIOUS
<1>4. /\ b \in Seq(Stages) /\ Chain(b) /\ (b # <<>> => Head(b) \in AfterRecovery)
      /\ Elems(b) \subseteq Elems(j.todo)
      /\ Elems(j.todo) \subseteq Elems(b) \cup {Head(j.todo)}
  <2>1. CASE b = t
    <3>1. t # <<>> => Head(t) \in AfterRecovery
      BY <1>2, <1>3 DEF Follows, AfterRecovery
    <3>2. QED BY <2>1, <3>1, <1>2
  <2>2. CASE b = j.todo /\ Head(j.todo) \in {"finalized", "completed"}
    BY <1>1, <2>2 DEF JobInv, AfterRecovery
  <2>3. QED BY <2>1, <2>2
<1>5. /\ Sound(a) /\ a[Len(a)] \in Recoveries
      /\ Elems(a) \subseteq {"restart", "relock", "reload_intent", "reload_pending",
                             "reload_decided", "reload_done", "discard", "complete",
                             "grant", "drop"}
      /\ Head(a) \in {"restart", "complete", "grant"}
      /\ Head(a) # "restart" => Elems(a) \cap {"restart", "relock"} = {}
  BY PrefixList
<1>6. b # <<>> => Follows(a[Len(a)], Head(b)) BY <1>4, <1>5 DEF Follows
<1>13. \A s \in Elems(a), n \in Elems(b) : Later(s, n) BY <1>5 DEF Later
<1>7. /\ Chain(k.todo) /\ Elems(k.todo) = Elems(a) \cup Elems(b)
      /\ k.todo # <<>> /\ Head(k.todo) = Head(a)
  BY <1>4, <1>5, <1>6, <1>13, ConcatOf DEF Sound
<1>8. ~Armed(j)
  <2>1. Suits(p, j, Head(j.todo)) BY <1>2 DEF JobInv
  <2>2. QED BY <1>3, <2>1 DEF Suits, Guarded, Activating
<1>9. ASSUME NEW s \in Elems(k.todo) PROVE Suits(p, k, s)
  <2>1. CASE s \in Elems(b)
    <3>1. Suits(p, j, s) BY <1>4, <2>1 DEF JobInv
    <3>2. QED BY <3>1 DEF Suits, Armed
  <2>2. CASE s \in Elems(a) BY <1>5, <1>8, <2>2 DEF Suits, Armed, Activating
  <2>3. QED BY <1>7, <2>1, <2>2
<1>10. ~Armed(k) BY <1>8 DEF Armed
<1>11. QED BY <1>3, <1>4, <1>5, <1>7, <1>9, <1>10 DEF JobInv, Inserted

------------------------------------------------------------------------------
(* How a step of p changes the jobs: no other job moves (Moved); the command   *)
(* goes on to its next stage (Went), gives up or ends (Quit), or is given      *)
(* stages of a recovery to run first (Deferred).                               *)
Moved(p) == JobsInv' /\ \A q \in Jobs : q # p => job'[q] = job[q]
Same(p) ==
  /\ job'[p].cmd = job[p].cmd /\ job'[p].txn = job[p].txn
  /\ job'[p].rel = job[p].rel /\ job'[p].out = job[p].out
Went(p, s) ==
  /\ Moved(p) /\ Same(p)
  /\ Elems(job[p].todo) = {s} \cup Elems(job'[p].todo)
  /\ job'[p].todo = Tail(job[p].todo) /\ job'[p].todo # job[p].todo
  /\ \A n : At(p, n)' => Follows(s, n) /\ Suits(p, job'[p], n)
Quit(p) ==
  /\ Moved(p) /\ Same(p)
  /\ Elems(job'[p].todo) \subseteq {"trap", "fail"}
  /\ \A n : At(p, n)' => n \in {"trap", "fail"}
Deferred(p, n) ==
  /\ Moved(p) /\ Same(p)
  /\ ("seal" \in Elems(job'[p].todo) <=> "seal" \in Elems(job[p].todo))
  /\ ("decide" \in Elems(job'[p].todo) <=> "decide" \in Elems(job[p].todo))
  /\ job'[p].todo # <<>> /\ Head(job'[p].todo) = n

DeferredTo(p, n, sub) ==
  /\ Deferred(p, n) /\ job'[p].sub = sub /\ job'[p].todo # job[p].todo /\ ~Armed(job'[p])

LEMMA Assign ==
  ASSUME JobsInv, NEW p \in Jobs, NEW k, JobInv(p, k), job' = [job EXCEPT ![p] = k]
  PROVE  Moved(p) /\ job'[p] = k
<1>1. k \in JobStates BY DEF JobInv
<1>2. QED BY <1>1 DEF JobsInv, Moved

(* A process with something to do runs a command. *)
LEMMA Working ==
  ASSUME JobsInv, NEW p \in Jobs, NEW s, At(p, s)
  PROVE  /\ job[p].cmd # "none" /\ job[p].todo # <<>> /\ job[p].todo \in Seq(Stages)
         /\ s \in Elems(job[p].todo) /\ Suits(p, job[p], s) /\ s \in Stages
         /\ job[p] \in JobStates /\ JobInv(p, job[p]) /\ Head(job[p].todo) = s
<1>1. /\ JobInv(p, job[p]) /\ job[p].todo # <<>> /\ Head(job[p].todo) = s
  BY DEF JobsInv, At
<1>2. job[p] \in JobStates /\ job[p].todo \in Seq(Stages) BY <1>1 DEF JobInv, JobStates
<1>3. s \in Elems(job[p].todo) /\ s \in Stages BY <1>1, <1>2, TailOf
<1>4. job[p].cmd # "none" BY <1>1 DEF JobInv, Idle
<1>5. QED BY <1>1, <1>2, <1>3, <1>4 DEF JobInv

LEMMA OnePath ==
  ASSUME JobsInv, NEW p \in Jobs, NEW s, At(p, s),
         NEW k \in JobStates, k.todo = Tail(job[p].todo),
         k.cmd = job[p].cmd, k.txn = job[p].txn, k.rel = job[p].rel, k.out = job[p].out,
         \/ k.trap = job[p].trap
         \/ k.trap = "set" /\ s = "intend",
         job' = [job EXCEPT ![p] = k]
  PROVE  Went(p, s) /\ job'[p] = k
<1>1. JobInv(p, job[p]) /\ job[p].todo # <<>> /\ Head(job[p].todo) = s
      /\ job[p].todo \in Seq(Stages)
  BY Working
<1>2. /\ JobInv(p, k)
      /\ Elems(job[p].todo) = {s} \cup Elems(k.todo)
      /\ k.todo # <<>> => Follows(s, Head(k.todo)) /\ Suits(p, k, Head(k.todo))
  BY <1>1, Goes
<1>3. Moved(p) /\ job'[p] = k BY <1>2, Assign
<1>4. k.todo # job[p].todo BY <1>1, TailOf
<1>5. QED BY <1>2, <1>3, <1>4 DEF Went, Same, At

LEMMA Continues ==
  ASSUME JobsInv, NEW p \in Jobs, NEW s, At(p, s), Continue(p)
  PROVE  Went(p, s) /\ job'[p] = [job[p] EXCEPT !.todo = Tail(@)]
<1> DEFINE k == [job[p] EXCEPT !.todo = Tail(@)]
<1>1. job[p] \in JobStates /\ job[p].todo \in Seq(Stages) /\ job[p].todo # <<>> BY Working
<1>2. Tail(job[p].todo) \in Seq(Stages) BY <1>1, TailOf
<1>3. k \in JobStates BY <1>1, <1>2 DEF JobStates
<1>4. /\ k.todo = Tail(job[p].todo) /\ k.trap = job[p].trap
      /\ k.cmd = job[p].cmd /\ k.txn = job[p].txn /\ k.rel = job[p].rel /\ k.out = job[p].out
  BY <1>1 DEF JobStates
<1>5. job' = [job EXCEPT ![p] = k] BY DEF Continue, JobsInv
<1> HIDE DEF k
<1>6. Went(p, s) /\ job'[p] = k BY <1>3, <1>4, <1>5, OnePath
<1>7. QED BY <1>6 DEF k

LEMMA Quits ==
  ASSUME JobsInv, NEW p \in Jobs, NEW s, At(p, s), Fail(p) \/ Finish(p)
  PROVE  Quit(p) /\ (Finish(p) => job'[p].todo = <<>>)
         /\ (Fail(p) => job'[p].todo = IF Trapped(p) THEN <<"trap">> ELSE <<"fail">>)
<1> DEFINE new == IF Finish(p) THEN <<>> ELSE IF Trapped(p) THEN <<"trap">> ELSE <<"fail">>
           k == [job[p] EXCEPT !.todo = new]
<1>1. job[p] \in JobStates /\ job[p].cmd # "none" /\ JobInv(p, job[p]) BY Working
<1>2. new \in Seq(Stages) BY ShortLists DEF Sound
<1>3. k \in JobStates BY <1>1, <1>2 DEF JobStates
<1>4. /\ k.todo = new /\ k.trap = job[p].trap
      /\ k.cmd = job[p].cmd /\ k.txn = job[p].txn /\ k.rel = job[p].rel /\ k.out = job[p].out
  BY <1>1 DEF JobStates
<1>5. job' = [job EXCEPT ![p] = k] BY DEF Fail, Finish, JobsInv
<1>6. \/ new = <<>> \/ (Armed(job[p]) /\ new = <<"trap">>) \/ (~Armed(job[p]) /\ new = <<"fail">>)
  BY DEF Trapped, Armed
<1>7. ASSUME Finish(p), Fail(p) PROVE FALSE
  <2>1. job'[p].todo = <<>> BY <1>7, <1>1 DEF Finish, JobsInv, JobStates
  <2>2. job'[p].todo = IF Trapped(p) THEN <<"trap">> ELSE <<"fail">>
    BY <1>7, <1>1 DEF Fail, JobsInv, JobStates
  <2>3. <<"trap">> # <<>> /\ <<"fail">> # <<>> OBVIOUS
  <2>4. QED BY <2>1, <2>2, <2>3
<1>8. new \in {<<>>, <<"trap">>, <<"fail">>} OBVIOUS
<1>9. \A n : new # <<>> /\ n = Head(new) => n \in {"trap", "fail"} BY <1>8
<1> HIDE DEF k, new
<1>10. JobInv(p, k) /\ Elems(k.todo) \subseteq {"trap", "fail"} BY <1>1, <1>3, <1>4, <1>6, Fails
<1>11. Moved(p) /\ job'[p] = k BY <1>5, <1>10, Assign
<1>12. Quit(p) BY <1>4, <1>9, <1>10, <1>11 DEF Quit, Same, At
<1>13. QED BY <1>4, <1>7, <1>11, <1>12 DEF new

LEMMA Defers ==
  ASSUME JobsInv, NEW p \in Jobs, NEW s, At(p, s),
         NEW a \in Prefixes, Head(a) = "restart" => p # Boot,
         NEW b,
         \/ s \in {"finalized", "completed"} /\ b = job[p].todo
         \/ s \in {"intents", "previous", "finalized", "completed"} /\ b = Tail(job[p].todo),
         NEW sub \in Txns, NEW prev \in Releases \cup {None},
         job' = [job EXCEPT ![p] = [job[p] EXCEPT !.sub = sub, !.prev = prev, !.todo = a \o b]]
  PROVE  DeferredTo(p, Head(a), sub)
<1> DEFINE k == [job[p] EXCEPT !.sub = sub, !.prev = prev, !.todo = a \o b]
<1>1. /\ job[p] \in JobStates /\ job[p].cmd # "none" /\ JobInv(p, job[p])
      /\ job[p].todo \in Seq(Stages) /\ job[p].todo # <<>> /\ Head(job[p].todo) = s
  BY Working
<1>2. b \in Seq(Stages) BY <1>1, TailOf
<1>3. Sound(a) /\ Head(a) \in {"restart", "complete", "grant"} BY PrefixList
<1>4. a \o b \in Seq(Stages) BY <1>2, <1>3, ConcatOf DEF Sound
<1>5. k \in JobStates BY <1>1, <1>4 DEF JobStates
<1>6. /\ k.todo = a \o b /\ k.trap = job[p].trap /\ k.sub = sub
      /\ k.cmd = job[p].cmd /\ k.txn = job[p].txn /\ k.rel = job[p].rel /\ k.out = job[p].out
  BY <1>1 DEF JobStates
<1> HIDE DEF k
<1>7. /\ JobInv(p, k)
      /\ k.todo # <<>> /\ Head(k.todo) = Head(a) /\ ~Armed(k)
      /\ ("seal" \in Elems(k.todo) <=> "seal" \in Elems(job[p].todo))
      /\ ("decide" \in Elems(k.todo) <=> "decide" \in Elems(job[p].todo))
  <2>1. \/ Head(job[p].todo) \in {"finalized", "completed"} /\ b = job[p].todo
        \/ /\ Head(job[p].todo) \in {"intents", "previous", "finalized", "completed"}
           /\ b = Tail(job[p].todo)
    BY <1>1
  <2>2. Inserted(p, job[p], a, k) BY <1>1, <1>5, <1>6, <2>1, Inserts
  <2>3. QED BY <2>2 DEF Inserted
<1>8. Moved(p) /\ job'[p] = k BY <1>7, Assign DEF k
<1>9. k.todo # job[p].todo BY <1>1, <1>3, <1>7
<1>10. QED BY <1>6, <1>7, <1>8, <1>9 DEF Deferred, DeferredTo, Same

LEMMA DefersTail ==
  ASSUME JobsInv, NEW p \in Jobs,
         NEW s \in {"intents", "previous", "finalized", "completed"}, At(p, s),
         NEW a \in Prefixes, Head(a) = "restart" => p # Boot,
         NEW sub \in Txns, NEW prev \in Releases \cup {None},
         job' = [job EXCEPT ![p] = [job[p] EXCEPT !.sub = sub, !.prev = prev,
                                                  !.todo = a \o Tail(job[p].todo)]]
  PROVE  DeferredTo(p, Head(a), sub)
<1> DEFINE b == Tail(job[p].todo)
<1>1. \/ s \in {"finalized", "completed"} /\ b = job[p].todo
      \/ s \in {"intents", "previous", "finalized", "completed"} /\ b = Tail(job[p].todo)
  OBVIOUS
<1>2. job' = [job EXCEPT ![p] = [job[p] EXCEPT !.sub = sub, !.prev = prev, !.todo = a \o b]]
  OBVIOUS
<1> HIDE DEF b
<1>3. QED BY <1>1, <1>2, Defers

LEMMA DefersAll ==
  ASSUME JobsInv, NEW p \in Jobs, NEW s \in {"finalized", "completed"}, At(p, s),
         NEW a \in Prefixes, Head(a) = "restart" => p # Boot,
         NEW sub \in Txns, NEW prev \in Releases \cup {None},
         job' = [job EXCEPT ![p] = [job[p] EXCEPT !.sub = sub, !.prev = prev,
                                                  !.todo = a \o job[p].todo]]
  PROVE  DeferredTo(p, Head(a), sub)
<1> DEFINE b == job[p].todo
<1>1. \/ s \in {"finalized", "completed"} /\ b = job[p].todo
      \/ s \in {"intents", "previous", "finalized", "completed"} /\ b = Tail(job[p].todo)
  OBVIOUS
<1>2. job' = [job EXCEPT ![p] = [job[p] EXCEPT !.sub = sub, !.prev = prev, !.todo = a \o b]]
  OBVIOUS
<1> HIDE DEF b
<1>3. QED BY <1>1, <1>2, Defers

------------------------------------------------------------------------------
(* The lists that a decision may choose, with the outcome it stands for. *)
Decisions ==
  {<<Sealing, "committed">>, <<Settling, "rolled-back">>, <<Rolling, "rolled-back">>,
   <<Committing, "committed">>, <<Readying, "committed">>, <<Keeping, None>>,
   <<<<"permit">>, None>>}

LEMMA DecisionLists ==
  ASSUME NEW q, NEW out, <<q, out>> \in Decisions
  PROVE  /\ Sound(q) /\ out \in {None, "committed", "rolled-back"}
         /\ Head(q) \in {"seal", "previous", "rollback", "verify", "permit"}
         /\ Head(q) \in {"seal", "previous"} => out # None
         /\ Head(q) = "permit" => out = None
         /\ "seal" \in Elems(q) /\ "decide" \notin Elems(q) => Head(q) \in {"seal", "previous"}
         /\ \A s \in Elems(q) :
              \/ s \in {"seal", "decide", "previous", "completed"} /\ out # None
              \/ s \in {"finalized", "fail", "permit", "verify"}
              \/ s \in {"rollback", "cease", "restore", "switchback",
                        "regrant"} /\ out = "rolled-back"
              \/ s = "valid" /\ out # "rolled-back"
              \/ s = "ready" /\ out = "committed"
<1> DEFINE Fit(x, o) ==
      /\ Sound(x) /\ o \in {None, "committed", "rolled-back"}
      /\ Head(x) \in {"seal", "previous", "rollback", "verify", "permit"}
      /\ Head(x) \in {"seal", "previous"} => o # None
      /\ Head(x) = "permit" => o = None
      /\ "seal" \in Elems(x) /\ "decide" \notin Elems(x) => Head(x) \in {"seal", "previous"}
      /\ \A s \in Elems(x) :
           \/ s \in {"seal", "decide", "previous", "completed"} /\ o # None
           \/ s \in {"finalized", "fail", "permit", "verify"}
           \/ s \in {"rollback", "cease", "restore", "switchback", "regrant"} /\ o = "rolled-back"
           \/ s = "valid" /\ o # "rolled-back"
           \/ s = "ready" /\ o = "committed"
<1>1. None # "committed" /\ None # "rolled-back" BY NoneAssumption
<1>2. Fit(Sealing, "committed") BY <1>1, SealingList
<1>3. Fit(Settling, "rolled-back") BY <1>1, SettlingList
<1>4. Fit(Rolling, "rolled-back") BY <1>1, RollingList, SettlingList
<1>5. Fit(Committing, "committed") BY <1>1, CommittingList
<1>6. Fit(Readying, "committed") BY <1>1, ReadyingList
<1>7. Fit(Keeping, None) BY <1>1, KeepingList
<1>8. Fit(<<"permit">>, None) BY <1>1, ShortLists
<1> HIDE DEF Fit
<1>9. Fit(q, out)
  <2>1. \/ q = Sealing /\ out = "committed"
        \/ q = Settling /\ out = "rolled-back"
        \/ q = Rolling /\ out = "rolled-back"
        \/ q = Committing /\ out = "committed"
        \/ q = Readying /\ out = "committed"
        \/ q = Keeping /\ out = None
        \/ q = <<"permit">> /\ out = None
    BY DEF Decisions
  <2>2. QED BY <2>1, <1>2, <1>3, <1>4, <1>5, <1>6, <1>7, <1>8
<1>10. QED BY <1>9 DEF Fit

Decided(p, q, out, t) ==
  /\ Moved(p)
  /\ job'[p].cmd = job[p].cmd /\ job'[p].rel = job[p].rel
  /\ job'[p].txn = t /\ job'[p].out = out
  /\ job'[p].todo # <<>> /\ Head(job'[p].todo) = Head(q)
  /\ Elems(job'[p].todo) = Elems(q)

LEMMA Decides ==
  ASSUME JobsInv, NEW p \in Jobs, NEW s \in {"commit", "undo", "review", "expire"}, At(p, s),
         NEW q, NEW out, <<q, out>> \in Decisions, NEW t \in Txns,
         job' = [job EXCEPT ![p] = [job[p] EXCEPT !.todo = q, !.out = out, !.txn = t]]
  PROVE  Decided(p, q, out, t)
<1> DEFINE k == [job[p] EXCEPT !.todo = q, !.out = out, !.txn = t]
<1>1. /\ job[p] \in JobStates /\ job[p].cmd # "none" /\ JobInv(p, job[p])
      /\ Suits(p, job[p], s)
  BY Working
<1>2. /\ Sound(q) /\ out \in {None, "committed", "rolled-back"}
      /\ \A x \in Elems(q) :
              \/ x \in {"seal", "decide", "previous", "completed"} /\ out # None
              \/ x \in {"finalized", "fail", "permit", "verify"}
              \/ x \in {"rollback", "cease", "restore", "switchback",
                        "regrant"} /\ out = "rolled-back"
              \/ x = "valid" /\ out # "rolled-back"
              \/ x = "ready" /\ out = "committed"
  BY DecisionLists
<1>3. k \in JobStates BY <1>1, <1>2 DEF JobStates, Sound
<1>4. /\ k.todo = q /\ k.trap = job[p].trap /\ k.out = out /\ k.txn = t
      /\ k.cmd = job[p].cmd /\ k.rel = job[p].rel
  BY <1>1 DEF JobStates
<1>5. k.cmd # "activate" /\ k.txn # None BY <1>1, <1>4, InstallerAssumption DEF Suits
<1> HIDE DEF k
<1>6. \A x \in Elems(q) : Suits(p, k, x)
  BY <1>2, <1>4, <1>5 DEF Suits, Armed, Activating
<1>7. JobInv(p, k) BY <1>1, <1>2, <1>3, <1>4, <1>5, <1>6 DEF JobInv, Sound
<1>8. Moved(p) /\ job'[p] = k BY <1>7, Assign DEF k
<1>9. QED BY <1>2, <1>4, <1>8 DEF Decided, Sound

(* A command begins; an activation begins to clean up. *)
Begun(p, c) ==
  /\ Moved(p) /\ job[p] = Idle /\ lock = None /\ lock' = p
  /\ job'[p].cmd = c /\ c # "none"
  /\ job'[p].todo # <<>> /\ job'[p].todo # job[p].todo
  /\ Elems(job'[p].todo) \cap {"seal", "decide"} = {}
  /\ Head(job'[p].todo) \in {"finalized", "intents", "expire"}

LEMMA Begins ==
  ASSUME JobsInv, NEW p \in Jobs, NEW i \in JobStates, NEW c \in Commands,
         i.cmd = c, i.trap = "off",
         c # "reconcile" => i.txn # None /\ p # Boot,
         c = "activate" => i.rel = Target[i.txn] /\ i.out = None,
         Begin(p, i)
  PROVE  Begun(p, c)
<1> DEFINE q == Program[c]
           k == [i EXCEPT !.todo = q]
<1>1. Sound(q) BY Programs DEF Sound
<1>13. k \in JobStates BY <1>1 DEF JobStates, Sound
<1>3. job' = [job EXCEPT ![p] = k] BY DEF Begin
<1>7. /\ k.todo = q /\ k.cmd = c /\ k.txn = i.txn /\ k.rel = i.rel /\ k.out = i.out
      /\ k.trap = "off" /\ c # "none" /\ None # "rolled-back" /\ None # "committed"
  BY NoneAssumption DEF Commands, JobStates
<1> HIDE DEF k
<1>4. ASSUME NEW s \in Elems(q) PROVE Suits(p, k, s) /\ s \notin {"seal", "decide"}
  <2>1. CASE c = "activate"
    <3>1. s \in {"finalized", "intents", "intend", "unpack", "halt",
                   "snapshot", "pend", "arm", "unintend", "promote", "report", "switch",
                   "activated", "permit", "restart", "relock", "confirm"}
      <4>1. q = Program["activate"] /\ DOMAIN Program["activate"] = 1..17
        BY <2>1 DEF Program
      <4>2. PICK n \in 1..17 : s = Program["activate"][n] BY <4>1 DEF Elems
      <4>3. CASE n <= 8 BY <4>2, <4>3 DEF Program
      <4>4. CASE n > 8 BY <4>2, <4>4 DEF Program
      <4>5. QED BY <4>3, <4>4
    <3>2. QED BY <1>7, <2>1, <3>1 DEF Suits, Armed, Activating
  <2>2. CASE c = "authorize"
    <3>1. s \in {"intents", "approve", "verify"} BY <2>2 DEF Program, Elems
    <3>2. QED BY <1>7, <2>2, <3>1 DEF Suits, Armed, Activating
  <2>3. CASE c = "commit"
    <3>1. s \in {"intents", "completed", "finalized", "commit"} BY <2>3 DEF Program, Elems
    <3>2. QED BY <1>7, <2>3, <3>1 DEF Suits, Armed, Activating
  <2>4. CASE c = "rollback"
    <3>1. s \in {"intents", "completed", "finalized", "undo"} BY <2>4 DEF Program, Elems
    <3>2. QED BY <1>7, <2>4, <3>1 DEF Suits, Armed, Activating
  <2>5. CASE c = "reconcile"
    <3>1. s \in {"intents", "finalized", "review"} BY <2>5 DEF Program, Elems
    <3>2. QED BY <1>7, <2>5, <3>1 DEF Suits, Armed, Activating
  <2>6. CASE c = "watchdog"
    <3>1. s \in {"expire"} BY <2>6 DEF Program, Elems
    <3>2. QED BY <1>7, <2>6, <3>1 DEF Suits, Armed, Activating
  <2>7. QED BY <2>1, <2>2, <2>3, <2>4, <2>5, <2>6 DEF Commands
<1>5. Head(q) \in {"finalized", "intents", "expire"} BY DEF Program, Commands
<1>6. job[p] = Idle BY DEF Begin, JobsInv, JobInv
<1> HIDE DEF q
<1>8. JobInv(p, k) BY <1>1, <1>13, <1>4, <1>7 DEF JobInv, Sound
<1>9. Moved(p) /\ job'[p] = k BY <1>3, <1>8, Assign
<1>10. q # <<>> /\ Idle.todo = <<>> BY <1>1 DEF Sound, Idle
<1>11. QED BY <1>4, <1>5, <1>6, <1>7, <1>9, <1>10 DEF Begin, Begun

LEMMA Exits ==
  ASSUME JobsInv, NEW p \in Jobs, ActivationExit(p)
  PROVE  /\ Moved(p) /\ job'[p].txn = job[p].txn /\ job'[p].out = "rolled-back"
         /\ job'[p].todo # <<>> /\ job'[p].cmd # "none"
         /\ Head(job'[p].todo) \in {"intents", "rollback", "fail"}
         /\ "seal" \in Elems(job'[p].todo) => "decide" \in Elems(job'[p].todo)
<1> DEFINE a == IF OwnIntent(p) THEN <<"intents">> ELSE <<>>
           b == IF job[p].created THEN Rolling ELSE <<>>
           q == a \o b \o <<"fail">>
           k == [job[p] EXCEPT !.trap = "run", !.out = "rolled-back", !.todo = q]
<1>1. /\ job[p] \in JobStates /\ job[p].cmd # "none" /\ JobInv(p, job[p])
      /\ Suits(p, job[p], "trap")
  BY Working DEF ActivationExit
<1>2. a \in {<<"intents">>, <<>>} /\ b \in {Rolling, <<>>} OBVIOUS
<1> HIDE DEF a, b
<1>3. /\ Sound(q)
      /\ Head(q) \in {"intents", "rollback", "fail"}
      /\ Elems(q) \subseteq {"intents", "fail"} \cup Elems(Rolling)
      /\ "seal" \in Elems(q) => "decide" \in Elems(q)
  BY <1>2, ExitList
<1>4. job' = [job EXCEPT ![p] = k] BY DEF ActivationExit, JobsInv, a, b
<1> HIDE DEF q
<1>5. k \in JobStates BY <1>1, <1>3 DEF JobStates, Sound
<1>6. /\ k.todo = q /\ k.trap = "run" /\ k.out = "rolled-back" /\ k.txn = job[p].txn
      /\ k.cmd = job[p].cmd /\ k.rel = job[p].rel
  BY <1>1 DEF JobStates
<1> HIDE DEF k
<1>7. /\ k.cmd = "activate" /\ k.txn # None /\ k.rel = Target[k.txn] /\ None # "rolled-back"
      /\ p # Boot
  BY <1>1, <1>6, NoneAssumption DEF Suits, JobInv
<1>8. ASSUME NEW s \in Elems(q) PROVE Suits(p, k, s)
  <2>1. s \in {"intents", "fail", "rollback", "cease", "restore", "switchback", "regrant", "decide",
               "previous", "completed", "finalized", "seal"}
    BY <1>3, RollingList, SettlingList
  <2>2. QED BY <2>1, <1>6, <1>7 DEF Suits, Armed, Activating
<1>9. JobInv(p, k) BY <1>3, <1>5, <1>6, <1>7, <1>8 DEF JobInv, Sound
<1>10. Moved(p) /\ job'[p] = k BY <1>4, <1>9, Assign
<1>11. QED BY <1>1, <1>3, <1>6, <1>10 DEF Sound

------------------------------------------------------------------------------
(* The ways of the stages that do more than go on or fail. *)
LEMMA RecoverIntentsWay ==
  ASSUME TypeOK, JobsInv, NEW p \in Jobs, RecoverIntents(p)
  PROVE  /\ Went(p, "intents") \/ Quit(p) \/ Deferred(p, "restart")
         /\ intent' # intent \/ dirs' # dirs \/ snap' # snap => job'[p].todo # job[p].todo
<1>1. At(p, "intents") BY DEF RecoverIntents
<1>2. CASE Contradicted
  BY <1>1, <1>2, Quits DEF RecoverIntents
<1>3. CASE ~Contradicted /\ ~PrePending
  BY <1>1, <1>3, Continues DEF RecoverIntents, Went
<1>4. CASE ~Contradicted /\ PrePending
  <2>1. intent \in Intents BY <1>4 DEF PrePending, TypeOK
  <2>2. CASE intent.prev = None BY <1>1, <1>4, <2>2, Continues DEF RecoverIntents, Went
  <2>3. CASE intent.prev # None /\ p = Boot
    <3>1. Finish(p) BY <1>4, <2>3 DEF RecoverIntents
    <3>2. Quit(p) /\ job'[p].todo = <<>> BY <1>1, <3>1, Quits
    <3>3. job[p].todo # <<>> BY <1>1 DEF At
    <3>4. QED BY <3>2, <3>3
  <2>4. CASE intent.prev # None /\ p # Boot
    <3> DEFINE a == <<"restart", "relock", "reload_intent", "discard">>
    <3>1. job' = [job EXCEPT ![p] = [job[p] EXCEPT !.sub = intent.txn, !.prev = intent.prev,
                                                   !.todo = a \o Tail(job[p].todo)]]
      BY <1>4, <2>4 DEF RecoverIntents, JobsInv
    <3>2. intent.txn \in Txns /\ intent.prev \in Releases \cup {None}
      BY <2>1 DEF Intents
    <3>3. a \in Prefixes /\ Head(a) = "restart" BY DEF Prefixes
    <3> HIDE DEF a
    <3>4. DeferredTo(p, Head(a), intent.txn) BY <1>1, <2>4, <3>1, <3>2, <3>3, DefersTail
    <3>5. QED BY <3>3, <3>4 DEF DeferredTo
  <2>5. QED BY <2>2, <2>3, <2>4
<1>5. QED BY <1>2, <1>3, <1>4

LEMMA ReloadWay ==
  ASSUME TypeOK, JobsInv, NEW p \in Jobs, Reload(p)
  PROVE  \E s \in {"reload_intent", "reload_pending", "reload_decided", "reload_done"} :
           At(p, s) /\ (Went(p, s) \/ Quit(p))
<1>1. PICK s \in {"reload_intent", "reload_pending", "reload_decided", "reload_done"} :
        /\ At(p, s)
        /\ \/ job' = [job EXCEPT ![p].todo = Tail(@),
                               ![p].ready = IF s = "reload_intent" THEN @ ELSE job[p].sub]
           \/ Fail(p)
  BY DEF Reload
<1>2. CASE Fail(p) BY <1>1, <1>2, Quits
<1>3. CASE job' = [job EXCEPT ![p].todo = Tail(@),
                               ![p].ready = IF s = "reload_intent" THEN @ ELSE job[p].sub]
  <2> DEFINE k == [job[p] EXCEPT !.todo = Tail(@),
                                 !.ready = IF s = "reload_intent" THEN @ ELSE job[p].sub]
  <2>1. job[p] \in JobStates /\ job[p].todo \in Seq(Stages) /\ job[p].todo # <<>>
    BY <1>1, Working
  <2>2. Tail(job[p].todo) \in Seq(Stages) BY <2>1, TailOf
  <2>3. k \in JobStates BY <2>1, <2>2 DEF JobStates
  <2>4. /\ k.todo = Tail(job[p].todo) /\ k.trap = job[p].trap
        /\ k.cmd = job[p].cmd /\ k.txn = job[p].txn /\ k.rel = job[p].rel /\ k.out = job[p].out
    BY <2>1 DEF JobStates
  <2>5. job' = [job EXCEPT ![p] = k] BY <1>3 DEF JobsInv
  <2> HIDE DEF k
  <2>6. Went(p, s) BY <1>1, <2>3, <2>4, <2>5, OnePath
  <2>7. QED BY <1>1, <2>6
<1>4. QED BY <1>1, <1>2, <1>3

(* RestartFor, of a record that is on disk. *)
LEMMA RestartWay ==
  ASSUME JobsInv, NEW p \in Jobs, NEW s \in {"finalized", "completed"}, At(p, s),
         NEW r \in Deployments, NEW x \in {"reload_decided", "reload_done"},
         RestartFor(p, r, x)
  PROVE  Quit(p) \/ Deferred(p, "restart")
<1>1. CASE p = Boot BY <1>1, Quits DEF RestartFor
<1>2. CASE p # Boot
  <2> DEFINE a == <<"restart", "relock", x>>
  <2>1. job' = [job EXCEPT ![p] = [job[p] EXCEPT !.sub = r.txn, !.prev = r.prev,
                                                 !.todo = a \o job[p].todo]]
    BY <1>2 DEF RestartFor, JobsInv
  <2>2. r.txn \in Txns /\ r.prev \in Releases \cup {None} BY DEF Deployments
  <2>3. a \in Prefixes /\ Head(a) = "restart" BY DEF Prefixes
  <2> HIDE DEF a
  <2>4. DeferredTo(p, Head(a), r.txn) BY <1>2, <2>1, <2>2, <2>3, DefersAll
  <2>5. QED BY <2>3, <2>4 DEF DeferredTo
<1>3. QED BY <1>1, <1>2

LEMMA RecoverFinalizedWay ==
  ASSUME TypeOK, JobsInv, NEW p \in Jobs, RecoverFinalized(p)
  PROVE  \/ UNCHANGED <<dirs, snap>> /\ (Went(p, "finalized") \/ Quit(p) \/ Deferred(p, "restart"))
         \/ /\ Deferred(p, "complete") /\ job'[p].todo # job[p].todo /\ ~Armed(job'[p])
            /\ decided # None /\ Fits(decided) /\ done[decided.txn] = None
            /\ job'[p].sub = decided.txn
            /\ snap' = [snap EXCEPT ![decided.txn] = None]
            /\ dirs' = IF decided.outcome = "rolled-back" /\ decided.fresh
                       THEN dirs \ {decided.rel} ELSE dirs
<1>1. At(p, "finalized") BY DEF RecoverFinalized
<1> DEFINE r == decided
           a == <<"complete", "grant", "drop">>
           last == /\ snap' = [snap EXCEPT ![r.txn] = None]
                   /\ dirs' = IF r.outcome = "rolled-back" /\ r.fresh THEN dirs \ {r.rel} ELSE dirs
                   /\ job' = [job EXCEPT ![p].sub = r.txn, ![p].todo = a \o Tail(@)]
<1>2. \/ Continue(p) /\ UNCHANGED <<dirs, snap>>
      \/ Fail(p) /\ UNCHANGED <<dirs, snap>>
      \/ r # None /\ RestartFor(p, r, "reload_decided") /\ UNCHANGED <<dirs, snap>>
      \/ r # None /\ Fits(r) /\ done[r.txn] = None /\ last
  BY DEF RecoverFinalized
<1>3. CASE Continue(p) /\ UNCHANGED <<dirs, snap>> BY <1>1, <1>3, Continues
<1>4. CASE Fail(p) /\ UNCHANGED <<dirs, snap>> BY <1>1, <1>4, Quits
<1>5. CASE r # None /\ RestartFor(p, r, "reload_decided") /\ UNCHANGED <<dirs, snap>>
  <2>1. r \in Deployments BY <1>5 DEF TypeOK
  <2>2. QED BY <1>1, <1>5, <2>1, RestartWay
<1>6. CASE r # None /\ Fits(r) /\ done[r.txn] = None /\ last
  <2>1. r \in Deployments BY <1>6 DEF TypeOK
  <2>2. r.txn \in Txns BY <2>1 DEF Deployments
  <2>3. job[p] \in JobStates BY <1>1, Working
  <2>4. job[p].prev \in Releases \cup {None} BY <2>3 DEF JobStates
  <2>5. [job[p] EXCEPT !.sub = r.txn, !.todo = a \o Tail(job[p].todo)]
          = [job[p] EXCEPT !.sub = r.txn, !.prev = job[p].prev, !.todo = a \o Tail(job[p].todo)]
    BY <2>3 DEF JobStates
  <2>6. job' = [job EXCEPT ![p] = [job[p] EXCEPT !.sub = r.txn, !.prev = job[p].prev,
                                                 !.todo = a \o Tail(job[p].todo)]]
    BY <1>6, <2>5 DEF JobsInv
  <2>7. a \in Prefixes /\ Head(a) = "complete" BY DEF Prefixes
  <2> HIDE DEF a
  <2>8. DeferredTo(p, Head(a), r.txn) BY <1>1, <2>2, <2>4, <2>6, <2>7, DefersTail
  <2>9. QED BY <1>6, <2>7, <2>8 DEF DeferredTo
<1>7. QED BY <1>2, <1>3, <1>4, <1>5, <1>6

LEMMA RecoverCompletedWay ==
  ASSUME TypeOK, JobsInv, NEW p \in Jobs, RecoverCompleted(p)
  PROVE  /\ job[p].txn \in Txns
         /\ \/ Went(p, "completed") \/ Quit(p) \/ Deferred(p, "restart")
            \/ /\ Deferred(p, "grant") /\ done[job[p].txn] # None
               /\ job'[p].sub = done[job[p].txn].txn
<1>1. At(p, "completed") BY DEF RecoverCompleted
<1> DEFINE r == done[job[p].txn]
           a == <<"grant", "drop">>
           last == job' = [job EXCEPT ![p].sub = r.txn, ![p].todo = a \o Tail(@)]
<1>2. /\ job[p] \in JobStates /\ job[p].txn # None
  BY <1>1, Working DEF Suits
<1>3. job[p].txn \in Txns BY <1>2 DEF JobStates
<1>4. \/ Continue(p)
      \/ Fail(p)
      \/ r # None /\ RestartFor(p, r, "reload_done")
      \/ r # None /\ last
  BY DEF RecoverCompleted
<1>5. CASE Continue(p) BY <1>1, <1>3, <1>5, Continues
<1>6. CASE Fail(p) BY <1>1, <1>3, <1>6, Quits
<1>7. CASE r # None /\ RestartFor(p, r, "reload_done")
  <2>1. r \in Deployments BY <1>3, <1>7 DEF TypeOK
  <2>2. QED BY <1>1, <1>3, <1>7, <2>1, RestartWay
<1>8. CASE r # None /\ last
  <2>1. r \in Deployments BY <1>3, <1>8 DEF TypeOK
  <2>2. r.txn \in Txns BY <2>1 DEF Deployments
  <2>4. job[p].prev \in Releases \cup {None} BY <1>2 DEF JobStates
  <2>5. [job[p] EXCEPT !.sub = r.txn, !.todo = a \o Tail(job[p].todo)]
          = [job[p] EXCEPT !.sub = r.txn, !.prev = job[p].prev, !.todo = a \o Tail(job[p].todo)]
    BY <1>2 DEF JobStates
  <2>6. job' = [job EXCEPT ![p] = [job[p] EXCEPT !.sub = r.txn, !.prev = job[p].prev,
                                                 !.todo = a \o Tail(job[p].todo)]]
    BY <1>8, <2>5 DEF JobsInv
  <2>7. a \in Prefixes /\ Head(a) = "grant" BY DEF Prefixes
  <2> HIDE DEF a
  <2>8. DeferredTo(p, Head(a), r.txn) BY <1>1, <2>2, <2>4, <2>6, <2>7, DefersTail
  <2>9. QED BY <1>3, <1>8, <2>7, <2>8 DEF DeferredTo
<1>9. QED BY <1>4, <1>5, <1>6, <1>7, <1>8

LEMMA WriteIntentWay ==
  ASSUME TypeOK, JobsInv, NEW p \in Jobs, WriteIntent(p)
  PROVE  \/ Quit(p) /\ UNCHANGED intent
         \/ /\ Went(p, "intend") /\ pending = None /\ ~Terminal(job[p].txn)
            /\ intent' = [txn |-> job[p].txn, rel |-> job[p].rel, prev |-> current,
                          fresh |-> job[p].rel \notin dirs]
<1>1. At(p, "intend") BY DEF WriteIntent
<1>2. CASE pending # None \/ Terminal(job[p].txn)
  BY <1>1, <1>2, Quits DEF WriteIntent
<1>3. CASE ~(pending # None \/ Terminal(job[p].txn))
  <2> DEFINE k == [job[p] EXCEPT !.trap = "set", !.todo = Tail(job[p].todo)]
  <2>1. job[p] \in JobStates /\ job[p].todo \in Seq(Stages) /\ job[p].todo # <<>>
    BY <1>1, Working
  <2>2. Tail(job[p].todo) \in Seq(Stages) BY <2>1, TailOf
  <2>3. k \in JobStates BY <2>1, <2>2 DEF JobStates
  <2>4. /\ k.todo = Tail(job[p].todo) /\ k.trap = "set"
        /\ k.cmd = job[p].cmd /\ k.txn = job[p].txn /\ k.rel = job[p].rel /\ k.out = job[p].out
    BY <2>1 DEF JobStates
  <2>5. job' = [job EXCEPT ![p] = k] BY <1>3 DEF WriteIntent, JobsInv
  <2> HIDE DEF k
  <2>6. Went(p, "intend") BY <1>1, <2>3, <2>4, <2>5, OnePath
  <2>7. QED BY <1>3, <2>6 DEF WriteIntent
<1>4. QED BY <1>2, <1>3

LEMMA WritePendingWay ==
  ASSUME TypeOK, JobsInv, NEW p \in Jobs, WritePending(p)
  PROVE  \/ Quit(p) /\ UNCHANGED pending
         \/ /\ Went(p, "pend")
            /\ auth # None => auth.rel = intent.prev /\ auth.db = db
            /\ pending' = [txn |-> job[p].txn, rel |-> job[p].rel, prev |-> intent.prev,
                           fresh |-> intent.fresh, saved |-> auth,
                           phase |-> "prepared", bound |-> FALSE, approved |-> FALSE,
                           expired |-> FALSE, outcome |-> None]
<1>1. At(p, "pend") BY DEF WritePending
<1>2. CASE Fail(p) /\ UNCHANGED pending
  BY <1>1, <1>2, Quits
<1>3. CASE /\ auth # None => auth.rel = intent.prev /\ auth.db = db
           /\ pending' = [txn |-> job[p].txn, rel |-> job[p].rel, prev |-> intent.prev,
                           fresh |-> intent.fresh, saved |-> auth,
                           phase |-> "prepared", bound |-> FALSE, approved |-> FALSE,
                           expired |-> FALSE, outcome |-> None]
           /\ job' = [job EXCEPT ![p].created = TRUE, ![p].todo = Tail(@)]
  <2> DEFINE k == [job[p] EXCEPT !.created = TRUE, !.todo = Tail(job[p].todo)]
  <2>1. job[p] \in JobStates /\ job[p].todo \in Seq(Stages) /\ job[p].todo # <<>>
    BY <1>1, Working
  <2>2. Tail(job[p].todo) \in Seq(Stages) BY <2>1, TailOf
  <2>3. k \in JobStates BY <2>1, <2>2 DEF JobStates
  <2>4. /\ k.todo = Tail(job[p].todo) /\ k.trap = job[p].trap
        /\ k.cmd = job[p].cmd /\ k.txn = job[p].txn /\ k.rel = job[p].rel /\ k.out = job[p].out
    BY <2>1 DEF JobStates
  <2>5. job' = [job EXCEPT ![p] = k] BY <1>3 DEF JobsInv
  <2> HIDE DEF k
  <2>6. Went(p, "pend") BY <1>1, <2>3, <2>4, <2>5, OnePath
  <2>7. QED BY <1>3, <2>6
<1>4. QED BY <1>2, <1>3 DEF WritePending

LEMMA BeginRollbackWay ==
  ASSUME TypeOK, JobsInv, NEW p \in Jobs, BeginRollback(p)
  PROVE  \/ Quit(p)
         \/ /\ Went(p, "rollback") /\ job'[p].prev = pending.prev
            /\ IsPending(job[p].txn) /\ ~pending.approved /\ MayDecide("rolled-back")
            /\ current \in {pending.rel, pending.prev}
<1>1. At(p, "rollback") BY DEF BeginRollback
<1>2. CASE Fail(p) BY <1>1, <1>2, Quits
<1>3. CASE /\ IsPending(job[p].txn) /\ ~pending.approved /\ MayDecide("rolled-back")
           /\ current \in {pending.rel, pending.prev}
           /\ job' = [job EXCEPT ![p].prev = pending.prev, ![p].todo = Tail(@)]
  <2> DEFINE k == [job[p] EXCEPT !.prev = pending.prev, !.todo = Tail(job[p].todo)]
  <2>1. job[p] \in JobStates /\ job[p].todo \in Seq(Stages) /\ job[p].todo # <<>>
    BY <1>1, Working
  <2>2. Tail(job[p].todo) \in Seq(Stages) BY <2>1, TailOf
  <2>3. pending.prev \in Releases \cup {None} BY <1>3 DEF IsPending, TypeOK, Deployments
  <2>4. k \in JobStates BY <2>1, <2>2, <2>3 DEF JobStates
  <2>5. /\ k.todo = Tail(job[p].todo) /\ k.trap = job[p].trap /\ k.prev = pending.prev
        /\ k.cmd = job[p].cmd /\ k.txn = job[p].txn /\ k.rel = job[p].rel /\ k.out = job[p].out
    BY <2>1 DEF JobStates
  <2>6. job' = [job EXCEPT ![p] = k] BY <1>3 DEF JobsInv
  <2> HIDE DEF k
  <2>7. Went(p, "rollback") /\ job'[p] = k BY <1>1, <2>4, <2>5, <2>6, OnePath
  <2>8. QED BY <1>3, <2>5, <2>7
<1>4. QED BY <1>2, <1>3 DEF BeginRollback

LEMMA EnsurePreviousWay ==
  ASSUME TypeOK, JobsInv, NEW p \in Jobs, EnsurePrevious(p)
  PROVE  Went(p, "previous") \/ Quit(p) \/ Deferred(p, "restart")
<1>1. At(p, "previous") BY DEF EnsurePrevious
<1>2. CASE Fail(p) BY <1>1, <1>2, Quits
<1>3. CASE IsPending(job[p].txn)
           /\ job' = [job EXCEPT ![p].ready = pending.txn, ![p].todo = Tail(@)]
  <2> DEFINE k == [job[p] EXCEPT !.ready = pending.txn, !.todo = Tail(job[p].todo)]
  <2>1. job[p] \in JobStates /\ job[p].todo \in Seq(Stages) /\ job[p].todo # <<>>
    BY <1>1, Working
  <2>2. Tail(job[p].todo) \in Seq(Stages) BY <2>1, TailOf
  <2>3. pending.txn \in Txns BY <1>3 DEF IsPending, TypeOK, Deployments
  <2>4. k \in JobStates BY <2>1, <2>2, <2>3 DEF JobStates
  <2>5. /\ k.todo = Tail(job[p].todo) /\ k.trap = job[p].trap
        /\ k.cmd = job[p].cmd /\ k.txn = job[p].txn /\ k.rel = job[p].rel /\ k.out = job[p].out
    BY <2>1 DEF JobStates
  <2>6. job' = [job EXCEPT ![p] = k] BY <1>3 DEF JobsInv
  <2> HIDE DEF k
  <2>7. Went(p, "previous") BY <1>1, <2>4, <2>5, <2>6, OnePath
  <2>8. QED BY <2>7
<1>4. CASE p = Boot /\ Finish(p) BY <1>1, <1>4, Quits
<1>5. CASE /\ IsPending(job[p].txn) /\ p # Boot
           /\ job' = [job EXCEPT ![p].sub = pending.txn, ![p].prev = pending.prev,
                ![p].todo = <<"restart", "relock", "reload_pending">> \o Tail(@)]
  <2> DEFINE a == <<"restart", "relock", "reload_pending">>
  <2>1. job' = [job EXCEPT ![p] = [job[p] EXCEPT !.sub = pending.txn, !.prev = pending.prev,
                                                 !.todo = a \o Tail(job[p].todo)]]
    BY <1>5 DEF JobsInv
  <2>2. pending.txn \in Txns /\ pending.prev \in Releases \cup {None}
    BY <1>5 DEF IsPending, TypeOK, Deployments
  <2>3. a \in Prefixes /\ Head(a) = "restart" BY DEF Prefixes
  <2> HIDE DEF a
  <2>4. DeferredTo(p, Head(a), pending.txn) BY <1>1, <1>5, <2>1, <2>2, <2>3, DefersTail
  <2>5. QED BY <2>3, <2>4 DEF DeferredTo
<1>6. QED BY <1>2, <1>3, <1>4, <1>5 DEF EnsurePrevious

(* A decision is about the deployment that is pending. *)
DecidedPending(p) ==
  \E q, out : /\ <<q, out>> \in Decisions /\ Decided(p, q, out, pending.txn)
              /\ pending # None
              /\ Head(q) \in {"seal", "previous"} => pending.outcome = out

LEMMA DecideWay ==
  ASSUME TypeOK, JobsInv, NEW p \in Jobs, NEW s \in {"commit", "undo", "review", "expire"},
         At(p, s), pending # None,
         NEW q, NEW out, <<q, out>> \in Decisions, Decide(p, q, out),
         Head(q) \in {"seal", "previous"} => pending.outcome = out
  PROVE  DecidedPending(p)
<1>1. job' = [job EXCEPT ![p] = [job[p] EXCEPT !.todo = q, !.out = out, !.txn = pending.txn]]
  BY DEF Decide, JobsInv
<1>2. pending.txn \in Txns BY DEF TypeOK, Deployments
<1>3. Decided(p, q, out, pending.txn) BY <1>1, <1>2, Decides
<1>4. QED BY <1>3 DEF DecidedPending

LEMMA DecisionHeads ==
  /\ Head(Rolling) = "rollback" /\ Head(Settling) = "previous" /\ Head(Sealing) = "seal"
  /\ Head(Committing) = "verify" /\ Head(Keeping) = "verify" /\ Head(Readying) = "verify"
  /\ Head(<<"permit">>) = "permit"
  BY SealingList, SettlingList, RollingList, CommittingList, KeepingList, ReadyingList, ShortLists

LEMMA CommitDecisionWay ==
  ASSUME TypeOK, JobsInv, NEW p \in Jobs, CommitDecision(p)
  PROVE  Quit(p) \/ DecidedPending(p)
<1>1. At(p, "commit") BY DEF CommitDecision
<1>2. CASE Fail(p) BY <1>1, <1>2, Quits
<1>3. CASE pending # None /\ pending.outcome = "committed" /\ Decide(p, Sealing, "committed")
  BY <1>1, <1>3, DecideWay DEF Decisions
<1>4. CASE pending # None /\ Decide(p, Committing, "committed")
  BY <1>1, <1>4, DecideWay, DecisionHeads DEF Decisions
<1>5. QED BY <1>2, <1>3, <1>4 DEF CommitDecision, IsPending

LEMMA RollbackDecisionWay ==
  ASSUME TypeOK, JobsInv, NEW p \in Jobs, RollbackDecision(p)
  PROVE  Quit(p) \/ DecidedPending(p)
<1>1. At(p, "undo") BY DEF RollbackDecision
<1>2. CASE Fail(p) \/ Finish(p) BY <1>1, <1>2, Quits
<1>3. CASE pending # None /\ pending.outcome = "rolled-back" /\ Decide(p, Settling, "rolled-back")
  BY <1>1, <1>3, DecideWay DEF Decisions
<1>4. CASE pending # None /\ Decide(p, Rolling, "rolled-back")
  BY <1>1, <1>4, DecideWay, DecisionHeads DEF Decisions
<1>5. QED BY <1>2, <1>3, <1>4 DEF RollbackDecision

LEMMA ReconcileDecisionWay ==
  ASSUME TypeOK, JobsInv, NEW p \in Jobs, ReconcileDecision(p)
  PROVE  Quit(p) \/ DecidedPending(p)
<1>1. At(p, "review") BY DEF ReconcileDecision
<1>2. CASE Fail(p) \/ Finish(p) BY <1>1, <1>2, Quits
<1>3. CASE pending # None /\ pending.outcome = "committed" /\ Decide(p, Sealing, "committed")
  BY <1>1, <1>3, DecideWay DEF Decisions
<1>4. CASE pending # None /\ pending.outcome = "rolled-back" /\ Decide(p, Settling, "rolled-back")
  BY <1>1, <1>4, DecideWay DEF Decisions
<1>5. CASE pending # None /\ Decide(p, Keeping, None)
  BY <1>1, <1>5, DecideWay, DecisionHeads DEF Decisions
<1>6. CASE pending # None /\ Decide(p, Readying, "committed")
  BY <1>1, <1>6, DecideWay, DecisionHeads DEF Decisions
<1>7. CASE pending # None /\ Decide(p, Rolling, "rolled-back")
  BY <1>1, <1>7, DecideWay, DecisionHeads DEF Decisions
<1>8. CASE pending # None /\ Decide(p, <<"permit">>, None)
  BY <1>1, <1>8, DecideWay, DecisionHeads DEF Decisions
<1>9. QED BY <1>2, <1>3, <1>4, <1>5, <1>6, <1>7, <1>8
          DEF ReconcileDecision, Keeping, Readying

LEMMA WatchdogDecisionWay ==
  ASSUME TypeOK, JobsInv, NEW p \in Jobs, WatchdogDecision(p)
  PROVE  /\ job'[p].todo # job[p].todo
         /\ \/ Quit(p)
            \/ DecidedPending(p)
            \/ /\ Moved(p) /\ Same(p) /\ job'[p].todo = Quitting
               /\ Elems(job'[p].todo) = {"completed", "finalized", "fail"}
<1>1. At(p, "expire") BY DEF WatchdogDecision
<1>2. /\ job[p].todo # <<>> /\ Head(job[p].todo) = "expire" BY <1>1 DEF At
<1>3. CASE Finish(p) BY <1>1, <1>2, <1>3, Quits
<1>4. CASE pending # None /\ (Decide(p, Committing, "committed") \/ Decide(p, Rolling, "rolled-back"))
  <2>1. DecidedPending(p) BY <1>1, <1>4, DecideWay, DecisionHeads DEF Decisions
  <2>2. PICK q, out : <<q, out>> \in Decisions /\ Decided(p, q, out, pending.txn)
    BY <2>1 DEF DecidedPending
  <2>3. Head(job'[p].todo) = Head(q) /\ Head(q) # "expire"
    BY <2>2, DecisionLists DEF Decided
  <2>4. QED BY <1>2, <2>1, <2>3
<1>5. CASE job' = [job EXCEPT ![p].todo = Quitting]
  <2> DEFINE k == [job[p] EXCEPT !.todo = Quitting]
  <2>1. /\ job[p] \in JobStates /\ JobInv(p, job[p]) /\ Suits(p, job[p], "expire")
        /\ job[p].cmd # "none"
    BY <1>1, Working
  <2>2. /\ Sound(Quitting) /\ Elems(Quitting) = {"completed", "finalized", "fail"}
        /\ Head(Quitting) = "completed"
    BY QuittingList
  <2>3. k \in JobStates BY <2>1, <2>2 DEF JobStates, Sound
  <2>4. /\ k.todo = Quitting /\ k.trap = job[p].trap
        /\ k.cmd = job[p].cmd /\ k.txn = job[p].txn /\ k.rel = job[p].rel /\ k.out = job[p].out
    BY <2>1 DEF JobStates
  <2>5. job' = [job EXCEPT ![p] = k] BY <1>5 DEF JobsInv
  <2> HIDE DEF k
  <2>6. k.cmd # "activate" BY <2>1, <2>4 DEF Suits
  <2>7. job[p].txn # None BY <2>1 DEF Suits
  <2>8. \A s \in Elems(Quitting) : Suits(p, k, s)
    BY <2>2, <2>4, <2>6, <2>7 DEF Suits, Armed, Activating
  <2>9. JobInv(p, k) BY <2>1, <2>2, <2>3, <2>4, <2>8 DEF JobInv, Sound
  <2>10. Moved(p) /\ job'[p] = k BY <2>5, <2>9, Assign
  <2>11. QED BY <1>2, <2>2, <2>4, <2>10 DEF Same
<1>6. QED BY <1>3, <1>4, <1>5 DEF WatchdogDecision, IsPending, Quitting

------------------------------------------------------------------------------
(* The stages of the script, without those that give or take the lock. *)
Looks(p) ==
  \/ Reload(p) \/ RecoverCompleted(p) \/ Confirm(p) \/ ActivationExit(p)
  \/ CommitDecision(p) \/ RollbackDecision(p) \/ ReconcileDecision(p)
  \/ CheckCandidate(p) \/ CandidateReady(p) \/ BeginRollback(p) \/ EnsurePrevious(p)
Stops(p) == StopService(p) \/ StopCandidate(p)
Writes(p) ==
  \/ RecoverIntents(p) \/ DiscardIntent(p) \/ RecoverFinalized(p) \/ Complete(p)
  \/ Grant(p) \/ Drop(p) \/ WriteIntent(p) \/ Unpack(p) \/ SnapshotDatabase(p)
  \/ WritePending(p) \/ Arm(p) \/ RemoveIntent(p) \/ Promote(p) \/ AcceptReport(p)
  \/ SwitchCurrent(p) \/ PhaseActivated(p) \/ PermitStart(p) \/ Approve(p) \/ Verify(p)
  \/ WatchdogDecision(p) \/ RestoreDatabase(p) \/ SwitchBack(p)
  \/ RestoreAuthorization(p) \/ RecordOutcome(p) \/ Seal(p)
Stage(p) == Looks(p) \/ Stops(p) \/ Writes(p)

LEMMA WaysMove ==
  ASSUME NEW p, NEW s, NEW n, Went(p, s) \/ Quit(p) \/ Deferred(p, n) \/ DecidedPending(p)
  PROVE  Moved(p)
  BY DEF Went, Quit, Deferred, DecidedPending, Decided

LEMMA Ending ==
  ASSUME JobsInv, NEW p \in Jobs, NEW s, At(p, s), s \notin {"trap", "fail"},
         Continue(p) \/ Fail(p) \/ Finish(p)
  PROVE  Moved(p) /\ job'[p].todo # job[p].todo /\ job'[p].cmd # "none"
<1>1. job[p].todo # <<>> /\ Head(job[p].todo) = s /\ job[p].cmd # "none" BY Working DEF At
<1>2. CASE Continue(p) BY <1>1, <1>2, Continues DEF Went, Same
<1>3. CASE Fail(p) \/ Finish(p)
  <2>1. Quit(p) BY <1>3, Quits
  <2>2. job'[p].todo # <<>> => Head(job'[p].todo) \in {"trap", "fail"} BY <2>1 DEF Quit, At
  <2>3. QED BY <1>1, <2>1, <2>2 DEF Quit, Same
<1>4. QED BY <1>2, <1>3

(* A stage of p works under the lock and is a step of p alone. *)
LEMMA LooksMove ==
  ASSUME TypeOK, JobsInv, LockInv, NEW p \in Jobs, Looks(p)
  PROVE  /\ Moved(p) /\ job'[p].cmd # "none" /\ lock = p
         /\ UNCHANGED <<records, site, armed, svc, lock, faults, strayed>>
<1>1. CASE Reload(p)
  <2>1. PICK s \in {"reload_intent", "reload_pending", "reload_decided", "reload_done"} :
           At(p, s) /\ (Went(p, s) \/ Quit(p))
    BY <1>1, ReloadWay
  <2>2. Moved(p) /\ job'[p].cmd # "none" BY <2>1, Working DEF Went, Quit, Same
  <2>3. lock = p BY <2>1 DEF LockInv, At
  <2>4. QED BY <1>1, <2>2, <2>3 DEF Reload
<1>2. CASE RecoverCompleted(p)
  BY <1>2, RecoverCompletedWay, Working
    DEF RecoverCompleted, LockInv, At, Went, Quit, Deferred, Same
<1>3. CASE Confirm(p)
  BY <1>3, Ending DEF Confirm, LockInv, At
<1>4. CASE ActivationExit(p)
  BY <1>4, Exits DEF ActivationExit, LockInv, At
<1>5. CASE CommitDecision(p)
  BY <1>5, CommitDecisionWay, Working
    DEF CommitDecision, LockInv, At, Quit, DecidedPending, Decided, Same
<1>6. CASE RollbackDecision(p)
  BY <1>6, RollbackDecisionWay, Working
    DEF RollbackDecision, LockInv, At, Quit, DecidedPending, Decided, Same
<1>7. CASE ReconcileDecision(p)
  BY <1>7, ReconcileDecisionWay, Working
    DEF ReconcileDecision, LockInv, At, Quit, DecidedPending, Decided, Same
<1>8. CASE CheckCandidate(p)
  BY <1>8, Ending DEF CheckCandidate, LockInv, At
<1>9. CASE CandidateReady(p)
  BY <1>9, Ending DEF CandidateReady, LockInv, At
<1>10. CASE EnsurePrevious(p)
  BY <1>10, EnsurePreviousWay, Working DEF EnsurePrevious, LockInv, At, Went, Quit, Deferred, Same
<1>11. CASE BeginRollback(p)
  BY <1>11, BeginRollbackWay, Working DEF BeginRollback, LockInv, At, Went, Quit, Same
<1>12. QED BY <1>1, <1>2, <1>3, <1>4, <1>5, <1>6, <1>7, <1>8, <1>9, <1>10, <1>11 DEF Looks

LEMMA StopsMove ==
  ASSUME TypeOK, JobsInv, LockInv, NEW p \in Jobs, Stops(p)
  PROVE  /\ Moved(p) /\ job'[p].cmd # "none" /\ lock = p
         /\ UNCHANGED <<records, site, armed, lock, faults, strayed>>
         /\ svc' = svc \/ (p # Boot /\ svc' = [svc EXCEPT !.st = "stopped"])
<1>1. CASE StopService(p)
  <2>1. Suits(p, job[p], "halt") /\ JobInv(p, job[p]) BY <1>1, Working DEF StopService
  <2>2. p # Boot BY <2>1 DEF Suits, Activating, JobInv
  <2>3. QED BY <1>1, <2>2, Ending DEF StopService, LockInv, At
<1>2. CASE StopCandidate(p)
  BY <1>2, Ending DEF StopCandidate, LockInv, At
<1>3. QED BY <1>1, <1>2 DEF Stops

LEMMA WritesMove ==
  ASSUME TypeOK, JobsInv, LockInv, NEW p \in Jobs, Writes(p)
  PROVE  /\ Moved(p) /\ job'[p].cmd # "none" /\ lock = p
         /\ UNCHANGED <<svc, lock, faults, strayed>>
         /\ <<records, site>>' # <<records, site>> => job'[p] # job[p]
<1> USE DEF LockInv, At
<1>1. CASE RecoverIntents(p)
  BY <1>1, RecoverIntentsWay, Working DEF RecoverIntents, Went, Quit, Deferred, records, site, Same
<1>2. CASE DiscardIntent(p) BY <1>2, Ending DEF DiscardIntent
<1>3. CASE RecoverFinalized(p)
  BY <1>3, RecoverFinalizedWay, Working
    DEF RecoverFinalized, Went, Quit, Deferred, records, site, Same
<1>4. CASE Complete(p) BY <1>4, Ending DEF Complete
<1>5. CASE Grant(p) BY <1>5, Ending DEF Grant
<1>6. CASE Drop(p) BY <1>6, Ending DEF Drop
<1>7. CASE WriteIntent(p)
  BY <1>7, WriteIntentWay, Working DEF WriteIntent, Went, Quit, records, site, Same
<1>8. CASE Unpack(p) BY <1>8, Ending DEF Unpack
<1>9. CASE SnapshotDatabase(p) BY <1>9, Ending DEF SnapshotDatabase
<1>10. CASE WritePending(p)
  BY <1>10, WritePendingWay, Working DEF WritePending, Went, Quit, records, site, Same
<1>11. CASE Arm(p) BY <1>11, Ending DEF Arm
<1>12. CASE RemoveIntent(p) BY <1>12, Ending DEF RemoveIntent
<1>13. CASE Promote(p) BY <1>13, Ending DEF Promote
<1>14. CASE AcceptReport(p) BY <1>14, Ending DEF AcceptReport
<1>15. CASE SwitchCurrent(p) BY <1>15, Ending DEF SwitchCurrent
<1>16. CASE PhaseActivated(p) BY <1>16, Ending DEF PhaseActivated
<1>17. CASE PermitStart(p) BY <1>17, Ending DEF PermitStart
<1>18. CASE Approve(p) BY <1>18, Ending DEF Approve
<1>19. CASE Verify(p) BY <1>19, Ending DEF Verify
<1>20. CASE WatchdogDecision(p)
  BY <1>20, WatchdogDecisionWay, Working DEF WatchdogDecision, Quit, DecidedPending, Decided, Same
<1>21. CASE RestoreDatabase(p) BY <1>21, Ending DEF RestoreDatabase
<1>22. CASE SwitchBack(p) BY <1>22, Ending DEF SwitchBack
<1>23. CASE RestoreAuthorization(p) BY <1>23, Ending DEF RestoreAuthorization
<1>24. CASE RecordOutcome(p) BY <1>24, Ending DEF RecordOutcome
<1>25. CASE Seal(p) BY <1>25, Ending DEF Seal
<1>26. QED BY <1>1, <1>2, <1>3, <1>4, <1>5, <1>6, <1>7, <1>8, <1>9, <1>10, <1>11, <1>12,
              <1>13, <1>14, <1>15, <1>16, <1>17, <1>18, <1>19, <1>20, <1>21, <1>22,
              <1>23, <1>24, <1>25 DEF Writes

(* The other steps, sorted by what they do to the lock and the service. *)
Starting(p) ==
  \/ \E t \in Txns : \/ p \in Shells /\ Activate(p, t)
                     \/ /\ p \in Shells
                        /\ \E c \in {"authorize", "commit", "rollback"} : Request(p, c, t)
                     \/ p \in Watchdogs /\ WakeWatchdog(p, t)
  \/ p = Boot /\ StartBoot
  \/ p = Tick /\ StartTimer
Leaving(p) == Exit(p) \/ Kill(p)
Failing(p) == LockTimeout(p) \/ (p \in Shells /\ Interrupt(p))
OfService == BootTimesOut \/ Serve \/ AutoRestart \/ ServiceFails

LEMMA NextSteps ==
  ASSUME Next
  PROVE  \/ \E p \in Jobs : \/ Stage(p) \/ Restart(p) \/ Relock(p) \/ Starting(p)
                            \/ Leaving(p) \/ Failing(p)
         \/ OfService \/ Expire \/ Reboot
<1>1. ASSUME NEW p \in Jobs, Work(p) PROVE Stage(p) \/ Restart(p) \/ Relock(p) \/ Leaving(p)
  BY <1>1 DEF Work, Stage, Looks, Stops, Writes, Leaving
<1>2. ASSUME NEW p \in Shells, NEW t \in Txns,
             Activate(p, t) \/ \E c \in {"authorize", "commit", "rollback"} : Request(p, c, t)
      PROVE  p \in Jobs /\ Starting(p)
  BY <1>2 DEF Starting, Jobs
<1>3. ASSUME NEW p \in Watchdogs, NEW t \in Txns, WakeWatchdog(p, t)
      PROVE  p \in Jobs /\ Starting(p)
  BY <1>3 DEF Starting, Jobs
<1>4. ASSUME NEW p \in Shells, Interrupt(p) PROVE p \in Jobs /\ Failing(p)
  BY <1>4 DEF Failing, Jobs
<1>5. Boot \in Jobs /\ Tick \in Jobs BY DEF Jobs
<1>6. QED BY <1>1, <1>2, <1>3, <1>4, <1>5 DEF Next, Fault, Starting, Leaving, Failing, OfService

LEMMA StartingMoves ==
  ASSUME JobsInv, NEW p \in Jobs, Starting(p)
  PROVE  /\ Moved(p) /\ job[p] = Idle /\ lock = None /\ lock' = p
         /\ job'[p].cmd # "none" /\ job'[p].todo # <<>> /\ job'[p].todo # job[p].todo
         /\ Elems(job'[p].todo) \cap {"seal", "decide"} = {}
         /\ Head(job'[p].todo) \in {"finalized", "intents", "expire"}
         /\ UNCHANGED <<records, site, svc, faults, strayed>>
         /\ p = Boot => svc.st = "starting"
         /\ armed' # armed => \E t \in Txns : WakeWatchdog(p, t)
<1>1. /\ Boot \notin Shells \cup Watchdogs \cup {Tick} /\ Target \in [Txns -> Releases]
      /\ First \in Releases /\ None \notin Txns
  BY InstallerAssumption
<1>2. ASSUME NEW t \in Txns, p \in Shells, Activate(p, t) PROVE Begun(p, "activate")
  <2> DEFINE i == [Idle EXCEPT !.cmd = "activate", !.txn = t, !.rel = Target[t]]
  <2>1. /\ i \in JobStates /\ i.cmd = "activate" /\ i.trap = "off" /\ i.txn = t
        /\ i.rel = Target[i.txn] /\ i.out = None
    BY <1>1, IdleJob DEF Idle, JobInv, JobStates, Commands
  <2>2. Begin(p, i) BY <1>2 DEF Activate
  <2> HIDE DEF i
  <2>3. QED BY <1>1, <1>2, <2>1, <2>2, Begins DEF Commands
<1>3. ASSUME NEW t \in Txns, p \in Shells, NEW c \in {"authorize", "commit", "rollback"},
             Request(p, c, t)
      PROVE  Begun(p, c)
  <2> DEFINE i == [Idle EXCEPT !.cmd = c, !.txn = t,
                               !.out = IF c = "rollback" THEN "rolled-back" ELSE "committed"]
  <2>1. /\ i \in JobStates /\ i.cmd = c /\ i.trap = "off" /\ i.txn = t
    BY <1>1, IdleJob DEF Idle, JobInv, JobStates, Commands
  <2>2. Begin(p, i) BY <1>3 DEF Request
  <2> HIDE DEF i
  <2>3. c \in Commands /\ c # "activate" BY DEF Commands
  <2>4. QED BY <1>1, <1>3, <2>1, <2>2, <2>3, Begins
<1>4. ASSUME NEW t \in Txns, p \in Watchdogs, WakeWatchdog(p, t) PROVE Begun(p, "watchdog")
  <2> DEFINE i == [Idle EXCEPT !.cmd = "watchdog", !.txn = t]
  <2>1. /\ i \in JobStates /\ i.cmd = "watchdog" /\ i.trap = "off" /\ i.txn = t
    BY <1>1, IdleJob DEF Idle, JobInv, JobStates, Commands
  <2>2. Begin(p, i) BY <1>4 DEF WakeWatchdog
  <2> HIDE DEF i
  <2>3. QED BY <1>1, <1>4, <2>1, <2>2, Begins DEF Commands
<1>5. ASSUME Begin(p, [Idle EXCEPT !.cmd = "reconcile"]) PROVE Begun(p, "reconcile")
  <2> DEFINE i == [Idle EXCEPT !.cmd = "reconcile"]
  <2>1. /\ i \in JobStates /\ i.cmd = "reconcile" /\ i.trap = "off"
    BY <1>1, IdleJob DEF Idle, JobInv, JobStates, Commands
  <2>2. Begin(p, i) BY <1>5
  <2> HIDE DEF i
  <2>3. QED BY <1>1, <2>1, <2>2, Begins DEF Commands
<1>6. CASE \E t \in Txns : p \in Shells /\ Activate(p, t)
  BY <1>1, <1>2, <1>6 DEF Activate, Begun
<1>7. CASE \E t \in Txns : p \in Shells /\ \E c \in {"authorize", "commit", "rollback"} : Request(p, c, t)
  BY <1>1, <1>3, <1>7 DEF Request, Begun
<1>8. CASE \E t \in Txns : p \in Watchdogs /\ WakeWatchdog(p, t)
  BY <1>1, <1>4, <1>8 DEF WakeWatchdog, Begun
<1>9. CASE p = Boot /\ StartBoot
  BY <1>5, <1>9 DEF StartBoot, Begun
<1>10. CASE p = Tick /\ StartTimer
  BY <1>1, <1>5, <1>10 DEF StartTimer, Begun
<1>11. QED BY <1>6, <1>7, <1>8, <1>9, <1>10 DEF Starting

LEMMA LeavingMoves ==
  ASSUME TypeOK, JobsInv, BootInv, NEW p \in Jobs, Leaving(p)
  PROVE  /\ Moved(p) /\ job'[p] = Idle /\ job'[p] # job[p]
         /\ lock' = (IF lock = p THEN None ELSE lock)
         /\ UNCHANGED <<records, site, armed>>
         /\ svc' = svc \/ (p = Boot /\ svc.st = "starting" /\ svc'.st \in {"checking", "stopped"}
                           /\ svc'.rel = svc.rel)
         /\ strayed' = strayed
<1>1. job' = [job EXCEPT ![p] = Idle] /\ job[p].cmd # "none"
  BY DEF Leaving, Exit, Kill
<1>2. Moved(p) /\ job'[p] = Idle BY <1>1, IdleJob, Assign
<1>3. job'[p] # job[p] BY <1>1, <1>2 DEF Idle
<1>4. svc.st \in {"stopped", "starting", "checking", "running", "retry"}
      /\ svc = [st |-> svc.st, rel |-> svc.rel]
  BY DEF TypeOK
<1>5. QED BY <1>1, <1>2, <1>3, <1>4 DEF Leaving, Exit, Kill

LEMMA FailingMoves ==
  ASSUME ~strayed', JobsInv, LockInv, NEW p \in Jobs, Failing(p)
  PROVE  /\ Quit(p) /\ UNCHANGED <<records, site, armed, svc, lock>>
         /\ At(p, "trap")' => lock = p
<1>1. CASE LockTimeout(p)
  <2>1. At(p, "relock") /\ Fail(p) /\ strayed' = (strayed \/ Trapped(p))
    BY <1>1 DEF LockTimeout
  <2>2. ~Trapped(p) BY <2>1
  <2>3. Quit(p) /\ job'[p].todo = <<"fail">> BY <2>1, <2>2, Quits
  <2>4. Head(job'[p].todo) = "fail" BY <2>3, ShortLists
  <2>5. QED BY <1>1, <2>3, <2>4 DEF LockTimeout, At
<1>2. CASE Interrupt(p)
  <2>1. /\ job[p].todo # <<>> /\ Fail(p) /\ strayed' = (strayed \/ lock # p)
    BY <1>2 DEF Interrupt
  <2>2. At(p, Head(job[p].todo)) BY <2>1 DEF At
  <2>3. lock = p BY <2>1
  <2>4. Quit(p) BY <2>1, <2>2, Quits
  <2>5. QED BY <1>2, <2>3, <2>4 DEF Interrupt
<1>3. QED BY <1>1, <1>2 DEF Failing

LEMMA RestartMoves ==
  ASSUME JobsInv, LockInv, NEW p \in Jobs, Restart(p)
  PROVE  /\ Went(p, "restart") /\ lock = p /\ lock' = None /\ p # Boot
         /\ svc' = [svc EXCEPT !.st = "starting"]
         /\ UNCHANGED <<records, site, armed, faults, strayed>>
         /\ \A n : At(p, n)' => n = "relock"
<1>1. At(p, "restart") BY DEF Restart
<1>2. lock = p BY <1>1 DEF LockInv, At
<1>3. Suits(p, job[p], "restart") BY <1>1, Working
<1>4. p # Boot BY <1>3 DEF Suits
<1>5. Went(p, "restart") BY <1>1, <1>2, Continues DEF Restart
<1>6. \A n : At(p, n)' => n = "relock" BY <1>5 DEF Went, Follows, Recoveries
<1>7. QED BY <1>2, <1>4, <1>5, <1>6 DEF Restart

LEMMA RelockMoves ==
  ASSUME JobsInv, LockInv, NEW p \in Jobs, Relock(p)
  PROVE  /\ Went(p, "relock") \/ Quit(p)
         /\ lock = None /\ lock' = p /\ p # Boot
         /\ UNCHANGED <<records, site, armed, svc, faults, strayed>>
<1>1. At(p, "relock") BY DEF Relock
<1>2. Suits(p, job[p], "relock") BY <1>1, Working
<1>3. p # Boot BY <1>2 DEF Suits
<1>4. Went(p, "relock") \/ Quit(p) BY <1>1, Continues, Quits DEF Relock
<1>5. QED BY <1>3, <1>4 DEF Relock

LEMMA RebootMoves ==
  ASSUME Reboot
  PROVE  JobsInv' /\ \A p \in Jobs : job'[p] = Idle /\ \A n : ~At(p, n)'
<1>1. job' = [p \in Jobs |-> Idle] BY DEF Reboot
<1>2. \A p \in Jobs : JobInv(p, Idle) BY IdleJob
<1>3. Idle.todo = <<>> BY DEF Idle
<1>4. ASSUME NEW p \in Jobs PROVE job'[p] = Idle /\ \A n : ~At(p, n)'
  BY <1>1, <1>3 DEF At
<1>5. job' \in [Jobs -> JobStates] BY <1>1, <1>2 DEF JobInv
<1>6. QED BY <1>2, <1>4, <1>5 DEF JobsInv

------------------------------------------------------------------------------
(* Who holds the lock, and that the boot reconciler does while it runs. *)
FlowInv == JobsInv /\ LockInv /\ BootInv

LEMMA InitFlow == Init => FlowInv
<1> SUFFICES ASSUME Init PROVE FlowInv OBVIOUS
<1>1. job = [p \in Jobs |-> Idle] /\ lock = None BY DEF Init
<1>2. Idle.todo = <<>> /\ Idle.cmd = "none" BY DEF Idle
<1>3. \A p \in Jobs : JobInv(p, Idle) BY IdleJob
<1>4. JobsInv BY <1>1, <1>3 DEF JobsInv, JobInv
<1>5. Boot \in Jobs BY DEF Jobs
<1>6. QED BY <1>1, <1>2, <1>4, <1>5 DEF FlowInv, LockInv, BootInv

LEMMA NextFlow ==
  ASSUME ~strayed', TypeOK, FlowInv, Next
  PROVE  FlowInv'
<1> USE DEF FlowInv
<1>1. Boot \in Jobs /\ None \notin Jobs BY InstallerAssumption DEF Jobs
<1>2. lock \in Jobs \cup {None} /\ svc.st \in {"stopped", "starting", "checking", "running", "retry"}
      /\ svc = [st |-> svc.st, rel |-> svc.rel]
  BY DEF TypeOK
<1>3. Idle.todo = <<>> /\ Idle.cmd = "none" BY DEF Idle
<1>4. ASSUME NEW p \in Jobs, Moved(p), lock = p, lock' = lock,
             job'[p].cmd # "none", svc' = svc \/ p # Boot
      PROVE  FlowInv'
  <2>1. JobsInv' BY <1>4 DEF Moved
  <2>2. \A q \in Jobs : q # p => job'[q] = job[q] BY <1>4 DEF Moved
  <2>3. LockInv' BY <1>4, <2>2 DEF LockInv, At
  <2>4. job[p].cmd # "none" BY <1>1, <1>4 DEF BootInv
  <2>5. BootInv' BY <1>1, <1>2, <1>4, <2>2, <2>4 DEF BootInv
  <2>6. QED BY <2>1, <2>3, <2>5
<1>5. ASSUME NEW p \in Jobs, Stage(p) PROVE FlowInv'
  BY <1>4, <1>5, LooksMove, StopsMove, WritesMove DEF Stage
<1>6. ASSUME NEW p \in Jobs, Restart(p) PROVE FlowInv'
  <2>1. /\ Went(p, "restart") /\ lock = p /\ lock' = None /\ p # Boot
        /\ \A n : At(p, n)' => n = "relock"
    BY <1>6, RestartMoves
  <2>2. JobsInv' /\ \A q \in Jobs : q # p => job'[q] = job[q] BY <2>1 DEF Went, Moved
  <2>3. LockInv' BY <1>1, <2>1, <2>2 DEF LockInv, At
  <2>4. BootInv' BY <1>1, <2>1, <2>2 DEF BootInv
  <2>5. QED BY <2>2, <2>3, <2>4
<1>7. ASSUME NEW p \in Jobs, Relock(p) PROVE FlowInv'
  <2>1. /\ Went(p, "relock") \/ Quit(p)
        /\ lock = None /\ lock' = p /\ p # Boot /\ At(p, "relock") /\ svc' = svc
    BY <1>7, RelockMoves DEF Relock
  <2>2. /\ JobsInv' /\ \A q \in Jobs : q # p => job'[q] = job[q]
        /\ job'[p].cmd # "none"
    BY <2>1, Working DEF Went, Quit, Moved, Same
  <2>3. LockInv' BY <1>1, <2>1, <2>2 DEF LockInv, At
  <2>4. BootInv' BY <1>1, <2>1, <2>2 DEF BootInv
  <2>5. QED BY <2>2, <2>3, <2>4
<1>8. ASSUME NEW p \in Jobs, Starting(p) PROVE FlowInv'
  <2>1. /\ Moved(p) /\ lock = None /\ lock' = p /\ job'[p].cmd # "none" /\ svc' = svc
        /\ p = Boot => svc.st = "starting"
    BY <1>8, StartingMoves
  <2>2. JobsInv' /\ \A q \in Jobs : q # p => job'[q] = job[q] BY <2>1 DEF Moved
  <2>3. LockInv' BY <1>1, <2>1, <2>2 DEF LockInv, At
  <2>4. BootInv' BY <1>1, <2>1, <2>2 DEF BootInv
  <2>5. QED BY <2>2, <2>3, <2>4
<1>9. ASSUME NEW p \in Jobs, Leaving(p) PROVE FlowInv'
  <2>1. /\ Moved(p) /\ job'[p] = Idle
        /\ lock' = (IF lock = p THEN None ELSE lock)
        /\ svc' = svc \/ p = Boot
    BY <1>9, LeavingMoves
  <2>2. JobsInv' /\ \A q \in Jobs : q # p => job'[q] = job[q] BY <2>1 DEF Moved
  <2>3. LockInv' BY <1>1, <1>3, <2>1, <2>2 DEF LockInv, At
  <2>4. BootInv' BY <1>1, <1>2, <1>3, <2>1, <2>2 DEF BootInv
  <2>5. QED BY <2>2, <2>3, <2>4
<1>10. ASSUME NEW p \in Jobs, Failing(p) PROVE FlowInv'
  <2>1. /\ Quit(p) /\ lock' = lock /\ svc' = svc
        /\ At(p, "trap")' => lock = p
    BY <1>10, FailingMoves
  <2>2. /\ JobsInv' /\ \A q \in Jobs : q # p => job'[q] = job[q]
        /\ job'[p].cmd = job[p].cmd
    BY <2>1 DEF Quit, Moved, Same
  <2>3. job'[p].todo # <<>> => At(p, "trap")' \/ At(p, "fail")'
    BY <2>1 DEF Quit, At
  <2>4. LockInv' BY <1>1, <2>1, <2>2, <2>3 DEF LockInv, At
  <2>5. BootInv'
    <3>1. CASE p = Boot BY <1>1, <1>2, <2>1, <2>2, <3>1 DEF BootInv
    <3>2. CASE p # Boot BY <1>1, <1>2, <2>1, <2>2, <3>2 DEF BootInv
    <3>3. QED BY <3>1, <3>2
  <2>6. QED BY <2>2, <2>4, <2>5
<1>11. ASSUME job' = job, lock' = lock, svc' = svc \/ svc.st # "starting" \/ job[Boot].cmd = "none"
       PROVE  FlowInv'
  <2>1. JobsInv' /\ LockInv' BY <1>11 DEF JobsInv, LockInv, At
  <2>2. BootInv' BY <1>11 DEF BootInv
  <2>3. QED BY <2>1, <2>2
<1>12. CASE OfService
  <2>1. /\ job' = job /\ lock' = lock
        /\ svc' = svc \/ svc.st # "starting" \/ job[Boot].cmd = "none"
    BY <1>12 DEF OfService, BootTimesOut, Serve, AutoRestart, ServiceFails
  <2>2. QED BY <1>11, <2>1
<1>13. CASE Expire BY <1>11, <1>13 DEF Expire
<1>14. CASE Reboot
  <2>1. JobsInv' /\ (\A p \in Jobs : job'[p] = Idle /\ \A n : ~At(p, n)') /\ lock' = None
    BY <1>14, RebootMoves DEF Reboot
  <2>2. QED BY <1>1, <1>3, <2>1 DEF LockInv, BootInv
<1>15. QED BY <1>5, <1>6, <1>7, <1>8, <1>9, <1>10, <1>12, <1>13, <1>14, NextSteps

(* Nothing on disk changes but by a step of the holder of the lock. *)
LEMMA NextLockGuards ==
  ASSUME ~strayed', TypeOK, FlowInv, Next,
         <<records, site>>' # <<records, site>>
  PROVE  Expire \/ \E p \in Jobs : job'[p] # job[p] /\ lock = p
<1> USE DEF FlowInv
<1>1. ASSUME NEW p \in Jobs, Stage(p) PROVE job'[p] # job[p] /\ lock = p
  BY <1>1, LooksMove, StopsMove, WritesMove DEF Stage
<1>2. ASSUME NEW p \in Jobs, Restart(p) \/ Relock(p) PROVE FALSE
  BY <1>2, RestartMoves, RelockMoves
<1>3. ASSUME NEW p \in Jobs, Starting(p) \/ Leaving(p) \/ Failing(p) PROVE FALSE
  BY <1>3, StartingMoves, LeavingMoves, FailingMoves
<1>4. ~OfService /\ ~Reboot
  BY DEF OfService, BootTimesOut, Serve, AutoRestart, ServiceFails, Reboot
<1>5. QED BY <1>1, <1>2, <1>3, <1>4, NextSteps

------------------------------------------------------------------------------
(* The data: one lemma for every kind of change. *)
LEMMA ServiceChanges ==
  ASSUME Data, JobsInv', UNCHANGED <<records, site>>, armed' \in SUBSET Txns,
         lock' \in Jobs \cup {None}, faults' \in 0..MaxFaults, strayed' \in BOOLEAN,
         svc' \in [st : {"stopped", "starting", "checking", "running", "retry"}, rel : Releases],
         svc'.st = "running" => svc'.rel = db.rel
  PROVE  Data'
<1> USE DEF Data, records, site
<1>1. TypeOK' BY DEF TypeOK, JobsInv
<1>2. RecordsInv' BY DEF RecordsInv, Terminal, IsRecord
<1>3. FilesInv' BY DEF FilesInv, Terminal, IsPending
<1>4. DecisionHolds' BY DEF DecisionHolds, Latest
<1>5. CodeMatchesDb' BY DEF CodeMatchesDb
<1>6. QED BY <1>1, <1>2, <1>3, <1>4, <1>5

LEMMA IntentChanges ==
  ASSUME Data, JobsInv', intent' # None => intent' \in Intents /\ IsRecord(intent'),
         UNCHANGED <<pending, decided, done, site, armed, svc, lock, faults, strayed>>
  PROVE  Data'
<1> USE DEF Data, records, site
<1>1. TypeOK' BY DEF TypeOK, JobsInv
<1>2. RecordsInv' BY DEF RecordsInv, Terminal, IsRecord
<1>3. FilesInv' BY DEF FilesInv, Terminal, IsPending
<1>4. DecisionHolds' BY DEF DecisionHolds, Latest
<1>5. CodeMatchesDb' BY DEF CodeMatchesDb
<1>6. QED BY <1>1, <1>2, <1>3, <1>4, <1>5

(* A cleanup: a snapshot and a release directory go. *)
LEMMA CleanupChanges ==
  ASSUME Data, JobsInv', NEW t \in Txns, pending # None => pending.txn # t,
         snap' = [snap EXCEPT ![t] = None],
         NEW r \in Releases, dirs' = dirs \/ (dirs' = dirs \ {r} /\ current # r /\
                               (pending # None => pending.prev # r)),
         intent' \in {intent, None},
         UNCHANGED <<pending, decided, done, current, db, auth, live, armed, svc, lock, faults, strayed>>
  PROVE  Data'
<1> USE DEF Data
<1>1. TypeOK' BY DEF TypeOK, JobsInv
<1>2. RecordsInv'
  <2>1. pending # None => pending.txn \in Txns BY DEF TypeOK, Deployments
  <2>2. pending # None => snap'[pending.txn] = snap[pending.txn] BY <2>1 DEF TypeOK
  <2>3. QED BY <2>2 DEF RecordsInv, Terminal, IsRecord
<1>3. FilesInv'
  <2>1. \A x \in Txns : snap'[x] # None => snap'[x] = snap[x] BY DEF TypeOK
  <2>2. QED BY <2>1 DEF FilesInv, Terminal, IsPending
<1>4. DecisionHolds' BY DEF DecisionHolds, Latest
<1>5. CodeMatchesDb' BY DEF CodeMatchesDb
<1>6. QED BY <1>1, <1>2, <1>3, <1>4, <1>5

LEMMA AuthChanges ==
  ASSUME Data, JobsInv', auth' \in Authorizations \cup {None},
         auth' # None => auth'.rel = auth'.db.rel,
         live' \in {live \cup {"auth"}, live \ {"auth"}},
         UNCHANGED <<records, current, dirs, db, snap, armed, svc, lock, faults, strayed>>
  PROVE  Data'
<1> USE DEF Data, records
<1>1. TypeOK' BY DEF TypeOK, JobsInv
<1>2. RecordsInv' BY DEF RecordsInv, Terminal, IsRecord
<1>3. FilesInv'
  <2>1. \A t \in Txns : t \in live' => t \in live BY InstallerAssumption
  <2>2. QED BY <2>1 DEF FilesInv, Terminal, IsPending
<1>4. DecisionHolds' BY DEF DecisionHolds, Latest
<1>5. CodeMatchesDb' BY DEF CodeMatchesDb
<1>6. QED BY <1>1, <1>2, <1>3, <1>4, <1>5

LEMMA Completes ==
  ASSUME Data, JobsInv', decided # None,
         done' = [done EXCEPT ![decided.txn] = decided], decided' = None,
         UNCHANGED <<intent, pending, site, armed, svc, lock, faults, strayed>>
  PROVE  Data'
<1> USE DEF Data, site
<1>1. decided \in Deployments /\ decided.txn \in Txns /\ decided.outcome # None
  BY DEF TypeOK, Deployments
<1>2. \A t \in Txns : done'[t] = IF t = decided.txn THEN decided ELSE done[t]
  BY DEF TypeOK
<1>3. TypeOK'
  <2>1. done' \in [Txns -> Deployments \cup {None}] BY <1>1 DEF TypeOK
  <2>2. \A r \in {decided'} \cup {done'[t] : t \in Txns} : r # None => r.outcome # None
    BY <1>1, <1>2 DEF TypeOK
  <2>3. QED BY <2>1, <2>2 DEF TypeOK, JobsInv
<1>4. \A t \in Txns : Terminal(t)' <=> Terminal(t)
  BY <1>1, <1>2 DEF Terminal, RecordsInv
<1>5. pending # None => pending.txn \in Txns BY DEF TypeOK, Deployments
<1>6. RecordsInv' BY <1>1, <1>2, <1>4, <1>5 DEF RecordsInv, IsRecord
<1>7. FilesInv'
  <2>1. db.txn # None => db.txn \in Txns BY DEF TypeOK, Databases
  <2>2. \A t \in Txns : snap[t] # None /\ snap[t].txn # None => snap[t].txn \in Txns
    BY DEF TypeOK, Databases
  <2>3. \A r \in {pending', decided'} \cup {done'[t] : t \in Txns} :
          r # None => r \in {pending, decided} \cup {done[t] : t \in Txns}
    BY <1>2
  <2>4. QED BY <1>4, <2>1, <2>2, <2>3 DEF FilesInv, IsPending
<1>8. DecisionHolds' BY DEF DecisionHolds, Latest
<1>9. CodeMatchesDb' BY DEF CodeMatchesDb
<1>10. QED BY <1>3, <1>6, <1>7, <1>8, <1>9

LEMMA Seals ==
  ASSUME Data, JobsInv', pending # None, pending.outcome # None, decided = None,
         decided' = pending, pending' = None,
         UNCHANGED <<intent, done, site, armed, svc, lock, faults, strayed>>
  PROVE  Data'
<1> USE DEF Data, site
<1>1. pending \in Deployments /\ pending.txn \in Txns BY DEF TypeOK, Deployments
<1>2. TypeOK'
  <2>1. \A r \in {decided'} \cup {done'[t] : t \in Txns} : r # None => r.outcome # None
    BY DEF TypeOK
  <2>2. QED BY <1>1, <2>1 DEF TypeOK, JobsInv
<1>3. \A t : Terminal(t)' <=> Terminal(t) \/ IsPending(t) BY DEF Terminal, IsPending
<1>4. RecordsInv' BY <1>1, <1>3 DEF RecordsInv, IsRecord, Terminal
<1>5. FilesInv' BY <1>3 DEF FilesInv, IsPending
<1>6. DecisionHolds' BY DEF DecisionHolds, Latest
<1>7. CodeMatchesDb' BY DEF CodeMatchesDb
<1>8. QED BY <1>2, <1>4, <1>5, <1>6, <1>7

(* A deployment is pending and stays the same but for what the script notes in it. *)
Edited ==
  /\ pending # None /\ pending' \in Deployments
  /\ pending'.txn = pending.txn /\ pending'.rel = pending.rel /\ pending'.prev = pending.prev
  /\ pending'.fresh = pending.fresh /\ pending'.saved = pending.saved
  /\ pending.outcome # None => pending'.outcome = pending.outcome
  /\ UNCHANGED <<intent, decided, done>>

LEMMA Edits ==
  ASSUME Data, JobsInv', Edited,
         UNCHANGED <<current, dirs, db, snap, auth, armed, svc, lock, faults, strayed>>,
         \/ live' = live
         \/ live' = live \cup {pending.txn} /\ db = [txn |-> pending.txn, rel |-> pending.rel],
         pending'.approved => \/ pending.approved
                              \/ current = pending.rel /\ db.txn = pending.txn,
         \/ pending'.outcome = pending.outcome
         \/ pending'.outcome = "committed" /\ pending'.approved
         \/ pending'.outcome = "rolled-back" /\ current = pending.prev /\ db.txn # pending.txn
  PROVE  Data'
<1> USE DEF Data, Edited
<1>1. pending \in Deployments /\ pending.txn \in Txns /\ pending' # None
  BY NoneAssumption DEF TypeOK, Deployments
<1>2. TypeOK' BY <1>1 DEF TypeOK, JobsInv
<1>3. \A t : /\ Terminal(t)' <=> Terminal(t)
             /\ IsPending(t)' <=> IsPending(t)
  BY <1>1 DEF Terminal, IsPending
<1>4. RecordsInv' BY <1>1, <1>3 DEF RecordsInv, IsRecord
<1>5. FilesInv'
  <2>1. ASSUME NEW t \in Txns, t \in live' PROVE db' = [txn |-> t, rel |-> Target[t]]
    BY <2>1 DEF FilesInv, RecordsInv, IsRecord
  <2>2. ASSUME NEW r \in {pending', decided'} \cup {done'[t] : t \in Txns},
               r # None, r.saved # None
        PROVE  r.saved.rel = r.saved.db.rel
    BY <2>2 DEF FilesInv
  <2>3. QED BY <1>3, <2>1, <2>2 DEF FilesInv
<1>6. DecisionHolds'
  <2>1. pending'.approved => current = pending.rel /\ db.txn = pending.txn
    BY DEF DecisionHolds
  <2>2. QED BY <1>1, <2>1, NoneAssumption DEF DecisionHolds, Latest
<1>7. CodeMatchesDb' BY DEF CodeMatchesDb
<1>8. QED BY <1>2, <1>4, <1>5, <1>6, <1>7

(* A new database file is renamed over the one installed. *)
LEMMA Installs ==
  ASSUME Data, JobsInv', NEW d \in Databases, Install(d),
         d.txn # None => Known(d.txn),
         pending # None => ~pending.approved /\ pending.outcome # "committed" /\
                           (pending.outcome = "rolled-back" => d.txn # pending.txn),
         pending # None, svc.st # "running",
         UNCHANGED <<records, current, dirs, snap, auth, armed, svc, lock, faults, strayed>>
  PROVE  Data'
<1> USE DEF Data, records, Install
<1>1. TypeOK' BY DEF TypeOK, JobsInv
<1>2. RecordsInv' BY DEF RecordsInv, Terminal, IsRecord
<1>3. FilesInv' BY DEF FilesInv, Terminal, IsPending, Known
<1>4. DecisionHolds' BY DEF DecisionHolds, Latest
<1>5. CodeMatchesDb' BY DEF CodeMatchesDb
<1>6. QED BY <1>1, <1>2, <1>3, <1>4, <1>5

LEMMA Unpacks ==
  ASSUME Data, JobsInv', NEW r \in Releases, dirs' = dirs \cup {r},
         UNCHANGED <<records, current, db, snap, auth, live, armed, svc, lock, faults, strayed>>
  PROVE  Data'
<1> USE DEF Data, records
<1>1. TypeOK' BY DEF TypeOK, JobsInv
<1>2. RecordsInv' BY DEF RecordsInv, Terminal, IsRecord
<1>3. FilesInv' BY DEF FilesInv, Terminal, IsPending
<1>4. DecisionHolds' BY DEF DecisionHolds, Latest
<1>5. CodeMatchesDb' BY DEF CodeMatchesDb
<1>6. QED BY <1>1, <1>2, <1>3, <1>4, <1>5

LEMMA Snapshots ==
  ASSUME Data, JobsInv', NEW t \in Txns, snap' = [snap EXCEPT ![t] = db],
         pending = None,
         UNCHANGED <<records, current, dirs, db, auth, live, armed, svc, lock, faults, strayed>>
  PROVE  Data'
<1> USE DEF Data, records
<1>1. TypeOK' BY DEF TypeOK, JobsInv
<1>2. RecordsInv' BY DEF RecordsInv, Terminal, IsRecord
<1>3. FilesInv'
  <2>1. \A x \in Txns : snap'[x] = snap[x] \/ snap'[x] = db BY DEF TypeOK
  <2>2. QED BY <2>1 DEF FilesInv, Terminal, IsPending
<1>4. DecisionHolds' BY DEF DecisionHolds, Latest
<1>5. CodeMatchesDb' BY DEF CodeMatchesDb
<1>6. QED BY <1>1, <1>2, <1>3, <1>4, <1>5

LEMMA Switches ==
  ASSUME Data, JobsInv', current' \in Releases \cup {None}, current' # None => current' \in dirs,
         pending # None, ~pending.approved, pending.outcome # "committed",
         pending.outcome = "rolled-back" => current' = pending.prev,
         UNCHANGED <<records, dirs, db, snap, auth, live, armed, svc, lock, faults, strayed>>
  PROVE  Data'
<1> USE DEF Data, records
<1>1. TypeOK' BY DEF TypeOK, JobsInv
<1>2. RecordsInv' BY DEF RecordsInv, Terminal, IsRecord
<1>3. FilesInv' BY DEF FilesInv, Terminal, IsPending
<1>4. DecisionHolds' BY DEF DecisionHolds, Latest
<1>5. CodeMatchesDb' BY DEF CodeMatchesDb
<1>6. QED BY <1>1, <1>2, <1>3, <1>4, <1>5

(* A deployment becomes pending. *)
Opened(t) ==
  pending' = [txn |-> t, rel |-> Target[t], prev |-> intent.prev,
              fresh |-> intent.fresh, saved |-> auth,
              phase |-> "prepared", bound |-> FALSE, approved |-> FALSE,
              expired |-> FALSE, outcome |-> None]

LEMMA Opens ==
  ASSUME Data, JobsInv', NEW t \in Txns, Opened(t),
         intent # None, IsRecord(intent), intent.rel = Target[t],
         pending = None, ~Terminal(t), current = intent.prev, snap[t] # None, snap[t] = db,
         UNCHANGED <<intent, decided, done, site, armed, svc, lock, faults, strayed>>
  PROVE  /\ Data' /\ pending' # None /\ pending'.txn = t
         /\ pending'.outcome = None /\ ~pending'.approved
<1> USE DEF Data, site
<1>1. /\ pending'.txn = t /\ pending'.rel = Target[t] /\ pending'.prev = intent.prev
      /\ pending'.fresh = intent.fresh /\ pending'.saved = auth
      /\ pending'.outcome = None /\ ~pending'.approved
  BY DEF Opened
<1>2. /\ intent \in Intents /\ Target[t] \in Releases /\ auth \in Authorizations \cup {None}
  BY InstallerAssumption DEF TypeOK
<1>3. pending' \in Deployments BY <1>2 DEF Opened, Deployments, Intents
<1>4. pending' # None BY <1>3, NoneAssumption
<1>5. TypeOK' BY <1>3 DEF TypeOK, JobsInv
<1>6. \A x : Terminal(x)' <=> Terminal(x) BY DEF Terminal
<1>7. db.txn # t
  <2>1. t # None BY InstallerAssumption
  <2>2. QED BY <2>1 DEF FilesInv, IsPending
<1>8. RecordsInv'
  <2>1. IsRecord(pending') BY <1>1 DEF IsRecord
  <2>2. pending'.prev # None => pending'.prev \in dirs BY <1>1 DEF FilesInv
  <2>3. decided # None /\ decided.outcome = "rolled-back" => pending'.prev = decided.prev
    BY <1>1 DEF DecisionHolds, Latest
  <2>4. \A x \in Txns : done[x] # None => IsRecord(done[x]) /\ done[x].txn = x
    BY DEF RecordsInv
  <2>5. decided # None => IsRecord(decided) /\ done[decided.txn] = None BY DEF RecordsInv
  <2>6. intent # None => IsRecord(intent) BY DEF RecordsInv
  <2>7. QED BY <1>1, <1>6, <1>7, <2>1, <2>2, <2>3, <2>4, <2>5, <2>6 DEF RecordsInv, IsRecord
<1>9. FilesInv'
  <2>1. \A r \in {pending', decided'} \cup {done'[x] : x \in Txns} :
          r # None /\ r.saved # None => r.saved.rel = r.saved.db.rel
    BY <1>1 DEF FilesInv
  <2>2. \A x : ~IsPending(x) BY DEF IsPending
  <2>3. QED BY <1>6, <2>1, <2>2 DEF FilesInv
<1>10. DecisionHolds' BY <1>1, <1>4, NoneAssumption DEF DecisionHolds, Latest
<1>11. CodeMatchesDb' BY DEF CodeMatchesDb
<1>12. QED BY <1>1, <1>4, <1>5, <1>8, <1>9, <1>10, <1>11

------------------------------------------------------------------------------
(* The stages that rely on what was reached before them. *)
Bound == Activating \cup {"permit", "verify", "valid", "ready", "decide", "complete", "grant",
                          "cease", "restore", "switchback", "regrant"}

LEMMA Unbound ==
  ASSUME NEW p, \A n : At(p, n)' => n \notin Bound
  PROVE  Reached(p)'
  BY DEF Reached, Bound, Activating

LEMMA QuitReached ==
  ASSUME NEW p, Quit(p) \/ Deferred(p, "restart")
  PROVE  Reached(p)'
<1>1. \A n : At(p, n)' => n \in {"trap", "fail", "restart"} BY DEF Quit, Deferred, At
<1>2. QED BY <1>1, Unbound DEF Bound, Activating

LEMMA WentReached ==
  ASSUME NEW p, NEW s, Went(p, s),
         s \in Recoveries \cup {"reload_intent", "relock", "restart", "decide", "previous",
                                "seal", "grant", "fail"}
  PROVE  Reached(p)'
<1>1. \A n : At(p, n)' => Follows(s, n) BY DEF Went
<1>2. \A n : At(p, n)' => n \notin Bound
  BY <1>1 DEF Follows, Bound, Activating, Recoveries, AfterRecovery
<1>3. QED BY <1>2, Unbound

LEMMA Ends ==
  ASSUME JobsInv, NEW p \in Jobs, NEW s, At(p, s), Continue(p) \/ Fail(p) \/ Finish(p)
  PROVE  /\ Went(p, s) \/ Quit(p)
         /\ Continue(p) => Went(p, s)
         /\ Fail(p) \/ Finish(p) => Quit(p)
  BY Continues, Quits

LEMMA Holds ==
  ASSUME FlowInv, ReachedInv, NEW p \in Jobs, NEW s, At(p, s), s \notin {"relock", "fail"}
  PROVE  /\ lock = p /\ Reached(p) /\ Suits(p, job[p], s) /\ JobInv(p, job[p])
         /\ job[p] \in JobStates /\ JobsInv
  BY Working DEF FlowInv, ReachedInv, LockInv, At

(* The stages that only look. *)
LEMMA ConfirmReached ==
  ASSUME Data, FlowInv, NEW p \in Jobs, Confirm(p) PROVE Reached(p)'
<1>1. At(p, "confirm") BY DEF Confirm
<1>2. Quit(p) BY <1>1, Ends DEF Confirm, FlowInv
<1>3. QED BY <1>2, QuitReached

LEMMA ReloadReached ==
  ASSUME Data, FlowInv, NEW p \in Jobs, Reload(p) PROVE Reached(p)'
<1>1. PICK s \in {"reload_intent", "reload_pending", "reload_decided", "reload_done"} :
        Went(p, s) \/ Quit(p)
  BY ReloadWay DEF Data, FlowInv
<1>2. QED BY <1>1, QuitReached, WentReached DEF Recoveries

LEMMA RecoverCompletedReached ==
  ASSUME Data, FlowInv, NEW p \in Jobs, RecoverCompleted(p) PROVE Reached(p)'
<1>1. /\ job[p].txn \in Txns
      /\ \/ Went(p, "completed") \/ Quit(p) \/ Deferred(p, "restart")
         \/ /\ Deferred(p, "grant") /\ done[job[p].txn] # None
            /\ job'[p].sub = done[job[p].txn].txn
  BY RecoverCompletedWay DEF Data, FlowInv
<1>2. CASE Went(p, "completed") \/ Quit(p) \/ Deferred(p, "restart")
  BY <1>2, QuitReached, WentReached DEF Recoveries
<1>3. CASE /\ Deferred(p, "grant") /\ done[job[p].txn] # None
           /\ job'[p].sub = done[job[p].txn].txn
  <2>1. \A n : At(p, n)' => n = "grant" BY <1>3 DEF Deferred, At
  <2>2. job'[p].sub = job[p].txn BY <1>1, <1>3 DEF Data, RecordsInv
  <2>3. job'[p].sub # None /\ done'[job'[p].sub] # None
    BY <1>1, <1>3, <2>2, InstallerAssumption DEF RecoverCompleted, records
  <2>4. QED BY <2>1, <2>3 DEF Reached
<1>4. QED BY <1>1, <1>2, <1>3

LEMMA ActivationExitReached ==
  ASSUME Data, FlowInv, NEW p \in Jobs, ActivationExit(p) PROVE Reached(p)'
<1>1. /\ job'[p].todo # <<>> /\ Head(job'[p].todo) \in {"intents", "rollback", "fail"}
  BY Exits DEF FlowInv
<1>2. \A n : At(p, n)' => n \in {"intents", "rollback", "fail"} BY <1>1 DEF At
<1>3. QED BY <1>2, Unbound DEF Bound, Activating

LEMMA DecidedReached ==
  ASSUME NEW p, DecidedPending(p), UNCHANGED pending PROVE Reached(p)'
<1>1. PICK q, out : /\ <<q, out>> \in Decisions /\ Decided(p, q, out, pending.txn)
                    /\ pending # None
  BY DEF DecidedPending
<1>2. /\ Head(q) \in {"seal", "previous", "rollback", "verify", "permit"}
      /\ Head(q) = "permit" => out = None
  BY <1>1, DecisionLists
<1>3. /\ job'[p].txn = pending.txn /\ job'[p].out = out
      /\ \A n : At(p, n)' => n = Head(q)
  BY <1>1 DEF Decided, At
<1>4. pending' # None /\ pending'.txn = job'[p].txn BY <1>1, <1>3
<1>5. QED BY <1>2, <1>3, <1>4, NoneAssumption DEF Reached, IsPending

LEMMA CheckCandidateReached ==
  ASSUME Data, FlowInv, ReachedInv, NEW p \in Jobs, CheckCandidate(p) PROVE Reached(p)'
<1>1. At(p, "valid") BY DEF CheckCandidate
<1>2. /\ Reached(p) /\ JobsInv BY <1>1, Holds
<1>3. Went(p, "valid") \/ Quit(p) BY <1>1, <1>2, Ends DEF CheckCandidate
<1>4. CASE Went(p, "valid")
  <2>1. \A n : At(p, n)' => n \in {"ready", "permit"} BY <1>4 DEF Went, Follows, Recoveries
  <2>2. job'[p].txn = job[p].txn BY <1>4 DEF Went, Same
  <2>3. IsPending(job[p].txn) /\ pending.approved BY <1>1, <1>2 DEF Reached
  <2>4. pending' # None /\ pending'.txn = job'[p].txn /\ pending'.approved
    BY <2>2, <2>3 DEF IsPending, CheckCandidate, records
  <2>5. QED BY <2>1, <2>4 DEF Reached, IsPending
<1>5. QED BY <1>3, <1>4, QuitReached

LEMMA CandidateReadyReached ==
  ASSUME Data, FlowInv, ReachedInv, NEW p \in Jobs, CandidateReady(p) PROVE Reached(p)'
<1>1. At(p, "ready") BY DEF CandidateReady
<1>2. /\ Reached(p) /\ JobsInv /\ job[p].out = "committed" BY <1>1, Holds DEF Suits
<1>3. Went(p, "ready") \/ Quit(p) BY <1>1, <1>2, Ends DEF CandidateReady
<1>4. CASE Went(p, "ready")
  <2>1. \A n : At(p, n)' => n = "decide" BY <1>4 DEF Went, Follows, Recoveries
  <2>2. job'[p].txn = job[p].txn /\ job'[p].out = "committed" BY <1>2, <1>4 DEF Went, Same
  <2>3. IsPending(job[p].txn) /\ pending.approved BY <1>1, <1>2 DEF Reached
  <2>4. pending' # None /\ pending'.txn = job'[p].txn /\ pending'.approved
    BY <2>2, <2>3 DEF IsPending, CandidateReady, records
  <2>5. QED BY <2>1, <2>2, <2>4 DEF Reached, IsPending
<1>5. QED BY <1>3, <1>4, QuitReached

LEMMA EnsurePreviousReached ==
  ASSUME Data, FlowInv, NEW p \in Jobs, EnsurePrevious(p) PROVE Reached(p)'
<1>1. Went(p, "previous") \/ Quit(p) \/ Deferred(p, "restart")
  BY EnsurePreviousWay DEF Data, FlowInv
<1>2. QED BY <1>1, QuitReached, WentReached

LEMMA BeginRollbackReached ==
  ASSUME Data, FlowInv, NEW p \in Jobs, BeginRollback(p) PROVE Reached(p)'
<1>1. \/ Quit(p)
      \/ /\ Went(p, "rollback") /\ job'[p].prev = pending.prev
         /\ IsPending(job[p].txn) /\ ~pending.approved /\ MayDecide("rolled-back")
         /\ current \in {pending.rel, pending.prev}
  BY BeginRollbackWay DEF Data, FlowInv
<1>2. UNCHANGED <<pending, current>> BY DEF BeginRollback, records, site
<1>3. CASE Quit(p) BY <1>3, QuitReached
<1>4. CASE ~Quit(p)
  <2>1. \A n : At(p, n)' => n = "cease" BY <1>1, <1>4 DEF Went, Follows, Recoveries
  <2>2. job'[p].txn = job[p].txn BY <1>1, <1>4 DEF Went, Same
  <2>3. /\ pending # None /\ pending.txn = job[p].txn /\ pending.outcome # "committed"
        /\ job'[p].prev = pending.prev /\ ~pending.approved
        /\ current \in {pending.rel, pending.prev}
    BY <1>1, <1>4, NoneAssumption DEF IsPending, MayDecide
  <2>4. QED BY <1>2, <2>1, <2>2, <2>3 DEF Reached, IsPending
<1>5. QED BY <1>3, <1>4

LEMMA LooksReached ==
  ASSUME Data, FlowInv, ReachedInv, NEW p \in Jobs, Looks(p) PROVE Data' /\ Reached(p)'
<1>1. Reached(p)'
  <2>1. CASE CommitDecision(p)
    <3>1. (Quit(p) \/ DecidedPending(p)) /\ UNCHANGED pending
      BY <2>1, CommitDecisionWay DEF Data, FlowInv, CommitDecision, records
    <3>2. QED BY <3>1, QuitReached, DecidedReached
  <2>2. CASE RollbackDecision(p)
    <3>1. (Quit(p) \/ DecidedPending(p)) /\ UNCHANGED pending
      BY <2>2, RollbackDecisionWay DEF Data, FlowInv, RollbackDecision, records
    <3>2. QED BY <3>1, QuitReached, DecidedReached
  <2>3. CASE ReconcileDecision(p)
    <3>1. (Quit(p) \/ DecidedPending(p)) /\ UNCHANGED pending
      BY <2>3, ReconcileDecisionWay DEF Data, FlowInv, ReconcileDecision, records
    <3>2. QED BY <3>1, QuitReached, DecidedReached
  <2>4. QED BY <2>1, <2>2, <2>3, ConfirmReached, ReloadReached, RecoverCompletedReached,
               ActivationExitReached, CheckCandidateReached, CandidateReadyReached,
               BeginRollbackReached, EnsurePreviousReached DEF Looks
<1>2. Data'
  <2>1. Moved(p) /\ UNCHANGED <<records, site, armed, svc, lock, faults, strayed>>
    BY LooksMove DEF Data, FlowInv
  <2>2. /\ armed' \in SUBSET Txns /\ lock' \in Jobs \cup {None} /\ faults' \in 0..MaxFaults
        /\ strayed' \in BOOLEAN
        /\ svc' \in [st : {"stopped", "starting", "checking", "running", "retry"}, rel : Releases]
        /\ svc'.st = "running" => svc'.rel = db.rel
    BY <2>1 DEF Data, TypeOK, CodeMatchesDb
  <2>3. QED BY <2>1, <2>2, ServiceChanges DEF Moved
<1>3. QED BY <1>1, <1>2

------------------------------------------------------------------------------
(* The stages of the recovery. *)
LEMMA RecoverIntentsReached ==
  ASSUME Data, FlowInv, ReachedInv, NEW p \in Jobs, RecoverIntents(p)
  PROVE  Data' /\ Reached(p)'
<1>1. At(p, "intents") BY DEF RecoverIntents
<1>2. (Went(p, "intents") \/ Quit(p) \/ Deferred(p, "restart")) /\ JobsInv'
  BY RecoverIntentsWay, WaysMove DEF Data, FlowInv, Moved
<1>3. Reached(p)' BY <1>2, QuitReached, WentReached DEF Recoveries
<1>4. CASE Contradicted \/ ~PrePending
  <2>1. (intent' = intent \/ intent' = None)
        /\ UNCHANGED <<pending, decided, done, site, armed, svc, lock, faults, strayed>>
    BY <1>4 DEF RecoverIntents, site
  <2>2. intent' # None => intent' \in Intents /\ IsRecord(intent')
    BY <2>1 DEF Data, TypeOK, RecordsInv
  <2>3. QED BY <1>2, <1>3, <2>1, <2>2, IntentChanges
<1>5. CASE ~Contradicted /\ PrePending
  <2>1. /\ intent \in Intents /\ pending = None /\ current = intent.prev /\ IsRecord(intent)
    BY <1>5 DEF PrePending, Contradicted, Data, TypeOK, RecordsInv
  <2>2. intent.txn \in Txns /\ intent.rel \in Releases BY <2>1 DEF Intents
  <2>3. /\ snap' = [snap EXCEPT ![intent.txn] = None]
        /\ dirs' = IF intent.fresh THEN dirs \ {intent.rel} ELSE dirs
        /\ intent' \in {intent, None}
        /\ UNCHANGED <<pending, decided, done, current, db, auth, live, armed, svc, lock, faults, strayed>>
    BY <1>5 DEF RecoverIntents
  <2>4. dirs' = dirs \/ (dirs' = dirs \ {intent.rel} /\ current # intent.rel)
    BY <2>1, <2>3 DEF IsRecord
  <2>5. Data' BY <1>2, <2>1, <2>2, <2>3, <2>4, CleanupChanges
  <2>6. QED BY <1>3, <2>5
<1>6. QED BY <1>4, <1>5

LEMMA DiscardIntentReached ==
  ASSUME Data, FlowInv, ReachedInv, NEW p \in Jobs, DiscardIntent(p)
  PROVE  Data' /\ Reached(p)'
<1>1. Went(p, "discard") BY Ends DEF DiscardIntent, FlowInv
<1>2. Reached(p)' BY <1>1, WentReached DEF Recoveries
<1>3. intent' # None => intent' \in Intents /\ IsRecord(intent')
  BY DEF Data, TypeOK, RecordsInv, DiscardIntent
<1>4. JobsInv' BY <1>1 DEF Went, Moved
<1>5. Data' BY <1>3, <1>4, IntentChanges DEF DiscardIntent
<1>6. QED BY <1>2, <1>5

LEMMA DropReached ==
  ASSUME Data, FlowInv, ReachedInv, NEW p \in Jobs, Drop(p)
  PROVE  Data' /\ Reached(p)'
<1>1. Went(p, "drop") \/ Quit(p) BY Ends DEF Drop, FlowInv
<1>2. Reached(p)' BY <1>1, WentReached, QuitReached DEF Recoveries
<1>3. intent' # None => intent' \in Intents /\ IsRecord(intent')
  BY DEF Data, TypeOK, RecordsInv, Drop
<1>4. JobsInv' BY <1>1 DEF Went, Quit, Moved
<1>5. Data' BY <1>3, <1>4, IntentChanges DEF Drop
<1>6. QED BY <1>2, <1>5

LEMMA RecoverFinalizedReached ==
  ASSUME Data, FlowInv, ReachedInv, NEW p \in Jobs, RecoverFinalized(p)
  PROVE  Data' /\ Reached(p)'
<1>1. UNCHANGED <<records, current, db, auth, live, armed, svc, lock, faults, strayed>>
  BY DEF RecoverFinalized
<1>2. CASE /\ UNCHANGED <<dirs, snap>>
           /\ Went(p, "finalized") \/ Quit(p) \/ Deferred(p, "restart")
  <2>1. Reached(p)' BY <1>2, QuitReached, WentReached DEF Recoveries
  <2>2. intent' # None => intent' \in Intents /\ IsRecord(intent')
    BY <1>1 DEF Data, TypeOK, RecordsInv, records
  <2>3. JobsInv' BY <1>2, WaysMove DEF Moved
  <2>4. Data' BY <1>1, <1>2, <2>2, <2>3, IntentChanges DEF site, records
  <2>5. QED BY <2>1, <2>4
<1>3. CASE /\ Deferred(p, "complete")
           /\ decided # None /\ Fits(decided)
           /\ snap' = [snap EXCEPT ![decided.txn] = None]
           /\ dirs' = IF decided.outcome = "rolled-back" /\ decided.fresh
                      THEN dirs \ {decided.rel} ELSE dirs
  <2>1. \A n : At(p, n)' => n = "complete" BY <1>3 DEF Deferred, At
  <2>2. Reached(p)' BY <1>1, <1>3, <2>1 DEF Reached, records
  <2>3. /\ decided \in Deployments /\ decided.txn \in Txns /\ decided.rel \in Releases
        /\ decided.outcome \in {"committed", "rolled-back"} /\ IsRecord(decided)
    BY <1>3 DEF Data, TypeOK, Deployments, RecordsInv
  <2>4. pending # None => pending.txn # decided.txn
    BY <1>3 DEF Data, RecordsInv, Terminal
  <2>5. CASE decided.outcome = "rolled-back" /\ decided.fresh
    <3>1. current = decided.prev /\ decided.prev # decided.rel
      BY <1>3, <2>3, <2>5 DEF Fits, IsRecord
    <3>2. pending # None => pending.prev = decided.prev
      BY <1>3, <2>5 DEF Data, RecordsInv
    <3>3. dirs' = dirs \ {decided.rel} BY <1>3, <2>5
    <3>4. JobsInv' BY <1>3 DEF Deferred, Moved
    <3>5. Data' BY <1>1, <1>3, <2>3, <2>4, <3>1, <3>2, <3>3, <3>4, CleanupChanges DEF records
    <3>6. QED BY <2>2, <3>5
  <2>6. CASE ~(decided.outcome = "rolled-back" /\ decided.fresh)
    <3>1. dirs' = dirs BY <1>3, <2>6
    <3>2. JobsInv' BY <1>3 DEF Deferred, Moved
    <3>3. Data' BY <1>1, <1>3, <2>3, <2>4, <3>1, <3>2, CleanupChanges DEF records
    <3>4. QED BY <2>2, <3>3
  <2>7. QED BY <2>5, <2>6
<1>4. QED BY <1>2, <1>3, RecoverFinalizedWay DEF Data, FlowInv

LEMMA CompleteReached ==
  ASSUME Data, FlowInv, ReachedInv, NEW p \in Jobs, Complete(p)
  PROVE  Data' /\ Reached(p)'
<1>1. At(p, "complete") /\ JobsInv BY DEF Complete, FlowInv
<1>2. CASE decided # None /\ decided.txn = job[p].sub
  <2>1. /\ Continue(p) /\ decided' = None
        /\ done' = [done EXCEPT ![decided.txn] = decided]
        /\ UNCHANGED <<intent, pending, site, armed, svc, lock, faults, strayed>>
    BY <1>2 DEF Complete
  <2>2. Went(p, "complete") /\ job'[p] = [job[p] EXCEPT !.todo = Tail(@)]
    BY <1>1, <2>1, Continues
  <2>3. JobsInv' BY <2>2 DEF Went, Moved
  <2>4. Data' BY <1>2, <2>1, <2>3, Completes
  <2>5. \A n : At(p, n)' => n = "grant" BY <2>2 DEF Went, Follows, Recoveries
  <2>6. job[p] \in JobStates BY <1>1, Working
  <2>7. job'[p].sub = job[p].sub BY <2>2, <2>6 DEF JobStates
  <2>8. decided \in Deployments /\ decided.txn \in Txns /\ done \in [Txns -> Deployments \cup {None}]
    BY <1>2 DEF Data, TypeOK, Deployments
  <2>9. done'[job'[p].sub] = decided /\ job'[p].sub # None
    BY <1>2, <2>1, <2>7, <2>8, InstallerAssumption
  <2>10. Reached(p)' BY <1>2, <2>5, <2>9 DEF Reached
  <2>11. QED BY <2>4, <2>10
<1>3. CASE ~(decided # None /\ decided.txn = job[p].sub)
  <2>1. /\ Fail(p)
        /\ UNCHANGED <<records, site, armed, svc, lock, faults, strayed>>
    BY <1>3 DEF Complete, records
  <2>2. Quit(p) BY <1>1, <2>1, Quits
  <2>3. Reached(p)' BY <2>2, QuitReached
  <2>4. intent' # None => intent' \in Intents /\ IsRecord(intent')
    BY <2>1 DEF Data, TypeOK, RecordsInv, records
  <2>5. JobsInv' BY <2>2 DEF Quit, Moved
  <2>6. Data' BY <2>1, <2>4, <2>5, IntentChanges DEF records
  <2>7. QED BY <2>3, <2>6
<1>4. QED BY <1>2, <1>3

(* A report that is valid binds the database that is installed. *)
LEMMA BoundDatabase ==
  ASSUME Data, NEW r, r.txn \in Txns, IsRecord(r), ReportValid(r)
  PROVE  db = [txn |-> r.txn, rel |-> r.rel]
  BY DEF Data, FilesInv, ReportValid, IsRecord

LEMMA RegrantChanges ==
  ASSUME Data, NEW r \in {pending, decided} \cup {done[t] : t \in Txns}, r # None, Regrant(r)
  PROVE  /\ auth' \in Authorizations \cup {None}
         /\ auth' # None => auth'.rel = auth'.db.rel
         /\ live' \in {live \cup {"auth"}, live \ {"auth"}}
<1>1. r \in Deployments BY DEF Data, TypeOK
<1>2. r.saved \in Authorizations \cup {None} BY <1>1 DEF Deployments
<1>3. r.saved # None => r.saved.rel = r.saved.db.rel BY DEF Data, FilesInv
<1>4. QED BY <1>2, <1>3 DEF Regrant

LEMMA GrantReached ==
  ASSUME Data, FlowInv, ReachedInv, NEW p \in Jobs, Grant(p)
  PROVE  Data' /\ Reached(p)'
<1>1. At(p, "grant") BY DEF Grant
<1>2. /\ Reached(p) /\ JobsInv /\ job[p] \in JobStates BY <1>1, Holds
<1>3. job[p].sub \in Txns /\ done[job[p].sub] # None
  BY <1>1, <1>2 DEF Reached, JobStates
<1> DEFINE r == done[job[p].sub]
<1>4. r \in Deployments /\ r.txn \in Txns /\ r.rel \in Releases /\ IsRecord(r)
  BY <1>3 DEF Data, TypeOK, Deployments, RecordsInv
<1>5. Went(p, "grant") \/ Quit(p) BY <1>1, <1>2, Ends DEF Grant
<1>6. Reached(p)' BY <1>5, QuitReached, WentReached
<1>7. /\ auth' \in Authorizations \cup {None}
      /\ auth' # None => auth'.rel = auth'.db.rel
      /\ live' \in {live \cup {"auth"}, live \ {"auth"}} \/ UNCHANGED <<auth, live>>
  <2>1. CASE UNCHANGED <<auth, live>> BY <2>1 DEF Data, TypeOK, FilesInv
  <2>2. CASE Regrant(r) BY <1>3, <2>2, RegrantChanges
  <2>3. CASE /\ ReportValid(r)
             /\ auth' = [kind |-> "committed", txn |-> r.txn, rel |-> r.rel, db |-> db]
             /\ live' = live \cup {"auth"}
    <3>1. db = [txn |-> r.txn, rel |-> r.rel] BY <1>4, <2>3, BoundDatabase
    <3>2. db \in Databases BY DEF Data, TypeOK
    <3>3. QED BY <1>4, <2>3, <3>1, <3>2 DEF Authorizations
  <2>4. QED BY <2>1, <2>2, <2>3 DEF Grant
<1>8. UNCHANGED <<records, current, dirs, db, snap, armed, svc, lock, faults, strayed>> BY DEF Grant
<1>9. live' \in {live \cup {"auth"}, live \ {"auth"}}
  <2>1. CASE live' = live BY <2>1
  <2>2. QED BY <1>7, <2>1
<1>10. JobsInv' BY <1>5 DEF Went, Quit, Moved
<1>11. Data' BY <1>7, <1>8, <1>9, <1>10, AuthChanges
<1>12. QED BY <1>6, <1>11

------------------------------------------------------------------------------
(* The stages of an activation. *)
LEMMA Activates ==
  ASSUME FlowInv, ReachedInv, NEW p \in Jobs, NEW s \in Activating \cup {"intend"}, At(p, s)
  PROVE  /\ Reached(p) /\ JobsInv /\ p # Boot
         /\ job[p].txn \in Txns /\ job[p].rel \in Releases /\ job[p].rel = Target[job[p].txn]
         /\ job[p].out # "committed"
<1>1. s \notin {"relock", "fail"} BY DEF Activating
<1>2. /\ Reached(p) /\ JobsInv /\ Suits(p, job[p], s) /\ JobInv(p, job[p]) /\ job[p] \in JobStates
  BY <1>1, Holds
<1>3. job[p].cmd = "activate" BY <1>2 DEF Suits
<1>4. QED BY <1>2, <1>3, NoneAssumption DEF JobInv, JobStates

LEMMA WriteIntentReached ==
  ASSUME Data, FlowInv, ReachedInv, NEW p \in Jobs, WriteIntent(p)
  PROVE  Data' /\ Reached(p)'
<1>1. At(p, "intend") BY DEF WriteIntent
<1>2. /\ job[p].txn \in Txns /\ job[p].rel \in Releases /\ job[p].rel = Target[job[p].txn]
  BY <1>1, Activates
<1>3. UNCHANGED <<pending, decided, done, site, armed, svc, lock, faults, strayed>>
  BY DEF WriteIntent
<1>4. CASE Quit(p) /\ UNCHANGED intent
  <2>1. Reached(p)' BY <1>4, QuitReached
  <2>2. intent' # None => intent' \in Intents /\ IsRecord(intent')
    BY <1>4 DEF Data, TypeOK, RecordsInv
  <2>3. JobsInv' BY <1>4 DEF Quit, Moved
  <2>4. Data' BY <1>3, <2>2, <2>3, IntentChanges
  <2>5. QED BY <2>1, <2>4
<1>5. CASE /\ Went(p, "intend") /\ pending = None /\ ~Terminal(job[p].txn)
           /\ intent' = [txn |-> job[p].txn, rel |-> job[p].rel, prev |-> current,
                         fresh |-> job[p].rel \notin dirs]
  <2>1. intent' \in Intents
    <3>1. current \in Releases \cup {None} BY DEF Data, TypeOK
    <3>2. (job[p].rel \notin dirs) \in BOOLEAN OBVIOUS
    <3>3. QED BY <1>2, <1>5, <3>1, <3>2 DEF Intents
  <2>2. IsRecord(intent')
    <3>1. job[p].rel # None BY <1>2, InstallerAssumption
    <3>2. job[p].rel \notin dirs => current # job[p].rel BY <3>1 DEF Data, FilesInv
    <3>3. QED BY <1>2, <1>5, <3>2 DEF IsRecord
  <2>3. JobsInv' BY <1>5 DEF Went, Moved
  <2>4. Data' BY <1>3, <2>1, <2>2, <2>3, IntentChanges
  <2>5. \A n : At(p, n)' => n = "unpack" BY <1>5 DEF Went, Follows, Recoveries
  <2>6. intent' # None BY <2>1, NoneAssumption
  <2>7. job'[p].txn = job[p].txn /\ job'[p].rel = job[p].rel BY <1>5 DEF Went, Same
  <2>8. ~(decided' # None /\ decided'.txn = job'[p].txn) /\ done'[job'[p].txn] = None
        /\ pending' = None
    BY <1>3, <1>5, <2>7 DEF Terminal
  <2>9. /\ intent'.txn = job'[p].txn /\ intent'.rel = job'[p].rel /\ current' = intent'.prev
    BY <1>3, <1>5, <2>7 DEF site
  <2>10. Reached(p)' BY <2>5, <2>6, <2>8, <2>9 DEF Reached, Terminal
  <2>11. QED BY <2>4, <2>10
<1>6. QED BY <1>4, <1>5, WriteIntentWay DEF Data, FlowInv

LEMMA UnpackReached ==
  ASSUME Data, FlowInv, ReachedInv, NEW p \in Jobs, Unpack(p)
  PROVE  Data' /\ Reached(p)'
<1>1. At(p, "unpack") BY DEF Unpack
<1>2. /\ Reached(p) /\ JobsInv /\ job[p].rel \in Releases
  BY <1>1, Activates DEF Activating
<1>3. Went(p, "unpack") BY <1>1, <1>2, Ends DEF Unpack
<1>4. /\ dirs' = dirs \cup {job[p].rel}
      /\ UNCHANGED <<records, current, db, snap, auth, live, armed, svc, lock, faults, strayed>>
  BY DEF Unpack
<1>5. JobsInv' BY <1>3 DEF Went, Moved
<1>6. Data' BY <1>2, <1>4, <1>5, Unpacks
<1>7. \A n : At(p, n)' => n = "halt" BY <1>3 DEF Went, Follows, Recoveries
<1>8. job'[p].txn = job[p].txn /\ job'[p].rel = job[p].rel BY <1>3 DEF Went, Same
<1>9. Reached(p)' BY <1>1, <1>2, <1>4, <1>7, <1>8 DEF Reached, Terminal, records
<1>10. QED BY <1>6, <1>9

LEMMA StopServiceReached ==
  ASSUME Data, FlowInv, ReachedInv, NEW p \in Jobs, StopService(p)
  PROVE  Data' /\ Reached(p)'
<1>1. At(p, "halt") BY DEF StopService
<1>2. /\ Reached(p) /\ JobsInv BY <1>1, Activates DEF Activating
<1>3. Went(p, "halt") BY <1>1, <1>2, Ends DEF StopService
<1>4. /\ svc' = [svc EXCEPT !.st = "stopped"]
      /\ UNCHANGED <<records, site, armed, lock, faults, strayed>>
  BY DEF StopService
<1>5. JobsInv' BY <1>3 DEF Went, Moved
<1>6. /\ svc' \in [st : {"stopped", "starting", "checking", "running", "retry"}, rel : Releases]
      /\ svc'.st = "stopped"
  BY <1>4 DEF Data, TypeOK
<1>7. armed' \in SUBSET Txns /\ lock' \in Jobs \cup {None} /\ faults' \in 0..MaxFaults
      /\ strayed' \in BOOLEAN
  BY <1>4 DEF Data, TypeOK
<1>8. Data' BY <1>4, <1>5, <1>6, <1>7, ServiceChanges
<1>9. \A n : At(p, n)' => n = "snapshot" BY <1>3 DEF Went, Follows, Recoveries
<1>10. job'[p].txn = job[p].txn /\ job'[p].rel = job[p].rel BY <1>3 DEF Went, Same
<1>11. Reached(p)'
  BY <1>1, <1>2, <1>4, <1>6, <1>9, <1>10 DEF Reached, Terminal, records, site
<1>12. QED BY <1>8, <1>11

LEMMA SnapshotReached ==
  ASSUME Data, FlowInv, ReachedInv, NEW p \in Jobs, SnapshotDatabase(p)
  PROVE  Data' /\ Reached(p)'
<1>1. At(p, "snapshot") BY DEF SnapshotDatabase
<1>2. /\ Reached(p) /\ JobsInv /\ job[p].txn \in Txns
  BY <1>1, Activates DEF Activating
<1>3. Went(p, "snapshot") BY <1>1, <1>2, Ends DEF SnapshotDatabase
<1>4. /\ snap' = [snap EXCEPT ![job[p].txn] = db]
      /\ UNCHANGED <<records, current, dirs, db, auth, live, armed, svc, lock, faults, strayed>>
  BY DEF SnapshotDatabase
<1>5. JobsInv' BY <1>3 DEF Went, Moved
<1>6. pending = None BY <1>1, <1>2 DEF Reached
<1>7. Data' BY <1>2, <1>4, <1>5, <1>6, Snapshots
<1>8. \A n : At(p, n)' => n = "pend" BY <1>3 DEF Went, Follows, Recoveries
<1>9. job'[p].txn = job[p].txn /\ job'[p].rel = job[p].rel BY <1>3 DEF Went, Same
<1>10. snap'[job'[p].txn] = db' /\ db' # None
  BY <1>2, <1>4, <1>9, NoneAssumption DEF Data, TypeOK
<1>11. Reached(p)' BY <1>1, <1>2, <1>4, <1>8, <1>9, <1>10 DEF Reached, Terminal, records
<1>12. QED BY <1>7, <1>11

LEMMA WritePendingReached ==
  ASSUME Data, FlowInv, ReachedInv, NEW p \in Jobs, WritePending(p)
  PROVE  Data' /\ Reached(p)'
<1>1. At(p, "pend") BY DEF WritePending
<1>2. /\ Reached(p) /\ JobsInv /\ job[p].txn \in Txns /\ job[p].rel = Target[job[p].txn]
  BY <1>1, Activates DEF Activating
<1>3. UNCHANGED <<intent, decided, done, site, armed, svc, lock, faults, strayed>>
  BY DEF WritePending
<1>4. CASE Quit(p) /\ UNCHANGED pending
  <2>1. Reached(p)' BY <1>4, QuitReached
  <2>2. intent' # None => intent' \in Intents /\ IsRecord(intent')
    BY <1>3 DEF Data, TypeOK, RecordsInv
  <2>3. JobsInv' BY <1>4 DEF Quit, Moved
  <2>4. Data' BY <1>3, <1>4, <2>2, <2>3, IntentChanges
  <2>5. QED BY <2>1, <2>4
<1>5. CASE /\ Went(p, "pend")
           /\ pending' = [txn |-> job[p].txn, rel |-> job[p].rel, prev |-> intent.prev,
                           fresh |-> intent.fresh, saved |-> auth,
                           phase |-> "prepared", bound |-> FALSE, approved |-> FALSE,
                           expired |-> FALSE, outcome |-> None]
  <2>1. Opened(job[p].txn) BY <1>2, <1>5 DEF Opened
  <2>2. /\ intent # None /\ intent.txn = job[p].txn /\ intent.rel = job[p].rel
        /\ pending = None /\ ~Terminal(job[p].txn) /\ current = intent.prev
        /\ snap[job[p].txn] # None /\ snap[job[p].txn] = db
        /\ job[p].rel \in dirs /\ svc.st = "stopped"
    BY <1>1, <1>2 DEF Reached
  <2>3. IsRecord(intent) BY <2>2 DEF Data, RecordsInv
  <2>4. JobsInv' BY <1>5 DEF Went, Moved
  <2>5. /\ Data' /\ pending' # None /\ pending'.txn = job[p].txn
        /\ pending'.outcome = None /\ ~pending'.approved
    BY <1>2, <1>3, <2>1, <2>2, <2>3, <2>4, Opens
  <2>6. \A n : At(p, n)' => n = "arm" BY <1>5 DEF Went, Follows, Recoveries
  <2>7. job'[p].txn = job[p].txn /\ job'[p].rel = job[p].rel BY <1>5 DEF Went, Same
  <2>8. /\ pending'.txn = job'[p].txn /\ pending'.outcome = None /\ ~pending'.approved
        /\ pending' # None
    BY <2>5, <2>7
  <2>9. Reached(p)' BY <1>3, <2>2, <2>6, <2>7, <2>8 DEF Reached, Open, IsPending, site
  <2>10. QED BY <2>5, <2>9
<1>6. QED BY <1>4, <1>5, WritePendingWay DEF Data, FlowInv

LEMMA ArmReached ==
  ASSUME Data, FlowInv, ReachedInv, NEW p \in Jobs, Arm(p)
  PROVE  Data' /\ Reached(p)'
<1>1. At(p, "arm") BY DEF Arm
<1>2. /\ Reached(p) /\ JobsInv /\ job[p].txn \in Txns BY <1>1, Activates DEF Activating
<1>3. Went(p, "arm") BY <1>1, <1>2, Ends DEF Arm
<1>4. /\ armed' = armed \cup {job[p].txn}
      /\ UNCHANGED <<records, site, svc, lock, faults, strayed>>
  BY DEF Arm
<1>5. JobsInv' BY <1>3 DEF Went, Moved
<1>6. /\ svc' \in [st : {"stopped", "starting", "checking", "running", "retry"}, rel : Releases]
      /\ armed' \in SUBSET Txns /\ lock' \in Jobs \cup {None} /\ faults' \in 0..MaxFaults
      /\ strayed' \in BOOLEAN
      /\ svc'.st = "running" => svc'.rel = db.rel
  BY <1>2, <1>4 DEF Data, TypeOK, CodeMatchesDb
<1>7. Data' BY <1>4, <1>5, <1>6, ServiceChanges
<1>8. \A n : At(p, n)' => n = "unintend" BY <1>3 DEF Went, Follows, Recoveries
<1>9. job'[p].txn = job[p].txn /\ job'[p].rel = job[p].rel BY <1>3 DEF Went, Same
<1>10. Reached(p)'
  BY <1>1, <1>2, <1>4, <1>8, <1>9 DEF Reached, Open, IsPending, records, site
<1>11. QED BY <1>7, <1>10

LEMMA RemoveIntentReached ==
  ASSUME Data, FlowInv, ReachedInv, NEW p \in Jobs, RemoveIntent(p)
  PROVE  Data' /\ Reached(p)'
<1>1. At(p, "unintend") BY DEF RemoveIntent
<1>2. /\ Reached(p) /\ JobsInv BY <1>1, Activates DEF Activating
<1>3. Went(p, "unintend") BY <1>1, <1>2, Ends DEF RemoveIntent
<1>4. /\ intent' = None
      /\ UNCHANGED <<pending, decided, done, site, armed, svc, lock, faults, strayed>>
  BY DEF RemoveIntent
<1>5. JobsInv' BY <1>3 DEF Went, Moved
<1>6. Data' BY <1>4, <1>5, IntentChanges
<1>7. \A n : At(p, n)' => n = "promote" BY <1>3 DEF Went, Follows, Recoveries
<1>8. job'[p].txn = job[p].txn /\ job'[p].rel = job[p].rel BY <1>3 DEF Went, Same
<1>9. Reached(p)' BY <1>1, <1>2, <1>4, <1>7, <1>8 DEF Reached, Open, IsPending, site
<1>10. QED BY <1>6, <1>9

LEMMA PromoteReached ==
  ASSUME Data, FlowInv, ReachedInv, NEW p \in Jobs, Promote(p)
  PROVE  Data' /\ Reached(p)'
<1>1. At(p, "promote") BY DEF Promote
<1>2. /\ Reached(p) /\ JobsInv /\ job[p].txn \in Txns /\ job[p].rel \in Releases
  BY <1>1, Activates DEF Activating
<1>3. Went(p, "promote") BY <1>1, <1>2, Ends DEF Promote
<1> DEFINE d == [txn |-> job[p].txn, rel |-> job[p].rel]
<1>4. /\ Install(d) /\ d \in Databases
      /\ UNCHANGED <<records, current, dirs, snap, auth, armed, svc, lock, faults, strayed>>
  BY <1>2 DEF Promote, Databases
<1>5. JobsInv' BY <1>3 DEF Went, Moved
<1>6. Open(job[p].txn) /\ svc.st = "stopped" /\ job[p].rel \in dirs BY <1>1, <1>2 DEF Reached
<1>7. Known(d.txn) /\ pending # None /\ ~pending.approved /\ pending.outcome = None
  BY <1>6 DEF Open, IsPending, Known
<1> HIDE DEF d
<1>8. Data' BY <1>4, <1>5, <1>6, <1>7, Installs, NoneAssumption
<1>9. \A n : At(p, n)' => n = "report" BY <1>3 DEF Went, Follows, Recoveries
<1>10. job'[p].txn = job[p].txn /\ job'[p].rel = job[p].rel BY <1>3 DEF Went, Same
<1>11. db' = [txn |-> job'[p].txn, rel |-> job'[p].rel] BY <1>4, <1>10 DEF Install, d
<1>12. Reached(p)' BY <1>4, <1>6, <1>9, <1>10, <1>11 DEF Reached, Open, IsPending, records
<1>13. QED BY <1>8, <1>12

LEMMA AcceptReportReached ==
  ASSUME Data, FlowInv, ReachedInv, NEW p \in Jobs, AcceptReport(p)
  PROVE  Data' /\ Reached(p)'
<1>1. At(p, "report") BY DEF AcceptReport
<1>2. /\ Reached(p) /\ JobsInv BY <1>1, Activates DEF Activating
<1>3. Went(p, "report") BY <1>1, <1>2, Ends DEF AcceptReport
<1>4. /\ pending' = [pending EXCEPT !.bound = TRUE, !.phase = "promoted"]
      /\ live' = live \cup {job[p].txn}
      /\ UNCHANGED <<intent, decided, done, current, dirs, db, snap, auth, armed, svc,
                     lock, faults, strayed>>
  BY DEF AcceptReport
<1>5. JobsInv' BY <1>3 DEF Went, Moved
<1>6. /\ pending # None /\ pending.txn = job[p].txn /\ pending.outcome = None /\ ~pending.approved
      /\ db = [txn |-> job[p].txn, rel |-> job[p].rel]
      /\ svc.st = "stopped" /\ job[p].rel \in dirs
  BY <1>1, <1>2 DEF Reached, Open, IsPending
<1>7. pending \in Deployments BY <1>6 DEF Data, TypeOK
<1>16. Edited /\ pending'.approved = pending.approved /\ pending'.outcome = pending.outcome
  BY <1>4, <1>6, <1>7 DEF Edited, Deployments
<1>8. Edited /\ pending'.approved = pending.approved /\ pending'.outcome = pending.outcome
      /\ pending' # None
  BY <1>16, NoneAssumption DEF Edited
<1>9. pending.rel = job[p].rel
  <2>1. job[p].rel = Target[job[p].txn] BY <1>1, Activates DEF Activating
  <2>2. QED BY <1>6, <2>1 DEF Data, RecordsInv, IsRecord
<1>10. Data' BY <1>4, <1>5, <1>6, <1>8, <1>9, Edits
<1>11. \A n : At(p, n)' => n = "switch" BY <1>3 DEF Went, Follows, Recoveries
<1>12. job'[p].txn = job[p].txn /\ job'[p].rel = job[p].rel BY <1>3 DEF Went, Same
<1>13. pending'.txn = pending.txn BY <1>8 DEF Edited
<1>14. Reached(p)'
  BY <1>4, <1>6, <1>8, <1>11, <1>12, <1>13 DEF Reached, Open, IsPending
<1>15. QED BY <1>10, <1>14

LEMMA SwitchCurrentReached ==
  ASSUME Data, FlowInv, ReachedInv, NEW p \in Jobs, SwitchCurrent(p)
  PROVE  Data' /\ Reached(p)'
<1>1. At(p, "switch") BY DEF SwitchCurrent
<1>2. /\ Reached(p) /\ JobsInv /\ job[p].rel \in Releases BY <1>1, Activates DEF Activating
<1>3. Went(p, "switch") BY <1>1, <1>2, Ends DEF SwitchCurrent
<1>4. /\ current' = job[p].rel
      /\ UNCHANGED <<records, dirs, db, snap, auth, live, armed, svc, lock, faults, strayed>>
  BY DEF SwitchCurrent
<1>5. JobsInv' BY <1>3 DEF Went, Moved
<1>6. /\ pending # None /\ pending.txn = job[p].txn /\ pending.outcome = None /\ ~pending.approved
      /\ svc.st = "stopped" /\ job[p].rel \in dirs
  BY <1>1, <1>2 DEF Reached, Open, IsPending
<1>7. Data' BY <1>2, <1>4, <1>5, <1>6, Switches, NoneAssumption
<1>8. \A n : At(p, n)' => n = "activated" BY <1>3 DEF Went, Follows, Recoveries
<1>9. job'[p].txn = job[p].txn /\ job'[p].rel = job[p].rel BY <1>3 DEF Went, Same
<1>10. Reached(p)' BY <1>4, <1>6, <1>8, <1>9 DEF Reached, Open, IsPending, records
<1>11. QED BY <1>7, <1>10

LEMMA PhaseActivatedReached ==
  ASSUME Data, FlowInv, ReachedInv, NEW p \in Jobs, PhaseActivated(p)
  PROVE  Data' /\ Reached(p)'
<1>1. At(p, "activated") BY DEF PhaseActivated
<1>2. /\ Reached(p) /\ JobsInv /\ job[p].out # "committed" BY <1>1, Activates DEF Activating
<1>3. Went(p, "activated") BY <1>1, <1>2, Ends DEF PhaseActivated
<1>4. /\ pending' = [pending EXCEPT !.phase = "activated"]
      /\ UNCHANGED <<intent, decided, done, site, armed, svc, lock, faults, strayed>>
  BY DEF PhaseActivated
<1>5. JobsInv' BY <1>3 DEF Went, Moved
<1>6. pending # None BY <1>1, <1>2 DEF Reached, Open, IsPending
<1>7. pending \in Deployments BY <1>6 DEF Data, TypeOK
<1>8. Edited /\ pending'.approved = pending.approved /\ pending'.outcome = pending.outcome
  BY <1>4, <1>6, <1>7 DEF Edited, Deployments
<1>9. Data' BY <1>4, <1>5, <1>8, Edits DEF site
<1>10. \A n : At(p, n)' => n = "permit" BY <1>3 DEF Went, Follows, Recoveries
<1>11. job'[p].out # "committed" BY <1>2, <1>3 DEF Went, Same
<1>12. Reached(p)' BY <1>10, <1>11 DEF Reached
<1>13. QED BY <1>9, <1>12

LEMMA PermitStartReached ==
  ASSUME Data, FlowInv, ReachedInv, NEW p \in Jobs, PermitStart(p)
  PROVE  Data' /\ Reached(p)'
<1>1. At(p, "permit") BY DEF PermitStart
<1>2. /\ Reached(p) /\ JobsInv BY <1>1, Holds
<1>3. Went(p, "permit") \/ Quit(p) BY <1>1, <1>2, Ends DEF PermitStart
<1>4. UNCHANGED <<records, current, dirs, db, snap, armed, svc, lock, faults, strayed>>
  BY DEF PermitStart
<1>5. JobsInv' BY <1>3 DEF Went, Quit, Moved
<1>6. CASE Fail(p) /\ UNCHANGED <<auth, live>>
  <2>1. Quit(p) BY <1>1, <1>2, <1>6, Ends
  <2>2. Reached(p)' BY <2>1, QuitReached
  <2>3. intent' # None => intent' \in Intents /\ IsRecord(intent')
    BY <1>4 DEF Data, TypeOK, RecordsInv, records
  <2>4. Data' BY <1>4, <1>5, <1>6, <2>3, IntentChanges DEF site, records
  <2>5. QED BY <2>2, <2>4
<1>7. CASE /\ pending # None /\ ReportValid(pending) /\ Continue(p)
           /\ auth' = [kind |-> "pending", txn |-> pending.txn, rel |-> pending.rel, db |-> db]
           /\ live' = live \cup {"auth"}
  <2>1. pending \in Deployments /\ pending.txn \in Txns /\ pending.rel \in Releases
        /\ IsRecord(pending)
    BY <1>7 DEF Data, TypeOK, Deployments, RecordsInv
  <2>2. db = [txn |-> pending.txn, rel |-> pending.rel] BY <1>7, <2>1, BoundDatabase
  <2>3. db \in Databases BY DEF Data, TypeOK
  <2>4. auth' \in Authorizations /\ auth'.rel = auth'.db.rel
    BY <1>7, <2>1, <2>2, <2>3 DEF Authorizations
  <2>5. Data' BY <1>4, <1>5, <1>7, <2>4, AuthChanges
  <2>6. Went(p, "permit") BY <1>1, <1>2, <1>7, Ends
  <2>7. \A n : At(p, n)' => n \in {"restart", "ready"} /\ Suits(p, job'[p], n)
    BY <2>6 DEF Went, Follows, Recoveries
  <2>8. job'[p].txn = job[p].txn /\ job'[p].out = job[p].out BY <2>6 DEF Went, Same
  <2>9. At(p, "ready")' => job[p].out = "committed" BY <2>7, <2>8 DEF Suits
  <2>10. job[p].out = "committed" => pending.txn = job[p].txn /\ pending.approved
    BY <1>1, <1>2 DEF Reached, IsPending
  <2>11. Reached(p)' BY <1>4, <1>7, <2>7, <2>8, <2>9, <2>10 DEF Reached, IsPending, records
  <2>12. QED BY <2>5, <2>11
<1>8. QED BY <1>6, <1>7 DEF PermitStart

------------------------------------------------------------------------------
(* The stages of the verification. *)
LEMMA ApproveReached ==
  ASSUME Data, FlowInv, ReachedInv, NEW p \in Jobs, Approve(p)
  PROVE  Data' /\ Reached(p)'
<1>1. At(p, "approve") BY DEF Approve
<1>2. /\ Reached(p) /\ JobsInv BY <1>1, Holds
<1>3. UNCHANGED <<intent, decided, done, site, armed, svc, lock, faults, strayed>> BY DEF Approve
<1>4. CASE Fail(p) /\ UNCHANGED pending
  <2>1. Quit(p) BY <1>1, <1>2, <1>4, Ends
  <2>2. Reached(p)' BY <2>1, QuitReached
  <2>3. intent' # None => intent' \in Intents /\ IsRecord(intent')
    BY <1>3 DEF Data, TypeOK, RecordsInv
  <2>4. JobsInv' BY <2>1 DEF Quit, Moved
  <2>5. Data' BY <1>3, <1>4, <2>3, <2>4, IntentChanges
  <2>6. QED BY <2>2, <2>5
<1>5. CASE /\ IsPending(job[p].txn) /\ ReportValid(pending) /\ Answers(pending.rel)
           /\ pending' = [pending EXCEPT !.approved = TRUE] /\ Continue(p)
  <2>1. pending # None /\ pending.txn = job[p].txn BY <1>5 DEF IsPending
  <2>2. pending \in Deployments /\ pending.txn \in Txns /\ IsRecord(pending)
    BY <2>1 DEF Data, TypeOK, Deployments, RecordsInv
  <2>3. db = [txn |-> pending.txn, rel |-> pending.rel] /\ current = pending.rel
    BY <1>5, <2>2, BoundDatabase DEF Answers
  <2>4. Edited /\ pending'.outcome = pending.outcome /\ pending' # None
    BY <1>3, <1>5, <2>1, <2>2, NoneAssumption DEF Edited, Deployments
  <2>5. Went(p, "approve") BY <1>1, <1>2, <1>5, Ends
  <2>6. JobsInv' BY <2>5 DEF Went, Moved
  <2>7. Data' BY <1>3, <2>3, <2>4, <2>6, Edits DEF site
  <2>8. \A n : At(p, n)' => n = "verify" BY <2>5 DEF Went, Follows, Recoveries
  <2>9. pending'.txn = job'[p].txn BY <2>1, <2>4, <2>5 DEF Went, Same, Edited
  <2>10. Reached(p)' BY <2>4, <2>8, <2>9 DEF Reached, IsPending
  <2>11. QED BY <2>7, <2>10
<1>6. QED BY <1>4, <1>5 DEF Approve

LEMMA VerifyReached ==
  ASSUME Data, FlowInv, ReachedInv, NEW p \in Jobs, Verify(p)
  PROVE  Data' /\ Reached(p)'
<1>1. At(p, "verify") BY DEF Verify
<1>2. /\ Reached(p) /\ JobsInv BY <1>1, Holds
<1>3. UNCHANGED <<intent, decided, done, site, armed, svc, lock, faults, strayed>> BY DEF Verify
<1>4. CASE Fail(p) /\ UNCHANGED pending
  <2>1. Quit(p) BY <1>1, <1>2, <1>4, Ends
  <2>2. Reached(p)' BY <2>1, QuitReached
  <2>3. intent' # None => intent' \in Intents /\ IsRecord(intent')
    BY <1>3 DEF Data, TypeOK, RecordsInv
  <2>4. JobsInv' BY <2>1 DEF Quit, Moved
  <2>5. Data' BY <1>3, <1>4, <2>3, <2>4, IntentChanges
  <2>6. QED BY <2>2, <2>5
<1>5. CASE /\ pending.approved
           /\ pending' = [pending EXCEPT !.phase = "verified"] /\ Continue(p)
  <2>1. pending # None /\ pending.txn = job[p].txn BY <1>1, <1>2 DEF Reached, IsPending
  <2>2. pending \in Deployments BY <2>1 DEF Data, TypeOK
  <2>11. Edited /\ pending'.outcome = pending.outcome /\ pending'.approved = pending.approved
    BY <1>3, <1>5, <2>1, <2>2 DEF Edited, Deployments
  <2>3. Edited /\ pending'.outcome = pending.outcome /\ pending'.approved = pending.approved
        /\ pending' # None
    BY <2>11, NoneAssumption DEF Edited
  <2>4. Went(p, "verify") BY <1>1, <1>2, <1>5, Ends
  <2>5. JobsInv' BY <2>4 DEF Went, Moved
  <2>6. Data' BY <1>3, <2>3, <2>5, Edits DEF site
  <2>7. \A n : At(p, n)' => n = "valid" BY <2>4 DEF Went, Follows, Recoveries
  <2>8. pending'.txn = job'[p].txn BY <2>1, <2>3, <2>4 DEF Went, Same, Edited
  <2>9. Reached(p)' BY <1>5, <2>3, <2>7, <2>8 DEF Reached, IsPending
  <2>10. QED BY <2>6, <2>9
<1>6. QED BY <1>4, <1>5 DEF Verify

LEMMA WatchdogDecisionReached ==
  ASSUME Data, FlowInv, ReachedInv, NEW p \in Jobs, WatchdogDecision(p)
  PROVE  Data' /\ Reached(p)'
<1>1. UNCHANGED <<pending, decided, done, site, armed, svc, lock, faults, strayed>>
  BY DEF WatchdogDecision
<1>2. \/ Quit(p)
      \/ DecidedPending(p)
      \/ Moved(p) /\ job'[p].todo = Quitting
  BY WatchdogDecisionWay DEF Data, FlowInv
<1>3. JobsInv' BY <1>2 DEF Quit, DecidedPending, Decided, Moved
<1>4. intent' # None => intent' \in Intents /\ IsRecord(intent')
  BY DEF Data, TypeOK, RecordsInv, WatchdogDecision
<1>5. Data' BY <1>1, <1>3, <1>4, IntentChanges
<1>6. CASE Moved(p) /\ job'[p].todo = Quitting
  <2>1. \A n : At(p, n)' => n = "completed" BY <1>6, QuittingList DEF At
  <2>2. Reached(p)' BY <2>1, Unbound DEF Bound, Activating
  <2>3. QED BY <1>5, <2>2
<1>7. QED BY <1>1, <1>2, <1>5, <1>6, QuitReached, DecidedReached

------------------------------------------------------------------------------
(* The stages of a rollback. *)
LEMMA QuitKeepsData ==
  ASSUME Data, NEW p, Moved(p), UNCHANGED <<records, site, armed, svc, lock, faults, strayed>>
  PROVE  Data'
<1>1. intent' # None => intent' \in Intents /\ IsRecord(intent')
  BY DEF Data, TypeOK, RecordsInv, records
<1>2. JobsInv' BY DEF Moved
<1>3. QED BY <1>1, <1>2, IntentChanges DEF records

(* What a rollback has reached, whichever of its stages comes next. *)
Undoing(p) ==
  /\ pending # None /\ pending.txn = job[p].txn
  /\ ~pending.approved /\ pending.outcome # "committed"
  /\ current \in {pending.rel, pending.prev}

LEMMA Undoes ==
  ASSUME FlowInv, ReachedInv, NEW p \in Jobs,
         NEW s \in {"cease", "restore", "switchback", "regrant"}, At(p, s)
  PROVE  /\ Undoing(p) /\ JobsInv /\ job[p].out = "rolled-back"
         /\ s # "cease" => Down(p) /\ svc.st # "running"
         /\ s # "regrant" => job[p].prev = pending.prev
         /\ s \in {"switchback", "regrant"} => db.txn # job[p].txn
         /\ s = "regrant" => current = pending.prev
<1>1. Reached(p) /\ JobsInv /\ job[p].out = "rolled-back" BY Holds DEF Suits
<1>2. Undoing(p) BY <1>1 DEF Reached, Undoing, IsPending
<1>3. QED BY <1>1, <1>2 DEF Reached, Undoing, Down

LEMMA StopCandidateReached ==
  ASSUME Data, FlowInv, ReachedInv, NEW p \in Jobs, StopCandidate(p)
  PROVE  Data' /\ Reached(p)'
<1>1. At(p, "cease") /\ Continue(p) BY DEF StopCandidate
<1>2. /\ Undoing(p) /\ JobsInv /\ job[p].prev = pending.prev BY <1>1, Undoes
<1>3. UNCHANGED <<records, site, armed, lock, faults, strayed>> BY DEF StopCandidate
<1>4. Went(p, "cease") /\ job'[p] = [job[p] EXCEPT !.todo = Tail(@)]
  BY <1>1, <1>2, Continues
<1>5. JobsInv' BY <1>4 DEF Went, Moved
<1>6. /\ svc' \in [st : {"stopped", "starting", "checking", "running", "retry"}, rel : Releases]
      /\ p = Boot => svc' = svc
      /\ p # Boot => svc'.st = "stopped"
  BY DEF StopCandidate, Data, TypeOK
<1>7. p = Boot => svc.st = "starting"
  BY <1>1, <1>2, Working DEF FlowInv, BootInv
<1>8. /\ armed' \in SUBSET Txns /\ lock' \in Jobs \cup {None} /\ faults' \in 0..MaxFaults
      /\ strayed' \in BOOLEAN
  BY <1>3 DEF Data, TypeOK
<1>9. Data' BY <1>3, <1>5, <1>6, <1>7, <1>8, ServiceChanges
<1>10. \A n : At(p, n)' => n = "restore" BY <1>4 DEF Went, Follows, Recoveries
<1>11. job'[p].txn = job[p].txn /\ job'[p].prev = job[p].prev
  <2>1. job[p] \in JobStates BY <1>1, <1>2, Working
  <2>2. QED BY <1>4, <2>1 DEF JobStates
<1>12. Reached(p)'
  BY <1>2, <1>3, <1>6, <1>7, <1>10, <1>11 DEF Reached, Undoing, IsPending, Down, records, site
<1>13. QED BY <1>9, <1>12

LEMMA RestoreDatabaseReached ==
  ASSUME Data, FlowInv, ReachedInv, NEW p \in Jobs, RestoreDatabase(p)
  PROVE  Data' /\ Reached(p)'
<1>1. At(p, "restore") BY DEF RestoreDatabase
<1>2. /\ Undoing(p) /\ JobsInv /\ job[p].out = "rolled-back" /\ Down(p)
      /\ svc.st # "running" /\ job[p].prev = pending.prev
  BY <1>1, Undoes
<1>3. UNCHANGED <<records, current, dirs, snap, auth, armed, svc, lock, faults, strayed>>
  BY DEF RestoreDatabase
<1>4. CASE Fail(p) /\ UNCHANGED <<db, live>>
  <2>1. Quit(p) BY <1>1, <1>2, <1>4, Ends
  <2>2. Reached(p)' BY <2>1, QuitReached
  <2>3. Data' BY <1>3, <1>4, <2>1, QuitKeepsData DEF Quit, site
  <2>4. QED BY <2>2, <2>3
<1>5. CASE /\ snap[job[p].txn] # None /\ Install(snap[job[p].txn]) /\ Continue(p)
  <2> DEFINE d == snap[job[p].txn]
  <2>1. /\ pending # None /\ pending.txn = job[p].txn /\ pending \in Deployments
        /\ pending.txn \in Txns
    BY <1>2 DEF Undoing, Data, TypeOK, Deployments
  <2>2. d \in Databases BY <1>5, <2>1 DEF Data, TypeOK
  <2>3. d.txn # None => Known(d.txn) BY <1>5, <2>1 DEF Data, FilesInv, Known
  <2>4. d.txn # pending.txn BY <2>1 DEF Data, RecordsInv
  <2>5. Install(d) BY <1>5
  <2>6. Went(p, "restore") /\ job'[p] = [job[p] EXCEPT !.todo = Tail(@)]
    BY <1>1, <1>2, <1>5, Continues
  <2>7. JobsInv' BY <2>6 DEF Went, Moved
  <2> HIDE DEF d
  <2>8. Data' BY <1>2, <1>3, <2>1, <2>2, <2>3, <2>4, <2>5, <2>7, Installs DEF Undoing
  <2>9. \A n : At(p, n)' => n = "switchback" BY <2>6 DEF Went, Follows, Recoveries
  <2>10. job'[p].txn = job[p].txn /\ db'.txn # job'[p].txn
    BY <2>1, <2>4, <2>5, <2>6 DEF Went, Same, Install
  <2>11. job'[p].prev = job[p].prev
    <3>1. job[p] \in JobStates BY <1>1, <1>2, Working
    <3>2. QED BY <2>6, <3>1 DEF JobStates
  <2>12. Reached(p)'
    BY <1>2, <1>3, <2>9, <2>10, <2>11 DEF Reached, Undoing, IsPending, Down, records
  <2>13. QED BY <2>8, <2>12
<1>6. QED BY <1>4, <1>5 DEF RestoreDatabase

LEMMA SwitchBackReached ==
  ASSUME Data, FlowInv, ReachedInv, NEW p \in Jobs, SwitchBack(p)
  PROVE  Data' /\ Reached(p)'
<1>1. At(p, "switchback") /\ Continue(p) /\ current' = job[p].prev BY DEF SwitchBack
<1>2. /\ Undoing(p) /\ JobsInv /\ Down(p) /\ db.txn # job[p].txn /\ job[p].prev = pending.prev
  BY <1>1, Undoes
<1>3. UNCHANGED <<records, dirs, db, snap, auth, live, armed, svc, lock, faults, strayed>>
  BY DEF SwitchBack
<1>4. /\ pending # None /\ pending.txn = job[p].txn /\ pending \in Deployments
      /\ pending.prev \in Releases \cup {None}
  BY <1>2 DEF Undoing, Data, TypeOK, Deployments
<1>5. current' = pending.prev BY <1>1, <1>2
<1>6. current' # None => current' \in dirs BY <1>4, <1>5 DEF Data, RecordsInv
<1>7. Went(p, "switchback") BY <1>1, <1>2, Ends
<1>8. JobsInv' BY <1>7 DEF Went, Moved
<1>9. Data' BY <1>2, <1>3, <1>4, <1>5, <1>6, <1>8, Switches DEF Undoing
<1>10. \A n : At(p, n)' => n = "regrant" BY <1>7 DEF Went, Follows, Recoveries
<1>11. job'[p].txn = job[p].txn BY <1>7 DEF Went, Same
<1>12. Reached(p)'
  BY <1>2, <1>3, <1>5, <1>10, <1>11 DEF Reached, Undoing, IsPending, Down, records
<1>13. QED BY <1>9, <1>12

LEMMA RestoreAuthorizationReached ==
  ASSUME Data, FlowInv, ReachedInv, NEW p \in Jobs, RestoreAuthorization(p)
  PROVE  Data' /\ Reached(p)'
<1>1. At(p, "regrant") BY DEF RestoreAuthorization
<1>2. /\ Undoing(p) /\ JobsInv /\ job[p].out = "rolled-back" /\ Down(p)
      /\ db.txn # job[p].txn /\ current = pending.prev
  BY <1>1, Undoes
<1>3. UNCHANGED <<records, current, dirs, db, snap, armed, svc, lock, faults, strayed>>
  BY DEF RestoreAuthorization
<1>4. CASE Fail(p) /\ UNCHANGED <<auth, live>>
  <2>1. Quit(p) BY <1>1, <1>2, <1>4, Ends
  <2>2. Reached(p)' BY <2>1, QuitReached
  <2>3. Data' BY <1>3, <1>4, <2>1, QuitKeepsData DEF Quit, site
  <2>4. QED BY <2>2, <2>3
<1>5. CASE Regrant(pending) /\ Continue(p)
  <2>1. pending # None BY <1>2 DEF Undoing
  <2>2. /\ auth' \in Authorizations \cup {None}
        /\ auth' # None => auth'.rel = auth'.db.rel
        /\ live' \in {live \cup {"auth"}, live \ {"auth"}}
    BY <1>5, <2>1, RegrantChanges
  <2>3. Went(p, "regrant") BY <1>1, <1>2, <1>5, Ends
  <2>4. JobsInv' BY <2>3 DEF Went, Moved
  <2>5. Data' BY <1>3, <2>2, <2>4, AuthChanges
  <2>6. \A n : At(p, n)' => n = "decide" BY <2>3 DEF Went, Follows, Recoveries
  <2>7. job'[p].txn = job[p].txn /\ job'[p].out = "rolled-back" BY <1>2, <2>3 DEF Went, Same
  <2>8. Reached(p)'
    BY <1>2, <1>3, <2>6, <2>7 DEF Reached, Undoing, IsPending, Down, records
  <2>9. QED BY <2>5, <2>8
<1>6. QED BY <1>4, <1>5 DEF RestoreAuthorization

LEMMA RecordOutcomeReached ==
  ASSUME Data, FlowInv, ReachedInv, NEW p \in Jobs, RecordOutcome(p)
  PROVE  Data' /\ Reached(p)'
<1>1. At(p, "decide") BY DEF RecordOutcome
<1>2. /\ Reached(p) /\ JobsInv /\ job[p].out \in {"committed", "rolled-back"}
  BY <1>1, Holds DEF Suits, JobStates
<1>3. UNCHANGED <<intent, decided, done, site, armed, svc, lock, faults, strayed>>
  BY DEF RecordOutcome
<1>4. CASE Fail(p) /\ UNCHANGED pending
  <2>1. Quit(p) BY <1>1, <1>2, <1>4, Ends
  <2>2. Reached(p)' BY <2>1, QuitReached
  <2>3. Data' BY <1>3, <1>4, <2>1, QuitKeepsData DEF Quit, records
  <2>4. QED BY <2>2, <2>3
<1>5. CASE /\ MayDecide(job[p].out) /\ Continue(p)
           /\ pending' = [pending EXCEPT !.outcome = job[p].out]
  <2>1. Went(p, "decide") BY <1>1, <1>2, <1>5, Ends
  <2>2. Reached(p)' BY <2>1, WentReached
  <2>3. pending # None /\ pending.txn = job[p].txn BY <1>1, <1>2 DEF Reached, IsPending
  <2>4. pending \in Deployments BY <2>3 DEF Data, TypeOK
  <2>5. Edited /\ pending'.approved = pending.approved /\ pending'.outcome = job[p].out
    BY <1>2, <1>3, <1>5, <2>3, <2>4 DEF Edited, Deployments, MayDecide
  <2>6. \/ job[p].out = "committed" /\ pending.approved
        \/ job[p].out = "rolled-back" /\ current = pending.prev /\ db.txn # pending.txn
    BY <1>1, <1>2, <2>3 DEF Reached
  <2>7. JobsInv' BY <2>1 DEF Went, Moved
  <2>8. Data' BY <1>3, <2>5, <2>6, <2>7, Edits DEF site
  <2>9. QED BY <2>2, <2>8
<1>6. QED BY <1>4, <1>5 DEF RecordOutcome

(* Whoever seals a deployment seals it with its outcome. *)
LEMMA Sealed ==
  ASSUME Data, FlowInv, RecordedInv, NEW p \in Jobs, At(p, "seal"), IsPending(job[p].txn)
  PROVE  pending.outcome = job[p].out /\ pending.outcome # None
<1>1. /\ job[p].todo \in Seq(Stages) /\ job[p].todo # <<>> /\ Head(job[p].todo) = "seal"
      /\ JobInv(p, job[p]) /\ Suits(p, job[p], "seal") /\ "seal" \in Elems(job[p].todo)
  BY Working DEF FlowInv
<1>2. /\ Elems(job[p].todo) = {"seal"} \cup Elems(Tail(job[p].todo))
      /\ \A n \in Elems(Tail(job[p].todo)) : Later("seal", n)
  BY <1>1, TailOf DEF JobInv
<1>3. "decide" \notin Elems(job[p].todo) BY <1>2 DEF Later
<1>4. Recorded(p) BY <1>1, <1>3 DEF RecordedInv, Due
<1>5. job[p].out # None BY <1>1 DEF Suits
<1>6. ~Terminal(job[p].txn) /\ pending.txn = job[p].txn BY DEF IsPending, Data, RecordsInv
<1>7. QED BY <1>4, <1>5, <1>6 DEF Recorded, Terminal

LEMMA SealReached ==
  ASSUME Data, FlowInv, RecordedInv, NEW p \in Jobs, Seal(p)
  PROVE  Data' /\ Reached(p)'
<1>1. At(p, "seal") /\ JobsInv BY DEF Seal, FlowInv
<1>2. UNCHANGED <<intent, done, site, armed, svc, lock, faults, strayed>> BY DEF Seal
<1>3. CASE Fail(p) /\ UNCHANGED <<pending, decided>>
  <2>1. Quit(p) BY <1>1, <1>3, Ends
  <2>2. Reached(p)' BY <2>1, QuitReached
  <2>3. Data' BY <1>2, <1>3, <2>1, QuitKeepsData DEF Quit, records
  <2>4. QED BY <2>2, <2>3
<1>4. CASE /\ IsPending(job[p].txn) /\ decided = None
           /\ decided' = pending /\ pending' = None /\ Continue(p)
  <2>1. Went(p, "seal") BY <1>1, <1>4, Ends
  <2>2. Reached(p)' BY <2>1, WentReached
  <2>3. pending # None /\ pending.outcome # None BY <1>1, <1>4, Sealed DEF IsPending
  <2>4. JobsInv' BY <2>1 DEF Went, Moved
  <2>5. Data' BY <1>2, <1>4, <2>3, <2>4, Seals
  <2>6. QED BY <2>2, <2>5
<1>5. QED BY <1>3, <1>4 DEF Seal

LEMMA StageReached ==
  ASSUME Data, FlowInv, ReachedInv, RecordedInv, NEW p \in Jobs, Stage(p)
  PROVE  Data' /\ Reached(p)'
<1>1. CASE Looks(p) BY <1>1, LooksReached
<1>2. CASE Stops(p) BY <1>2, StopServiceReached, StopCandidateReached DEF Stops
<1>3. CASE Writes(p)
  BY <1>3, RecoverIntentsReached, DiscardIntentReached, DropReached, RecoverFinalizedReached,
     CompleteReached, GrantReached, WriteIntentReached, UnpackReached, SnapshotReached,
     WritePendingReached, ArmReached, RemoveIntentReached, PromoteReached,
     AcceptReportReached, SwitchCurrentReached, PhaseActivatedReached, PermitStartReached,
     ApproveReached, VerifyReached, WatchdogDecisionReached, RestoreDatabaseReached,
     SwitchBackReached, RestoreAuthorizationReached, RecordOutcomeReached, SealReached
     DEF Writes
<1>4. QED BY <1>1, <1>2, <1>3 DEF Stage

------------------------------------------------------------------------------
(* What the holder of the lock has reached the others leave alone. *)
LEMMA Stays ==
  ASSUME NEW q, Reached(q), job'[q] = job[q], UNCHANGED <<intent, decided, done, site>>,
         \/ pending' = pending
         \/ pending # None /\ Edited /\ pending' # None /\ pending'.approved = pending.approved
            /\ pending'.outcome = pending.outcome,
         svc.st = "stopped" => svc'.st = "stopped",
         q = Boot /\ svc.st = "starting" => svc'.st = "starting"
  PROVE  Reached(q)'
<1>1. \A s : At(q, s)' <=> At(q, s) BY DEF At
<1>2. /\ pending' = None <=> pending = None
      /\ pending # None => /\ pending'.txn = pending.txn /\ pending'.rel = pending.rel
                           /\ pending'.prev = pending.prev /\ pending'.outcome = pending.outcome
                           /\ pending'.approved = pending.approved
  BY DEF Edited
<1>3. \A t : Terminal(t)' <=> Terminal(t) BY DEF Terminal
<1>4. Down(q) => Down(q)' BY DEF Down
<1>5. \A t : (IsPending(t)' <=> IsPending(t)) /\ (Open(t)' <=> Open(t))
  BY <1>2 DEF IsPending, Open
<1>6. job'[q].txn = job[q].txn /\ job'[q].out = job[q].out /\ job'[q].rel = job[q].rel
      /\ job'[q].sub = job[q].sub /\ job'[q].prev = job[q].prev
  OBVIOUS
<1>7. QED BY <1>1, <1>2, <1>3, <1>4, <1>6 DEF Reached, site, Terminal, Open, IsPending

LEMMA ServiceStates ==
  ASSUME Data, OfService
  PROVE  /\ UNCHANGED <<records, site, armed, lock, job, strayed>> /\ faults' \in 0..MaxFaults
         /\ svc' \in [st : {"stopped", "starting", "checking", "running", "retry"}, rel : Releases]
         /\ svc'.st = "running" => svc'.rel = db.rel
         /\ svc.st = "stopped" => svc'.st = "stopped"
         /\ svc.st = "starting" => job[Boot].cmd = "none"
<1>1. /\ svc \in [st : {"stopped", "starting", "checking", "running", "retry"}, rel : Releases]
      /\ faults \in 0..MaxFaults /\ MaxFaults \in Nat
  BY InstallerAssumption DEF Data, TypeOK
<1>2. CASE BootTimesOut BY <1>1, <1>2 DEF BootTimesOut
<1>3. CASE Serve
  <2>1. CASE Authorized
    <3>1. auth # None /\ auth.rel = current /\ auth.db = db BY <2>1 DEF Authorized
    <3>2. current = db.rel BY <3>1 DEF Data, FilesInv
    <3>3. db.rel \in Releases BY DEF Data, TypeOK, Databases
    <3>4. QED BY <1>1, <1>3, <2>1, <3>2, <3>3 DEF Serve
  <2>2. CASE ~Authorized BY <1>1, <1>3, <2>2 DEF Serve
  <2>3. QED BY <2>1, <2>2
<1>4. CASE AutoRestart BY <1>1, <1>4 DEF AutoRestart
<1>5. CASE ServiceFails BY <1>1, <1>5 DEF ServiceFails
<1>6. QED BY <1>2, <1>3, <1>4, <1>5 DEF OfService

LEMMA NextReached ==
  ASSUME ~strayed', Data, FlowInv, ReachedInv, RecordedInv, Next
  PROVE  Data' /\ ReachedInv'
<1> USE DEF FlowInv
<1>1. /\ TypeOK /\ None \notin Jobs /\ MaxFaults \in Nat /\ faults \in 0..MaxFaults
      /\ strayed \in BOOLEAN
      /\ lock \in Jobs \cup {None} /\ armed \in SUBSET Txns
      /\ svc \in [st : {"stopped", "starting", "checking", "running", "retry"}, rel : Releases]
      /\ svc.st = "running" => svc.rel = db.rel
  BY InstallerAssumption DEF Data, TypeOK, Jobs, CodeMatchesDb
<1>2. ASSUME NEW p \in Jobs, Stage(p) PROVE Data' /\ ReachedInv'
  <2>1. Data' /\ Reached(p)' BY <1>2, StageReached
  <2>2. lock' = p BY <1>1, <1>2, LooksMove, StopsMove, WritesMove DEF Stage
  <2>3. QED BY <2>1, <2>2 DEF ReachedInv
<1>3. ASSUME NEW p \in Jobs, Restart(p) PROVE Data' /\ ReachedInv'
  <2>1. /\ lock' = None /\ svc' = [svc EXCEPT !.st = "starting"] /\ JobsInv'
        /\ UNCHANGED <<records, site, armed, faults, strayed>>
    BY <1>3, RestartMoves DEF Went, Moved
  <2>2. /\ svc' \in [st : {"stopped", "starting", "checking", "running", "retry"}, rel : Releases]
        /\ svc'.st # "running"
    BY <1>1, <2>1
  <2>3. Data' BY <1>1, <2>1, <2>2, ServiceChanges
  <2>4. QED BY <1>1, <2>1, <2>3 DEF ReachedInv
<1>4. ASSUME NEW p \in Jobs, Relock(p) PROVE Data' /\ ReachedInv'
  <2>1. /\ Went(p, "relock") \/ Quit(p)
        /\ lock' = p /\ UNCHANGED <<records, site, armed, svc, faults, strayed>>
    BY <1>4, RelockMoves
  <2>2. Reached(p)' /\ JobsInv' BY <2>1, WentReached, QuitReached DEF Went, Quit, Moved
  <2>3. Data' BY <1>1, <2>1, <2>2, ServiceChanges
  <2>4. QED BY <2>1, <2>2, <2>3 DEF ReachedInv
<1>5. ASSUME NEW p \in Jobs, Starting(p) PROVE Data' /\ ReachedInv'
  <2>1. /\ Moved(p) /\ lock' = p
        /\ Head(job'[p].todo) \in {"finalized", "intents", "expire"}
        /\ UNCHANGED <<records, site, svc, faults, strayed>>
        /\ armed' # armed => \E t \in Txns : WakeWatchdog(p, t)
    BY <1>5, StartingMoves
  <2>2. \A n : At(p, n)' => n \in {"finalized", "intents", "expire"} BY <2>1 DEF At
  <2>3. Reached(p)' BY <2>2, Unbound DEF Bound, Activating
  <2>4. armed' \in SUBSET Txns BY <1>1, <2>1 DEF WakeWatchdog
  <2>5. Data' BY <1>1, <2>1, <2>4, ServiceChanges DEF Moved
  <2>6. QED BY <2>1, <2>3, <2>5 DEF ReachedInv
<1>6. ASSUME NEW p \in Jobs, Leaving(p) PROVE Data' /\ ReachedInv'
  <2>1. /\ Moved(p) /\ lock' = (IF lock = p THEN None ELSE lock)
        /\ UNCHANGED <<records, site, armed>>
        /\ svc' = svc \/ (p = Boot /\ svc.st = "starting" /\ svc'.st \in {"checking", "stopped"}
                          /\ svc'.rel = svc.rel)
        /\ strayed' = strayed
    BY <1>1, <1>6, LeavingMoves
  <2>2. /\ svc' \in [st : {"stopped", "starting", "checking", "running", "retry"}, rel : Releases]
        /\ svc'.st = "running" => svc'.rel = db.rel
    BY <1>1, <1>6 DEF Leaving, Exit, Kill
  <2>3. faults' \in 0..MaxFaults BY <1>1, <1>6 DEF Leaving, Exit, Kill
  <2>4. Data' BY <1>1, <2>1, <2>2, <2>3, ServiceChanges DEF Moved
  <2>5. ASSUME NEW q \in Jobs, lock' = q PROVE Reached(q)'
    <3>1. q # p /\ lock = q BY <1>1, <2>1, <2>5
    <3>2. Reached(q) /\ job'[q] = job[q] BY <2>1, <3>1 DEF ReachedInv, Moved
    <3>3. svc' = svc
      <4>1. job[p].cmd # "none" BY <1>6 DEF Leaving, Exit, Kill
      <4>2. p # Boot BY <3>1, <4>1 DEF BootInv
      <4>3. QED BY <2>1, <4>2
    <3>4. UNCHANGED <<intent, decided, done, site, pending>> BY <2>1 DEF records
    <3>5. QED BY <3>2, <3>3, <3>4, Stays
  <2>6. QED BY <2>4, <2>5 DEF ReachedInv
<1>7. ASSUME NEW p \in Jobs, Failing(p) PROVE Data' /\ ReachedInv'
  <2>1. /\ Quit(p) /\ UNCHANGED <<records, site, armed, svc, lock>>
    BY <1>7, FailingMoves
  <2>2. faults' \in 0..MaxFaults BY <1>1, <1>7 DEF Failing, LockTimeout, Interrupt
  <2>3. strayed' \in BOOLEAN
    <3>1. CASE LockTimeout(p)
      <4>1. strayed' = (strayed \/ Trapped(p)) BY <3>1 DEF LockTimeout
      <4>2. QED BY <1>1, <4>1
    <3>2. CASE Interrupt(p)
      <4>1. strayed' = (strayed \/ lock # p) BY <3>2 DEF Interrupt
      <4>2. QED BY <1>1, <4>1
    <3>3. QED BY <1>7, <3>1, <3>2 DEF Failing
  <2>4. Data' BY <1>1, <2>1, <2>2, <2>3, ServiceChanges DEF Quit, Moved
  <2>5. ASSUME NEW q \in Jobs, lock' = q PROVE Reached(q)'
    <3>1. CASE q = p BY <2>1, <3>1, QuitReached
    <3>2. CASE q # p
      <4>1. Reached(q) /\ job'[q] = job[q] BY <2>1, <2>5, <3>2 DEF ReachedInv, Quit, Moved
      <4>2. UNCHANGED <<intent, decided, done, site, pending>> BY <2>1 DEF records
      <4>3. QED BY <2>1, <4>1, <4>2, Stays
    <3>3. QED BY <3>1, <3>2
  <2>6. QED BY <2>4, <2>5 DEF ReachedInv
<1>8. ASSUME OfService PROVE Data' /\ ReachedInv'
  <2>1. /\ UNCHANGED <<records, site, armed, lock, job, strayed>> /\ faults' \in 0..MaxFaults
        /\ svc' \in [st : {"stopped", "starting", "checking", "running", "retry"}, rel : Releases]
        /\ svc'.st = "running" => svc'.rel = db.rel
        /\ svc.st = "stopped" => svc'.st = "stopped"
        /\ svc.st = "starting" /\ svc'.st # "starting" => job[Boot].cmd = "none"
    BY <1>8, ServiceStates
  <2>2. JobsInv' BY <2>1 DEF JobsInv
  <2>3. Data' BY <1>1, <2>1, <2>2, ServiceChanges
  <2>4. ASSUME NEW q \in Jobs, lock' = q PROVE Reached(q)'
    <3>1. Reached(q) /\ lock = q BY <2>1, <2>4 DEF ReachedInv
    <3>2. job[q].cmd # "none" BY <1>1, <3>1 DEF BootInv
    <3>3. q = Boot /\ svc.st = "starting" => svc'.st = "starting" BY <2>1, <3>2
    <3>4. UNCHANGED <<intent, decided, done, site, pending>> BY <2>1 DEF records
    <3>5. QED BY <2>1, <3>1, <3>3, <3>4, Stays
  <2>5. QED BY <2>3, <2>4 DEF ReachedInv
<1>9. ASSUME Expire PROVE Data' /\ ReachedInv'
  <2>1. /\ pending # None /\ pending' = [pending EXCEPT !.expired = TRUE]
        /\ UNCHANGED <<intent, decided, done, site, armed, svc, lock, job, faults, strayed>>
    BY <1>9 DEF Expire
  <2>2. pending \in Deployments BY <2>1 DEF Data, TypeOK
  <2>3. Edited /\ pending'.approved = pending.approved /\ pending'.outcome = pending.outcome
    BY <2>1, <2>2 DEF Edited, Deployments
  <2>4. JobsInv' BY <2>1 DEF JobsInv
  <2>5. Data' BY <2>1, <2>3, <2>4, Edits DEF site
  <2>6. pending' # None BY <2>3, NoneAssumption DEF Edited
  <2>7. ASSUME NEW q \in Jobs, lock' = q PROVE Reached(q)'
    <3>1. Reached(q) /\ job'[q] = job[q] BY <2>1, <2>7 DEF ReachedInv
    <3>2. QED BY <2>1, <2>3, <2>6, <3>1, Stays
  <2>8. QED BY <2>5, <2>7 DEF ReachedInv
<1>10. ASSUME Reboot PROVE Data' /\ ReachedInv'
  <2>1. /\ JobsInv' /\ lock' = None /\ armed' = {} /\ svc' = [svc EXCEPT !.st = "starting"]
        /\ faults' \in 0..MaxFaults /\ UNCHANGED <<records, site, strayed>>
    BY <1>1, <1>10, RebootMoves DEF Reboot
  <2>2. /\ svc' \in [st : {"stopped", "starting", "checking", "running", "retry"}, rel : Releases]
        /\ svc'.st # "running"
    BY <1>1, <2>1
  <2>3. Data' BY <1>1, <2>1, <2>2, ServiceChanges
  <2>4. QED BY <1>1, <2>1, <2>3 DEF ReachedInv
<1>11. QED BY <1>2, <1>3, <1>4, <1>5, <1>6, <1>7, <1>8, <1>9, <1>10, NextSteps

------------------------------------------------------------------------------
(* How one step changes the records of deployments. *)
RecordStep ==
  \/ UNCHANGED <<pending, decided, done>>
  \/ /\ pending = None /\ pending' # None /\ pending'.outcome = None
     /\ UNCHANGED <<decided, done>>
  \/ Edited /\ pending' # None
  \/ /\ pending # None /\ decided = None /\ decided' = pending /\ pending' = None
     /\ UNCHANGED done
  \/ /\ decided # None /\ decided' = None /\ done' = [done EXCEPT ![decided.txn] = decided]
     /\ UNCHANGED pending

LEMMA Edit ==
  ASSUME Data, pending # None, NEW r, pending' = r, r \in Deployments,
         r.txn = pending.txn, r.rel = pending.rel, r.prev = pending.prev,
         r.fresh = pending.fresh, r.saved = pending.saved,
         pending.outcome # None => r.outcome = pending.outcome,
         UNCHANGED <<intent, decided, done>>
  PROVE  RecordStep
<1>1. pending' # None BY NoneAssumption
<1>2. QED BY <1>1 DEF RecordStep, Edited

LEMMA StageRecords ==
  ASSUME Data, FlowInv, ReachedInv, NEW p \in Jobs, Stage(p)
  PROVE  RecordStep
<1> USE DEF FlowInv
<1>1. TypeOK /\ (pending # None => pending \in Deployments) BY DEF Data, TypeOK
<1>2. CASE Looks(p) BY <1>1, <1>2, LooksMove DEF RecordStep, records
<1>3. CASE Stops(p) BY <1>1, <1>3, StopsMove DEF RecordStep, records
<1>4. CASE WritePending(p)
  <2>1. CASE UNCHANGED pending BY <1>4, <2>1 DEF WritePending, RecordStep
  <2>2. CASE ~UNCHANGED pending
    <3>1. At(p, "pend") BY <1>4 DEF WritePending
    <3>2. Reached(p) BY <3>1, Activates DEF Activating
    <3>3. pending = None BY <3>1, <3>2 DEF Reached
    <3>4. pending'.outcome = None /\ UNCHANGED <<decided, done>>
      BY <1>4, <2>2 DEF WritePending
    <3>5. QED BY <2>2, <3>3, <3>4 DEF RecordStep
  <2>3. QED BY <2>1, <2>2
<1>5. CASE AcceptReport(p)
  <2>1. At(p, "report") BY <1>5 DEF AcceptReport
  <2>2. Reached(p) BY <2>1, Activates DEF Activating
  <2>3. pending # None BY <2>1, <2>2 DEF Reached, Open, IsPending
  <2> DEFINE e == [pending EXCEPT !.bound = TRUE, !.phase = "promoted"]
  <2>4. /\ e \in Deployments /\ e.txn = pending.txn /\ e.rel = pending.rel
        /\ e.prev = pending.prev /\ e.fresh = pending.fresh /\ e.saved = pending.saved
        /\ e.outcome = pending.outcome
    BY <1>1, <2>3 DEF Deployments
  <2>5. pending' = e /\ UNCHANGED <<intent, decided, done>> BY <1>5 DEF AcceptReport
  <2> HIDE DEF e
  <2>6. QED BY <2>3, <2>4, <2>5, Edit
<1>6. CASE PhaseActivated(p)
  <2>1. At(p, "activated") BY <1>6 DEF PhaseActivated
  <2>2. Reached(p) BY <2>1, Activates DEF Activating
  <2>3. pending # None BY <2>1, <2>2 DEF Reached, Open, IsPending
  <2>4. QED BY <1>1, <1>6, <2>3, Edit DEF PhaseActivated, Deployments
<1>7. CASE Approve(p)
  <2>1. CASE UNCHANGED pending BY <1>7, <2>1 DEF Approve, RecordStep
  <2>2. CASE ~UNCHANGED pending
    <3>1. pending # None /\ pending' = [pending EXCEPT !.approved = TRUE]
      BY <1>7, <2>2 DEF Approve, IsPending
    <3> DEFINE e == [pending EXCEPT !.approved = TRUE]
    <3>2. /\ e \in Deployments /\ e.txn = pending.txn /\ e.rel = pending.rel
          /\ e.prev = pending.prev /\ e.fresh = pending.fresh /\ e.saved = pending.saved
          /\ e.outcome = pending.outcome
      BY <1>1, <3>1 DEF Deployments
    <3>3. pending' = e /\ UNCHANGED <<intent, decided, done>> BY <1>7, <3>1 DEF Approve
    <3> HIDE DEF e
    <3>4. QED BY <3>1, <3>2, <3>3, Edit
  <2>3. QED BY <2>1, <2>2
<1>8. CASE Verify(p)
  <2>1. CASE UNCHANGED pending BY <1>8, <2>1 DEF Verify, RecordStep
  <2>2. CASE ~UNCHANGED pending
    <3>1. At(p, "verify") BY <1>8 DEF Verify
    <3>2. Reached(p) BY <3>1, Holds
    <3>3. pending # None BY <3>1, <3>2 DEF Reached, IsPending
    <3>4. pending' = [pending EXCEPT !.phase = "verified"] BY <1>8, <2>2 DEF Verify
    <3>5. QED BY <1>1, <1>8, <3>3, <3>4, Edit DEF Verify, Deployments
  <2>3. QED BY <2>1, <2>2
<1>9. CASE RecordOutcome(p)
  <2>1. CASE UNCHANGED pending BY <1>9, <2>1 DEF RecordOutcome, RecordStep
  <2>2. CASE ~UNCHANGED pending
    <3>1. /\ pending # None /\ pending.outcome \in {None, job[p].out}
          /\ pending' = [pending EXCEPT !.outcome = job[p].out]
      BY <1>9, <2>2 DEF RecordOutcome, IsPending, MayDecide
    <3>2. job[p].out \in {None, "committed", "rolled-back"} BY <1>1 DEF TypeOK, JobStates
    <3>3. QED BY <1>1, <1>9, <3>1, <3>2, Edit DEF RecordOutcome, Deployments
  <2>3. QED BY <2>1, <2>2
<1>10. CASE Seal(p) BY <1>10 DEF Seal, RecordStep, IsPending
<1>11. CASE Complete(p) BY <1>11 DEF Complete, RecordStep
<1>12. CASE RecoverIntents(p) BY <1>12 DEF RecoverIntents, RecordStep
<1>13. CASE RecoverFinalized(p) BY <1>13 DEF RecoverFinalized, RecordStep, records
<1>14. CASE DiscardIntent(p) \/ Drop(p) \/ WriteIntent(p) \/ RemoveIntent(p)
  BY <1>14 DEF DiscardIntent, Drop, WriteIntent, RemoveIntent, RecordStep
<1>15. CASE Unpack(p) \/ SnapshotDatabase(p) \/ Arm(p) \/ Promote(p) \/ SwitchCurrent(p)
  BY <1>15 DEF Unpack, SnapshotDatabase, Arm, Promote, SwitchCurrent, RecordStep, records
<1>16. CASE Grant(p) \/ PermitStart(p) BY <1>16 DEF Grant, PermitStart, RecordStep, records
<1>17. CASE WatchdogDecision(p) BY <1>17 DEF WatchdogDecision, RecordStep
<1>18. CASE RestoreDatabase(p) \/ SwitchBack(p) \/ RestoreAuthorization(p)
  BY <1>18 DEF RestoreDatabase, SwitchBack, RestoreAuthorization, RecordStep, records
<1>19. CASE Writes(p)
  BY <1>4, <1>5, <1>6, <1>7, <1>8, <1>9, <1>10, <1>11, <1>12, <1>13, <1>14, <1>15, <1>16,
     <1>17, <1>18, <1>19 DEF Writes
<1>20. QED BY <1>2, <1>3, <1>19 DEF Stage

LEMMA NextRecords ==
  ASSUME ~strayed', Data, FlowInv, ReachedInv, Next
  PROVE  RecordStep
<1> USE DEF FlowInv
<1>1. TypeOK BY DEF Data
<1>2. ASSUME NEW p \in Jobs, Restart(p) \/ Relock(p) \/ Starting(p) \/ Leaving(p) \/ Failing(p)
      PROVE  RecordStep
  <2>1. UNCHANGED records
    BY <1>1, <1>2, RestartMoves, RelockMoves, StartingMoves, LeavingMoves, FailingMoves
  <2>2. QED BY <2>1 DEF RecordStep, records
<1>3. CASE OfService \/ Reboot
  BY <1>3 DEF OfService, BootTimesOut, Serve, AutoRestart, ServiceFails, Reboot, RecordStep, records
<1>4. CASE Expire
  <2>1. /\ pending # None /\ pending' = [pending EXCEPT !.expired = TRUE]
        /\ UNCHANGED <<intent, decided, done>>
    BY <1>4 DEF Expire
  <2>2. pending \in Deployments BY <2>1 DEF Data, TypeOK
  <2> DEFINE e == [pending EXCEPT !.expired = TRUE]
  <2>3. /\ e \in Deployments /\ e.txn = pending.txn /\ e.rel = pending.rel
        /\ e.prev = pending.prev /\ e.fresh = pending.fresh /\ e.saved = pending.saved
        /\ e.outcome = pending.outcome
    BY <2>2 DEF Deployments
  <2>4. pending' = e /\ UNCHANGED <<intent, decided, done>> BY <2>1
  <2> HIDE DEF e
  <2>5. QED BY <2>1, <2>3, <2>4, Edit
<1>5. QED BY <1>2, <1>3, <1>4, StageRecords, NextSteps

(* No such step takes a verdict back. *)
LEMMA VerdictsStay ==
  ASSUME Data, RecordStep, NEW t \in Txns, Verdicts(t) # {}
  PROVE  Verdicts(t)' = Verdicts(t)
<1>1. /\ decided # None => decided.txn \in Txns /\ done[decided.txn] = None
      /\ done \in [Txns -> Deployments \cup {None}]
      /\ pending # None => ~Terminal(pending.txn)
      /\ \A x \in Txns : done[x] # None => done[x].txn = x
  BY DEF Data, TypeOK, Deployments, RecordsInv
<1>2. CASE UNCHANGED <<pending, decided, done>> BY <1>2 DEF Verdicts
<1>3. CASE /\ pending = None /\ pending' # None /\ pending'.outcome = None
           /\ UNCHANGED <<decided, done>>
  BY <1>3 DEF Verdicts
<1>4. CASE Edited /\ pending' # None
  <2>1. /\ pending # None /\ pending'.txn = pending.txn /\ UNCHANGED <<decided, done>>
        /\ pending.outcome # None => pending'.outcome = pending.outcome
    BY <1>4 DEF Edited
  <2>2. CASE pending.txn # t BY <2>1, <2>2, <1>4 DEF Verdicts
  <2>3. CASE pending.txn = t
    <3>1. done[t] = None /\ (decided # None => decided.txn # t)
      BY <1>1, <2>1, <2>3 DEF Terminal
    <3>2. pending.outcome # None BY <3>1 DEF Verdicts
    <3>3. QED BY <1>4, <2>1, <2>3, <3>1, <3>2 DEF Verdicts
  <2>4. QED BY <2>2, <2>3
<1>5. CASE /\ pending # None /\ decided = None /\ decided' = pending /\ pending' = None
           /\ UNCHANGED done
  BY <1>5 DEF Verdicts
<1>6. CASE /\ decided # None /\ decided' = None /\ done' = [done EXCEPT ![decided.txn] = decided]
           /\ UNCHANGED pending
  <2>1. CASE decided.txn = t
    <3>1. done'[t] = decided /\ done[t] = None BY <1>1, <1>6, <2>1
    <3>2. QED BY <1>6, <2>1, <3>1 DEF Verdicts
  <2>2. CASE decided.txn # t
    <3>1. done'[t] = done[t] BY <1>1, <1>6, <2>2
    <3>2. QED BY <1>6, <2>2, <3>1 DEF Verdicts
  <2>3. QED BY <2>1, <2>2
<1>7. QED BY <1>2, <1>3, <1>4, <1>5, <1>6 DEF RecordStep

------------------------------------------------------------------------------
(* Nobody comes to owe a seal but by deciding. *)
Owes(p) == Due(p)' => Due(p) /\ Same(p)

LEMMA WentOwes ==
  ASSUME NEW p, NEW s, Went(p, s), s # "decide" PROVE Owes(p)
  BY DEF Went, Owes, Due

LEMMA QuitOwes ==
  ASSUME NEW p, NEW n, Quit(p) \/ Deferred(p, n) PROVE Owes(p)
<1>1. CASE Quit(p) BY <1>1 DEF Quit, Owes, Due
<1>2. CASE Deferred(p, n) BY <1>2 DEF Deferred, Owes, Due
<1>3. QED BY <1>1, <1>2

LEMMA EndsOwes ==
  ASSUME FlowInv, NEW p \in Jobs, NEW s, At(p, s), s # "decide",
         Continue(p) \/ Fail(p) \/ Finish(p)
  PROVE  Owes(p)
<1>1. Went(p, s) \/ Quit(p) BY Ends DEF FlowInv
<1>2. CASE Went(p, s) BY <1>2, WentOwes
<1>3. CASE Quit(p) BY <1>3, QuitOwes
<1>4. QED BY <1>1, <1>2, <1>3

LEMMA DecidedRecorded ==
  ASSUME NEW p, DecidedPending(p), UNCHANGED pending, Due(p)' PROVE Recorded(p)'
<1>1. PICK q, out : /\ <<q, out>> \in Decisions /\ Decided(p, q, out, pending.txn)
                    /\ pending # None
                    /\ Head(q) \in {"seal", "previous"} => pending.outcome = out
  BY DEF DecidedPending
<1>2. "seal" \in Elems(q) /\ "decide" \notin Elems(q) BY <1>1 DEF Due, Decided
<1>3. Head(q) \in {"seal", "previous"} BY <1>1, <1>2, DecisionLists
<1>4. /\ pending' # None /\ pending'.txn = job'[p].txn /\ pending'.outcome = job'[p].out
  BY <1>1, <1>3 DEF Decided
<1>5. QED BY <1>4 DEF Recorded

(* What a process that does not decide owes stays on record. *)
LEMMA OwedRecorded ==
  ASSUME Data, FlowInv, RecordedInv, RecordStep, NEW p \in Jobs, Owes(p), Due(p)'
  PROVE  Recorded(p)'
<1>1. Due(p) /\ Same(p) /\ Recorded(p) BY DEF Owes, RecordedInv
<1>2. /\ job[p] \in JobStates /\ Suits(p, job[p], "seal")
  BY <1>1 DEF FlowInv, JobsInv, JobInv, Due
<1>3. job[p].txn \in Txns /\ job[p].out # None BY <1>2 DEF Suits, JobStates
<1>4. job[p].out \in Verdicts(job[p].txn)
  BY <1>1, <1>3 DEF Recorded, Verdicts
<1> DEFINE t == job[p].txn
<1>5. \A x \in Txns : Verdicts(x) # {} => Verdicts(x)' = Verdicts(x) BY VerdictsStay
<1>6. \E r \in {pending', decided', done'[t]} \ {None} : r.txn = t /\ r.outcome = job[p].out
  <2>1. \A x \in Txns : Verdicts(x) # {} =>
          Verdicts(x) = {r.outcome : r \in {y \in {pending', decided', done'[x]} \ {None} : y.txn = x}} \ {None}
    BY <1>5 DEF Verdicts
  <2>2. QED BY <1>3, <1>4, <2>1
<1>7. QED BY <1>1, <1>6 DEF Same, Recorded

LEMMA StageRecorded ==
  ASSUME Data, FlowInv, ReachedInv, NEW p \in Jobs, Stage(p)
  PROVE  Owes(p) \/ (Due(p)' => Recorded(p)')
<1> USE DEF FlowInv
<1>1. TypeOK BY DEF Data
<1>2. CASE Reload(p)
  <2>1. PICK s \in {"reload_intent", "reload_pending", "reload_decided", "reload_done"} :
          Went(p, s) \/ Quit(p)
    BY <1>1, <1>2, ReloadWay
  <2>2. QED BY <2>1, WentOwes, QuitOwes
<1>3. CASE RecoverCompleted(p) BY <1>1, <1>3, RecoverCompletedWay, WentOwes, QuitOwes
<1>4. CASE ActivationExit(p) BY <1>4, Exits DEF Owes, Due
<1>5. CASE CommitDecision(p)
  <2>1. Quit(p) \/ DecidedPending(p) BY <1>1, <1>5, CommitDecisionWay
  <2>2. QED BY <1>5, <2>1, QuitOwes, DecidedRecorded DEF CommitDecision, records
<1>6. CASE RollbackDecision(p)
  <2>1. Quit(p) \/ DecidedPending(p) BY <1>1, <1>6, RollbackDecisionWay
  <2>2. QED BY <1>6, <2>1, QuitOwes, DecidedRecorded DEF RollbackDecision, records
<1>7. CASE ReconcileDecision(p)
  <2>1. Quit(p) \/ DecidedPending(p) BY <1>1, <1>7, ReconcileDecisionWay
  <2>2. QED BY <1>7, <2>1, QuitOwes, DecidedRecorded DEF ReconcileDecision, records
<1>8. CASE WatchdogDecision(p)
  <2>1. \/ Quit(p) \/ DecidedPending(p)
        \/ Elems(job'[p].todo) = {"completed", "finalized", "fail"}
    BY <1>1, <1>8, WatchdogDecisionWay
  <2>2. CASE Elems(job'[p].todo) = {"completed", "finalized", "fail"} BY <2>2 DEF Owes, Due
  <2>3. QED BY <1>8, <2>1, <2>2, QuitOwes, DecidedRecorded DEF WatchdogDecision
<1>9. CASE EnsurePrevious(p)
  <2>1. Went(p, "previous") \/ Quit(p) \/ Deferred(p, "restart")
    BY <1>1, <1>9, EnsurePreviousWay
  <2>2. QED BY <2>1, WentOwes, QuitOwes
<1>10. CASE RecoverIntents(p)
  <2>1. Went(p, "intents") \/ Quit(p) \/ Deferred(p, "restart")
    BY <1>1, <1>10, RecoverIntentsWay
  <2>2. QED BY <2>1, WentOwes, QuitOwes
<1>11. CASE RecoverFinalized(p)
  <2>1. Went(p, "finalized") \/ Quit(p) \/ Deferred(p, "restart") \/ Deferred(p, "complete")
    BY <1>1, <1>11, RecoverFinalizedWay
  <2>2. QED BY <2>1, WentOwes, QuitOwes
<1>12. CASE WriteIntent(p)
  <2>1. Went(p, "intend") \/ Quit(p) BY <1>1, <1>12, WriteIntentWay
  <2>2. QED BY <2>1, WentOwes, QuitOwes
<1>13. CASE WritePending(p)
  <2>1. Went(p, "pend") \/ Quit(p) BY <1>1, <1>13, WritePendingWay
  <2>2. QED BY <2>1, WentOwes, QuitOwes
<1>14. CASE RecordOutcome(p)
  <2>1. At(p, "decide") BY <1>14 DEF RecordOutcome
  <2>2. CASE Fail(p) BY <2>1, <2>2, Ends, QuitOwes
  <2>3. CASE /\ IsPending(job[p].txn) /\ Continue(p)
             /\ pending' = [pending EXCEPT !.outcome = job[p].out]
    <3>1. Same(p) BY <2>1, <2>3, Ends DEF Went
    <3>2. pending \in Deployments BY <2>3 DEF IsPending, Data, TypeOK
    <3>3. job[p].out \in {None, "committed", "rolled-back"} BY <1>1 DEF TypeOK, JobStates
    <3> DEFINE e == [pending EXCEPT !.outcome = job[p].out]
    <3>4. e \in Deployments /\ e.txn = pending.txn /\ e.outcome = job[p].out
      BY <3>2, <3>3 DEF Deployments
    <3>5. pending' = e BY <2>3
    <3> HIDE DEF e
    <3>6. pending' # None BY <3>4, <3>5, NoneAssumption
    <3>7. Recorded(p)' BY <2>3, <3>1, <3>4, <3>5, <3>6 DEF Recorded, Same, IsPending
    <3>8. QED BY <3>7
  <2>4. QED BY <1>14, <2>2, <2>3 DEF RecordOutcome
<1>15. CASE Confirm(p) BY <1>15, EndsOwes DEF Confirm
<1>16. CASE CheckCandidate(p) BY <1>16, EndsOwes DEF CheckCandidate
<1>17. CASE CandidateReady(p) BY <1>17, EndsOwes DEF CandidateReady
<1>18. CASE Stops(p) BY <1>18, EndsOwes DEF Stops, StopService, StopCandidate
<1>19. CASE DiscardIntent(p) BY <1>19, EndsOwes DEF DiscardIntent
<1>20. CASE Complete(p) BY <1>20, EndsOwes DEF Complete
<1>21. CASE Grant(p) BY <1>21, EndsOwes DEF Grant
<1>22. CASE Drop(p) BY <1>22, EndsOwes DEF Drop
<1>23. CASE Unpack(p) BY <1>23, EndsOwes DEF Unpack
<1>24. CASE SnapshotDatabase(p) BY <1>24, EndsOwes DEF SnapshotDatabase
<1>25. CASE Arm(p) BY <1>25, EndsOwes DEF Arm
<1>26. CASE RemoveIntent(p) BY <1>26, EndsOwes DEF RemoveIntent
<1>27. CASE Promote(p) BY <1>27, EndsOwes DEF Promote
<1>28. CASE AcceptReport(p) BY <1>28, EndsOwes DEF AcceptReport
<1>29. CASE SwitchCurrent(p) BY <1>29, EndsOwes DEF SwitchCurrent
<1>30. CASE PhaseActivated(p) BY <1>30, EndsOwes DEF PhaseActivated
<1>31. CASE PermitStart(p) BY <1>31, EndsOwes DEF PermitStart
<1>32. CASE Approve(p) BY <1>32, EndsOwes DEF Approve
<1>33. CASE Verify(p) BY <1>33, EndsOwes DEF Verify
<1>34. CASE RestoreDatabase(p) BY <1>34, EndsOwes DEF RestoreDatabase
<1>35. CASE SwitchBack(p) BY <1>35, EndsOwes DEF SwitchBack
<1>36. CASE RestoreAuthorization(p) BY <1>36, EndsOwes DEF RestoreAuthorization
<1>37. CASE Seal(p) BY <1>37, EndsOwes DEF Seal
<1>38. CASE BeginRollback(p)
  <2>1. Went(p, "rollback") \/ Quit(p) BY <1>1, <1>38, BeginRollbackWay
  <2>2. QED BY <2>1, WentOwes, QuitOwes
<1>41. CASE Looks(p)
  BY <1>2, <1>3, <1>4, <1>5, <1>6, <1>7, <1>9, <1>15, <1>16, <1>17, <1>38, <1>41 DEF Looks
<1>39. CASE Writes(p)
  BY <1>8, <1>10, <1>11, <1>12, <1>13, <1>14, <1>19, <1>20, <1>21, <1>22, <1>23, <1>24,
     <1>25, <1>26, <1>27, <1>28, <1>29, <1>30, <1>31, <1>32, <1>33, <1>34, <1>35, <1>36,
     <1>37, <1>39 DEF Writes
<1>40. QED BY <1>18, <1>39, <1>41 DEF Stage

LEMMA NextRecorded ==
  ASSUME ~strayed', Data, FlowInv, ReachedInv, RecordedInv, Next
  PROVE  RecordedInv'
<1> USE DEF FlowInv
<1>1. TypeOK BY DEF Data
<1>2. RecordStep BY NextRecords
<1>3. ASSUME NEW q \in Jobs, job'[q] = job[q] PROVE Owes(q)
  BY <1>3 DEF Owes, Due, Same
<1>4. ASSUME NEW p \in Jobs, Moved(p), Owes(p) \/ (Due(p)' => Recorded(p)')
      PROVE  RecordedInv'
  <2>1. ASSUME NEW q \in Jobs, Due(q)' PROVE Recorded(q)'
    <3>1. CASE q = p BY <1>2, <1>4, <2>1, <3>1, OwedRecorded
    <3>2. CASE q # p
      <4>1. job'[q] = job[q] BY <1>4, <3>2 DEF Moved
      <4>2. Owes(q) BY <1>3, <4>1
      <4>3. QED BY <1>2, <2>1, <4>2, OwedRecorded
    <3>3. QED BY <3>1, <3>2
  <2>2. QED BY <2>1 DEF RecordedInv
<1>5. ASSUME NEW p \in Jobs, Stage(p) PROVE RecordedInv'
  <2>1. Moved(p) BY <1>1, <1>5, LooksMove, StopsMove, WritesMove DEF Stage
  <2>2. Owes(p) \/ (Due(p)' => Recorded(p)') BY <1>5, StageRecorded
  <2>3. QED BY <1>4, <2>1, <2>2
<1>6. ASSUME NEW p \in Jobs, Restart(p) \/ Relock(p) PROVE RecordedInv'
  <2>1. Went(p, "restart") \/ Went(p, "relock") \/ Quit(p) BY <1>6, RestartMoves, RelockMoves
  <2>2. Owes(p) /\ Moved(p) BY <2>1, WentOwes, QuitOwes DEF Went, Quit
  <2>3. QED BY <1>4, <2>2
<1>7. ASSUME NEW p \in Jobs, Starting(p) PROVE RecordedInv'
  <2>1. Moved(p) /\ Elems(job'[p].todo) \cap {"seal", "decide"} = {} BY <1>7, StartingMoves
  <2>2. Owes(p) BY <2>1 DEF Owes, Due
  <2>3. QED BY <1>4, <2>1, <2>2
<1>8. Elems(Idle.todo) = {} BY ShortLists DEF Idle
<1>9. ASSUME NEW p \in Jobs, Leaving(p) PROVE RecordedInv'
  <2>1. Moved(p) /\ job'[p] = Idle BY <1>1, <1>9, LeavingMoves
  <2>2. Owes(p) BY <1>8, <2>1 DEF Owes, Due
  <2>3. QED BY <1>4, <2>1, <2>2
<1>10. ASSUME NEW p \in Jobs, Failing(p) PROVE RecordedInv'
  <2>1. Quit(p) BY <1>10, FailingMoves
  <2>2. Owes(p) /\ Moved(p) BY <2>1, QuitOwes DEF Quit
  <2>3. QED BY <1>4, <2>2
<1>11. CASE OfService \/ Expire
  <2>1. job' = job
    BY <1>11 DEF OfService, BootTimesOut, Serve, AutoRestart, ServiceFails, Expire
  <2>2. QED BY <1>2, <1>3, <2>1, OwedRecorded DEF RecordedInv
<1>12. CASE Reboot
  <2>1. \A p \in Jobs : job'[p] = Idle BY <1>12, RebootMoves
  <2>2. QED BY <1>8, <2>1 DEF RecordedInv, Due
<1>13. QED BY <1>5, <1>6, <1>7, <1>9, <1>10, <1>11, <1>12, NextSteps

------------------------------------------------------------------------------
(* The start, the step that changes nothing, and the theorems. *)
LEMMA InitData == Init => Data /\ ReachedInv /\ RecordedInv
<1> SUFFICES ASSUME Init PROVE Data /\ ReachedInv /\ RecordedInv OBVIOUS
<1>1. /\ intent = None /\ pending = None /\ decided = None
      /\ done = [t \in Txns |-> None] /\ db = Origin /\ snap = [t \in Txns |-> None]
      /\ armed = {} /\ lock = None /\ job = [p \in Jobs |-> Idle] /\ faults = 0
      /\ strayed = FALSE
  BY DEF Init
<1>2. /\ current \in {First, None} /\ dirs \in {{First}, {}}
      /\ current # None => current \in dirs
      /\ auth \in {None, [kind |-> "committed", txn |-> None, rel |-> First, db |-> Origin]}
      /\ live \in {{"auth"}, {}}
      /\ svc \in {[st |-> "running", rel |-> First], [st |-> "stopped", rel |-> First]}
  BY DEF Init
<1>3. First \in Releases /\ None \notin Releases /\ None \notin Jobs /\ "auth" \notin Txns
      /\ MaxFaults \in Nat
  BY InstallerAssumption DEF Jobs
<1>4. Origin \in Databases /\ Origin.txn = None /\ Origin.rel = First
  BY <1>3 DEF Origin, Databases
<1>5. [kind |-> "committed", txn |-> None, rel |-> First, db |-> Origin] \in Authorizations
  BY <1>3, <1>4 DEF Authorizations
<1>6. \A p \in Jobs : JobInv(p, Idle) BY IdleJob
<1>7. job \in [Jobs -> JobStates] BY <1>1, <1>6 DEF JobInv
<1>8. TypeOK
  <2>1. auth \in Authorizations \cup {None} BY <1>2, <1>5
  <2>2. svc \in [st : {"stopped", "starting", "checking", "running", "retry"}, rel : Releases]
    BY <1>2, <1>3
  <2>3. /\ done \in [Txns -> Deployments \cup {None}]
        /\ \A r \in {decided} \cup {done[t] : t \in Txns} : r # None => r.outcome # None
        /\ snap \in [Txns -> Databases \cup {None}]
    BY <1>1
  <2>4. faults \in 0..MaxFaults BY <1>1, <1>3
  <2>5. db \in Databases /\ current \in Releases \cup {None} /\ dirs \in SUBSET Releases
        /\ live \in SUBSET (Txns \cup {"auth"})
    BY <1>1, <1>2, <1>3, <1>4
  <2>6. QED BY <1>1, <1>7, <2>1, <2>2, <2>3, <2>4, <2>5 DEF TypeOK
<1>9. RecordsInv BY <1>1 DEF RecordsInv
<1>10. FilesInv BY <1>1, <1>2, <1>3, <1>4 DEF FilesInv
<1>11. DecisionHolds BY <1>1 DEF DecisionHolds, Latest
<1>12. CodeMatchesDb BY <1>1, <1>2, <1>4 DEF CodeMatchesDb
<1>13. ReachedInv BY <1>1, <1>3 DEF ReachedInv
<1>14. RecordedInv
  <2>1. Elems(Idle.todo) = {} BY ShortLists DEF Idle
  <2>2. QED BY <1>1, <2>1 DEF RecordedInv, Due
<1>15. QED BY <1>8, <1>9, <1>10, <1>11, <1>12, <1>13, <1>14 DEF Data

Ordered == Data /\ FlowInv /\ ReachedInv /\ RecordedInv
Inv == strayed \/ Ordered

LEMMA Stutter == Ordered /\ UNCHANGED vars => Ordered'
<1> SUFFICES ASSUME Ordered, UNCHANGED vars PROVE Ordered' OBVIOUS
<1>1. UNCHANGED <<intent, pending, decided, done, current, dirs, db, snap, auth, live, armed,
                  svc, lock, job, faults, strayed>>
  BY DEF vars, records, site
<1>2. Data'
  BY <1>1 DEF Ordered, Data, TypeOK, RecordsInv, FilesInv, DecisionHolds,
              CodeMatchesDb, Latest, IsRecord, Terminal, IsPending
<1>3. FlowInv' BY <1>1 DEF Ordered, FlowInv, JobsInv, LockInv, BootInv, At
<1>4. ReachedInv'
  BY <1>1 DEF Ordered, ReachedInv, Reached, At, IsPending, Terminal, Open, Down
<1>5. RecordedInv' BY <1>1 DEF Ordered, RecordedInv, Due, Recorded
<1>6. QED BY <1>2, <1>3, <1>4, <1>5 DEF Ordered

(* An activation strays by a step that changes nothing on disk, and for good. *)
LEMMA Straying ==
  ASSUME Next
  PROVE  strayed' = strayed \/ ((strayed => strayed') /\ UNCHANGED <<records, site>>)
<1>1. ASSUME NEW p \in Jobs, Looks(p) PROVE strayed' = strayed
  BY <1>1 DEF Looks, CommitDecision, RollbackDecision, ReconcileDecision, Confirm, Reload,
              RecoverCompleted, ActivationExit, CheckCandidate, CandidateReady, BeginRollback,
              EnsurePrevious
<1>2. ASSUME NEW p \in Jobs, Stops(p) PROVE strayed' = strayed
  BY <1>2 DEF Stops, StopService, StopCandidate
<1>3. ASSUME NEW p \in Jobs, Writes(p) PROVE strayed' = strayed
  <2>1. CASE RecoverIntents(p) \/ DiscardIntent(p) \/ RecoverFinalized(p) \/ Complete(p)
             \/ Grant(p) \/ Drop(p) \/ WriteIntent(p) \/ Unpack(p) \/ SnapshotDatabase(p)
             \/ WritePending(p) \/ Arm(p) \/ RemoveIntent(p) \/ Promote(p)
    BY <2>1 DEF RecoverIntents, DiscardIntent, RecoverFinalized, Complete, Grant, Drop,
                WriteIntent, Unpack, SnapshotDatabase, WritePending, Arm, RemoveIntent, Promote
  <2>2. CASE AcceptReport(p) \/ SwitchCurrent(p) \/ PhaseActivated(p) \/ PermitStart(p)
             \/ Approve(p) \/ Verify(p) \/ WatchdogDecision(p) \/ RestoreDatabase(p)
             \/ SwitchBack(p) \/ RestoreAuthorization(p) \/ RecordOutcome(p) \/ Seal(p)
    BY <2>2 DEF AcceptReport, SwitchCurrent, PhaseActivated, PermitStart, Approve, Verify,
                WatchdogDecision, RestoreDatabase, SwitchBack, RestoreAuthorization,
                RecordOutcome, Seal
  <2>3. QED BY <1>3, <2>1, <2>2 DEF Writes
<1>4. ASSUME NEW p \in Jobs, Restart(p) \/ Relock(p) \/ Starting(p) \/ Leaving(p)
      PROVE  strayed' = strayed
  BY <1>4 DEF Restart, Relock, Starting, Activate, Request, WakeWatchdog, StartBoot, StartTimer,
              Leaving, Exit, Kill
<1>5. ASSUME NEW p \in Jobs, Failing(p)
      PROVE  (strayed => strayed') /\ UNCHANGED <<records, site>>
  BY <1>5 DEF Failing, LockTimeout, Interrupt
<1>6. ASSUME OfService \/ Expire \/ Reboot PROVE strayed' = strayed
  BY <1>6 DEF OfService, BootTimesOut, Serve, AutoRestart, ServiceFails, Expire, Reboot
<1>7. QED BY <1>1, <1>2, <1>3, <1>4, <1>5, <1>6, NextSteps DEF Stage

LEMMA InvStep == Inv /\ [Next]_vars => Inv'
<1>1. ASSUME Ordered, Next, ~strayed' PROVE Ordered'
  BY <1>1, NextFlow, NextReached, NextRecorded DEF Ordered, Data
<1>2. ASSUME Inv, Next PROVE Inv'
  <2>1. CASE strayed BY <1>2, <2>1, Straying DEF Inv
  <2>2. CASE ~strayed BY <1>1, <1>2, <2>2 DEF Inv
  <2>3. QED BY <2>1, <2>2
<1>3. ASSUME Inv, UNCHANGED vars PROVE Inv'
  BY <1>3, Stutter DEF Inv, vars
<1>4. QED BY <1>2, <1>3

(* The database is replaced by the promotion and by the restoration of the *)
(* snapshot.                                                               *)
LEMMA StageAtRest ==
  ASSUME FlowInv, ReachedInv, NEW p \in Jobs, Stage(p), db' # db
  PROVE  svc.st # "running"
<1>1. CASE Looks(p)
  BY <1>1 DEF Looks, site, CommitDecision, RollbackDecision, ReconcileDecision, Confirm, Reload,
              RecoverCompleted, ActivationExit, CheckCandidate, CandidateReady, BeginRollback,
              EnsurePrevious
<1>2. CASE StopService(p) \/ StopCandidate(p)
  BY <1>2 DEF StopService, StopCandidate, site
<1>3. CASE Promote(p)
  <2>1. At(p, "promote") BY <1>3 DEF Promote
  <2>2. Reached(p) BY <2>1, Activates DEF Activating
  <2>3. QED BY <2>1, <2>2 DEF Reached
<1>4. CASE RestoreDatabase(p) BY <1>4, Undoes DEF RestoreDatabase
<1>5. CASE RecoverIntents(p) \/ DiscardIntent(p) \/ RecoverFinalized(p) \/ Complete(p) \/ Grant(p)
           \/ Drop(p) \/ WriteIntent(p) \/ Unpack(p) \/ SnapshotDatabase(p) \/ WritePending(p)
           \/ Arm(p) \/ RemoveIntent(p)
  BY <1>5 DEF RecoverIntents, DiscardIntent, RecoverFinalized, Complete, Grant, Drop, WriteIntent,
              Unpack, SnapshotDatabase, WritePending, Arm, RemoveIntent, site
<1>6. CASE AcceptReport(p) \/ SwitchCurrent(p) \/ PhaseActivated(p) \/ PermitStart(p) \/ Approve(p)
           \/ Verify(p) \/ SwitchBack(p) \/ RestoreAuthorization(p) \/ RecordOutcome(p) \/ Seal(p)
           \/ WatchdogDecision(p)
  BY <1>6 DEF AcceptReport, SwitchCurrent, PhaseActivated, PermitStart, Approve, Verify,
              SwitchBack, RestoreAuthorization, RecordOutcome, Seal, WatchdogDecision, site
<1>7. QED BY <1>1, <1>2, <1>3, <1>4, <1>5, <1>6 DEF Stage, Writes, Stops

LEMMA NextAtRest ==
  ASSUME ~strayed', TypeOK, FlowInv, ReachedInv, Next, db' # db
  PROVE  svc.st # "running"
<1> USE DEF FlowInv
<1>1. ASSUME NEW p \in Jobs, Restart(p) \/ Relock(p) \/ Starting(p) \/ Leaving(p) \/ Failing(p)
      PROVE  FALSE
  <2>1. UNCHANGED site
    BY <1>1, RestartMoves, RelockMoves, StartingMoves, LeavingMoves, FailingMoves
  <2>2. QED BY <2>1 DEF site
<1>2. ~OfService /\ ~Reboot /\ ~Expire
  BY DEF OfService, BootTimesOut, Serve, AutoRestart, ServiceFails, Reboot, Expire, site
<1>3. QED BY <1>1, <1>2, StageAtRest, NextSteps

(* The safety of the deployment: types, flow, data and what the holder of the *)
(* lock has reached are kept by every step of every process, by every kill,   *)
(* reboot and crash, for any transactions, releases and shells, until an      *)
(* activation goes to its exit trap without the lock.                         *)
THEOREM InstallerInvariant == Spec => []Inv
<1>1. Init => Inv BY InitData, InitFlow DEF Inv, Ordered
<1>2. Inv /\ [Next]_vars => Inv' BY InvStep
<1> QED BY <1>1, <1>2, PTL DEF Spec

(* Whichever command dies where, the service that runs is of the release that *)
(* the installed database was made for, until an activation works without the *)
(* lock.                                                                      *)
THEOREM OldCodeStaysOff == Spec => []OldCodeNeverOnPromotedDb
<1>1. Inv => OldCodeNeverOnPromotedDb BY DEF Inv, Ordered, Data, OldCodeNeverOnPromotedDb
<1> QED BY <1>1, InstallerInvariant, PTL

(* A deployment that is verified or committed keeps its release and its       *)
(* database installed, one that is rolled back has neither, until it is       *)
(* completed or an activation works without the lock.                         *)
THEOREM DecisionsMatch == Spec => []DecisionMatchesState
<1>1. Inv => DecisionMatchesState BY DEF Inv, Ordered, Data, DecisionMatchesState
<1> QED BY <1>1, InstallerInvariant, PTL

(* No cleanup takes the current release, or the snapshot and the release that *)
(* the rollback of an open deployment needs, until an activation works        *)
(* without the lock.                                                          *)
THEOREM NeededFilesStay == Spec => []NothingNeededIsDeleted
<1>1. Inv => NothingNeededIsDeleted
  BY DEF Inv, Ordered, Data, RecordsInv, FilesInv, NothingNeededIsDeleted
<1> QED BY <1>1, InstallerInvariant, PTL

(* The database is replaced only while the service is down: by the promotion, *)
(* which has stopped it, or by a rollback, which has; until an activation     *)
(* works without the lock.                                                    *)
THEOREM DatabaseReplacedAtRest == Spec => DatabaseChangesAtRest
<1>1. ASSUME Inv, Next, db' # db, ~strayed PROVE svc.st # "running"
  <2>1. ~strayed' BY <1>1, Straying DEF site
  <2>2. QED BY <1>1, <2>1, NextAtRest DEF Inv, Ordered, Data
<1>2. Inv /\ [Next]_vars => [db' # db => strayed \/ svc.st # "running"]_vars
  BY <1>1
<1> QED BY <1>2, InstallerInvariant, PTL DEF Spec, DatabaseChangesAtRest

(* No retry, watchdog or reboot turns a verdict that is on disk into the other *)
(* one, and none is lost on its way to the completion registry, until an       *)
(* activation works without the lock.                                          *)
THEOREM VerdictsAreFinal == Spec => VerdictIsFinal
<1>1. ASSUME Inv, Next, ~strayed, NEW t \in Txns, Verdicts(t) # {}
      PROVE  Verdicts(t)' = Verdicts(t)
  <2>1. CASE strayed'
    <3>1. UNCHANGED <<pending, decided, done>> BY <1>1, <2>1, Straying DEF records
    <3>2. QED BY <3>1 DEF Verdicts
  <2>2. CASE ~strayed'
    BY <1>1, <2>2, NextRecords, VerdictsStay DEF Inv, Ordered
  <2>3. QED BY <2>1, <2>2
<1>2. Inv /\ [Next]_vars =>
        [strayed \/ \A t \in Txns : Verdicts(t) # {} => Verdicts(t)' = Verdicts(t)]_vars
  BY <1>1
<1> QED BY <1>2, InstallerInvariant, PTL DEF Spec, VerdictIsFinal

(* Only the holder of the deployment lock writes, apart from time, although   *)
(* every restart of the service gives the lock away in the middle: until an   *)
(* activation goes to its exit trap without it.                               *)
THEOREM LockGuardsTheDisk == Spec => [][strayed \/ UnderLock]_vars
<1>1. ASSUME Inv, Next, ~strayed, OnDisk' # OnDisk
      PROVE  Expire \/ \E p \in Jobs : lock = p /\ job'[p] # job[p]
  <2>1. <<records, site>>' # <<records, site>> BY <1>1 DEF OnDisk
  <2>2. ~strayed' BY <1>1, <2>1, Straying
  <2>3. QED BY <1>1, <2>1, <2>2, NextLockGuards DEF Inv, Ordered, Data
<1>2. Inv /\ [Next]_vars => [strayed \/ UnderLock]_vars
  BY <1>1 DEF UnderLock
<1> QED BY <1>2, InstallerInvariant, PTL DEF Spec
=============================================================================
