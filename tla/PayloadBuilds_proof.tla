------------------------- MODULE PayloadBuilds_proof -------------------------
(***************************************************************************)
(* Proofs about PayloadBuilds, for every set of requests and any number of *)
(* revisions.  A payload may be labelled with an epoch that has passed when *)
(* its rows are read; the argument is that revisions only grow, so that a  *)
(* label that is current again at the end was so all the while.  The       *)
(* inductive invariant carries this along the whole way of a payload:      *)
(* builds, what their waiters hold, caches.                                *)
(***************************************************************************)
EXTENDS PayloadBuilds, TLAPS

(* All rows of the payload are those of its label. *)
Sound(p) == p.rev = p.epoch.rev /\ p.extra = p.epoch.rev

(* A payload that a build of stage s made for epoch e, when the revision is v. *)
Made(s, e, p, v) ==
  /\ p.epoch.rev = e.rev /\ e.rev <= p.rev /\ p.rev <= p.extra /\ p.extra <= v
  /\ s = "release" => p.epoch = e

(* An entry of the cache of a stage. *)
EntryOK(s, entry, v) ==
  entry # None =>
    /\ Sound(entry.payload)
    /\ entry.payload.epoch.rev = entry.epoch.rev /\ entry.epoch.rev <= v
    /\ s = "release" => entry.payload.epoch = entry.epoch

LabelOf(l) == IF l.stage = "public" THEN l.outer ELSE l.inner

(* A request at a label of its loops, with what it keeps and its answer. *)
RequestOK(r, label, l, a, v) ==
  /\ label \notin Ended => a = None
  /\ l.outer # None => l.outer.rev <= v /\ l.outer.lease = FALSE
  /\ l.inner # None => l.inner.rev <= v
  /\ r \in Public => label = "loop" \/ label \in Ended \/ l.outer # None
  /\ r \notin Public => label \notin {"loop", "based"} /\ l.stage = "release"
  /\ label \notin {"queued", "waiting"} => l.stage = "release"
  /\ label \in {"queued", "waiting"} => LabelOf(l) # None
  /\ label = "based" \/ l.stage = "public" => l.base # None
  /\ l.base # None => /\ Sound(l.base) /\ l.base.rev <= v
                      /\ l.outer # None => l.outer.rev <= l.base.rev
  /\ l.stage = "public" => r \in Public /\ l.base.rev = l.outer.rev
  /\ l.spare # None => Sound(l.spare)
  /\ label # "waiting" => l.got = None
  /\ l.got # None /\ l.got.what = "payload" => Made(l.stage, LabelOf(l), l.got.payload, v)

(* A request waits for a build of its own epoch. *)
LinkOK(label, l, b) ==
  label = "waiting" /\ l.got = None =>
    b[l.stage] # None /\ b[l.stage].epoch = LabelOf(l)

BuildOK(s, b, v) ==
  b # None =>
    /\ b.epoch.rev <= v
    /\ b.base = None <=> s = "release"
    /\ b.base # None => Sound(b.base) /\ b.base.rev = b.epoch.rev
    /\ b.phase # "working" => b.out # None
    /\ b.phase # "ending" /\ b.out # None => b.out.what # "superseded"
    /\ b.out # None /\ b.out.what = "payload" => Made(s, b.epoch, b.out.payload, v)

(* Each request is queued once, for a build of its stage, in the order of the *)
(* revisions they saw; none has seen less than the build that is active.      *)
QueueOK(s) ==
  LET q == transition[s]
  IN  \A n \in 1..Len(q) :
        /\ pc[q[n]] = "queued" /\ local[q[n]].stage = s
        /\ \A m \in 1..Len(q) :
             m < n => q[m] # q[n] /\ LabelOf(local[q[m]]).rev <= LabelOf(local[q[n]]).rev
        /\ build[s] # None => build[s].epoch.rev <= LabelOf(local[q[n]]).rev

RequestsOK ==
  \A r \in Requests : /\ RequestOK(r, pc[r], local[r], answer[r], rev)
                      /\ LinkOK(pc[r], local[r], build)
BuildsOK == \A s \in Stages : BuildOK(s, build[s], rev)
QueuesOK == \A s \in Stages : QueueOK(s)
CachesOK ==
  /\ EntryOK("release", releaseCache, rev)
  /\ EntryOK("public", publicCache, rev) /\ EntryOK("public", retained, rev)

(* What the two action properties say of a step. *)
Right(a) ==
  /\ Sound(a.payload)
  /\ a.how = "current" => a.payload.rev = rev /\ (lease => a.payload.epoch.lease)
AnswerStep == \A r \in Requests : answer'[r] # answer[r] => Right(answer'[r])
SurvivorStep ==
  \A s \in Stages :
    build[s] # None /\ build[s].phase # "ending" /\ build'[s] # None
      /\ build'[s].out = [what |-> "superseded"]
      => build[s].epoch.rev <= Label(Head(transition[s])).rev

IInv == TypeOK /\ RequestsOK /\ BuildsOK /\ QueuesOK /\ CachesOK

LEMMA InitIInv == Init => IInv
<1> SUFFICES ASSUME Init PROVE IInv OBVIOUS
<1> USE BuildsAssumption, NoneAssumption
<1>1. Fresh \in Locals BY DEF Fresh, Locals, Stages
<1>2. TypeOK
  <2>1. pc \in [Requests -> Labels] /\ local \in [Requests -> Locals]
    BY <1>1 DEF Init, Labels
  <2>2. \A s \in Stages : transition[s] \in Seq(Requests) BY DEF Init
  <2>3. transition \in [Stages -> Seq(Requests)] BY <2>2 DEF Init
  <2>4. lease \in BOOLEAN BY ZenonT(10) DEF Init
  <2>5. QED BY <2>1, <2>3, <2>4 DEF Init, TypeOK
<1>3. RequestsOK
  BY DEF Init, RequestsOK, RequestOK, LinkOK, LabelOf, Fresh, Ended
<1>4. BuildsOK /\ CachesOK BY DEF Init, BuildsOK, BuildOK, CachesOK, EntryOK
<1>5. QueuesOK
  <2>1. \A s \in Stages : Len(transition[s]) = 0 BY DEF Init
  <2>2. QED BY <2>1 DEF QueuesOK, QueueOK
<1>6. QED BY <1>2, <1>3, <1>4, <1>5 DEF IInv

------------------------------------------------------------------------------
(* Revisions only grow.                                                       *)

LEMMA Revisions ==
  TypeOK => /\ rev \in Nat /\ Epoch \in Epochs /\ Epoch # None
            /\ \A e \in Epochs : e.rev \in Nat
            /\ \A p \in Payloads : p.rev \in Nat /\ p.extra \in Nat /\ p.epoch \in Epochs
BY BuildsAssumption, NoneAssumption DEF TypeOK, Epoch, Epochs, Payloads

LEMMA RequestStays ==
  ASSUME NEW r \in Requests, NEW label \in Labels, NEW l \in Locals, NEW a,
         NEW v \in Nat, NEW w \in Nat, v <= w, RequestOK(r, label, l, a, v)
  PROVE  RequestOK(r, label, l, a, w)
<1> USE BuildsAssumption, NoneAssumption
<1>1. /\ l.outer # None => l.outer.rev \in Nat
      /\ l.inner # None => l.inner.rev \in Nat
      /\ l.base # None => l.base.rev \in Nat
  BY DEF Locals, Epochs, Payloads
<1>2. ASSUME l.got # None, l.got.what = "payload"
      PROVE  Made(l.stage, LabelOf(l), l.got.payload, w)
  <2>1. l.got \in Outcomes BY <1>2 DEF Locals
  <2>2. l.got.payload \in Payloads BY <1>2, <2>1 DEF Outcomes
  <2>3. l.got.payload.extra \in Nat BY <2>2 DEF Payloads
  <2>4. Made(l.stage, LabelOf(l), l.got.payload, v) BY <1>2 DEF RequestOK
  <2>5. QED BY <2>3, <2>4 DEF Made
<1>3. QED BY <1>1, <1>2 DEF RequestOK

LEMMA BuildStays ==
  ASSUME NEW s \in Stages, NEW b \in Builds \cup {None},
         NEW v \in Nat, NEW w \in Nat, v <= w, BuildOK(s, b, v)
  PROVE  BuildOK(s, b, w)
<1> USE BuildsAssumption, NoneAssumption
<1> SUFFICES ASSUME b # None PROVE BuildOK(s, b, w) BY DEF BuildOK
<1>1. b \in Builds /\ b.epoch.rev \in Nat BY DEF Builds, Epochs
<1>2. ASSUME b.out # None, b.out.what = "payload"
      PROVE  Made(s, b.epoch, b.out.payload, w)
  <2>1. b.out \in Outcomes BY <1>1, <1>2 DEF Builds
  <2>2. b.out.payload \in Payloads BY <1>2, <2>1 DEF Outcomes
  <2>3. b.out.payload.extra \in Nat BY <2>2 DEF Payloads
  <2>4. Made(s, b.epoch, b.out.payload, v) BY <1>2 DEF BuildOK
  <2>5. QED BY <2>3, <2>4 DEF Made
<1>3. QED BY <1>1, <1>2 DEF BuildOK

LEMMA EntryStays ==
  ASSUME NEW s \in Stages, NEW e \in Entries \cup {None},
         NEW v \in Nat, NEW w \in Nat, v <= w, EntryOK(s, e, v)
  PROVE  EntryOK(s, e, w)
BY BuildsAssumption, NoneAssumption DEF EntryOK, Entries, Epochs

(* The source changes, and public entries may be dropped. *)
LEMMA SourceMoves ==
  ASSUME IInv, TypeOK', rev <= rev', UNCHANGED <<requestVars, buildVars>>,
         releaseCache' = releaseCache, publicCache' \in {publicCache, None},
         retained' = retained
  PROVE  IInv' /\ AnswerStep /\ SurvivorStep
<1>1. rev \in Nat /\ rev' \in Nat BY BuildsAssumption DEF IInv, TypeOK
<1>2. /\ pc' = pc /\ local' = local /\ answer' = answer /\ expired' = expired
      /\ build' = build /\ transition' = transition
  BY DEF requestVars, buildVars
<1>3. RequestsOK'
  <2> SUFFICES ASSUME NEW r \in Requests
               PROVE  /\ RequestOK(r, pc'[r], local'[r], answer'[r], rev')
                      /\ LinkOK(pc'[r], local'[r], build')
    BY DEF RequestsOK
  <2>1. /\ RequestOK(r, pc[r], local[r], answer[r], rev) /\ LinkOK(pc[r], local[r], build)
        /\ pc[r] \in Labels /\ local[r] \in Locals
    BY DEF IInv, RequestsOK, TypeOK
  <2>2. RequestOK(r, pc[r], local[r], answer[r], rev') BY <1>1, <2>1, RequestStays
  <2>3. QED BY <1>2, <2>1, <2>2
<1>4. BuildsOK'
  <2> SUFFICES ASSUME NEW s \in Stages PROVE BuildOK(s, build'[s], rev')
    BY DEF BuildsOK
  <2>1. BuildOK(s, build[s], rev) /\ build[s] \in Builds \cup {None}
    BY DEF IInv, BuildsOK, TypeOK
  <2>2. QED BY <1>1, <1>2, <2>1, BuildStays
<1>5. QueuesOK' BY <1>2 DEF IInv, QueuesOK, QueueOK
<1>6. CachesOK'
  <2>1. /\ "release" \in Stages /\ "public" \in Stages
        /\ releaseCache \in Entries \cup {None} /\ publicCache \in Entries \cup {None}
        /\ retained \in Entries \cup {None}
    BY DEF Stages, IInv, TypeOK
  <2>2. EntryOK("release", releaseCache, rev') /\ EntryOK("public", publicCache, rev')
        /\ EntryOK("public", retained, rev')
    BY <1>1, <2>1, EntryStays DEF IInv, CachesOK
  <2>3. EntryOK("public", None, rev') BY DEF EntryOK
  <2>4. QED BY <2>2, <2>3 DEF CachesOK
<1>7. AnswerStep BY <1>2 DEF AnswerStep
<1>8. SurvivorStep
  <2> SUFFICES ASSUME NEW s \in Stages, build[s] # None, build[s].phase # "ending",
                      build[s].out = [what |-> "superseded"]
               PROVE  FALSE
    BY <1>2 DEF SurvivorStep
  <2>1. build[s].out # None BY NoneAssumption DEF Outcomes
  <2>2. build[s].out.what # "superseded" BY <2>1 DEF IInv, BuildsOK, BuildOK
  <2>3. QED BY <2>2
<1>9. QED BY <1>3, <1>4, <1>5, <1>6, <1>7, <1>8 DEF IInv

LEMMA SourceStep ==
  ASSUME IInv, Publish \/ LeaseChanges \/ CacheExpires
  PROVE  IInv' /\ AnswerStep /\ SurvivorStep
<1>1. CASE Publish
  <2>1. /\ rev' = rev + 1 /\ rev' \in 0..MaxRev /\ rev <= rev' /\ lease' = lease
        /\ UNCHANGED <<requestVars, buildVars, releaseCache, retained>>
        /\ publicCache' \in {publicCache, None}
    BY <1>1, BuildsAssumption DEF Publish, IInv, TypeOK
  <2>2. TypeOK' BY <2>1 DEF IInv, TypeOK, requestVars, buildVars
  <2>3. QED BY <2>1, <2>2, SourceMoves
<1>2. CASE LeaseChanges
  <2>1. lease' \in BOOLEAN BY <1>2 DEF LeaseChanges
  <2>2. rev' = rev /\ UNCHANGED <<requestVars, buildVars, cacheVars>> BY <1>2 DEF LeaseChanges
  <2>3. TypeOK' BY <2>1, <2>2 DEF IInv, TypeOK, requestVars, buildVars, cacheVars
  <2>4. rev <= rev' BY <2>2, BuildsAssumption DEF IInv, TypeOK
  <2>5. QED BY <2>2, <2>3, <2>4, SourceMoves DEF cacheVars
<1>3. CASE CacheExpires
  <2>1. /\ publicCache' = None /\ UNCHANGED <<source, requestVars, buildVars, releaseCache, retained>>
    BY <1>3 DEF CacheExpires
  <2>2. TypeOK' BY <2>1 DEF IInv, TypeOK, requestVars, buildVars, source
  <2>3. rev <= rev' BY <2>1, BuildsAssumption DEF IInv, TypeOK, source
  <2>4. QED BY <2>1, <2>2, <2>3, SourceMoves
<1>4. QED BY <1>1, <1>2, <1>3

------------------------------------------------------------------------------
(* One request moves.                                                         *)

Updates(r, label, l, a) ==
  /\ pc' = [pc EXCEPT ![r] = label] /\ local' = [local EXCEPT ![r] = l]
  /\ answer' = [answer EXCEPT ![r] = a] /\ expired' \in SUBSET Requests

LEMMA GoesUpdates ==
  ASSUME TypeOK, NEW r \in Requests, NEW label, NEW l, Goes(r, label, l)
  PROVE  Updates(r, label, l, answer[r])
BY DEF Goes, Updates, TypeOK

LEMMA EndsUpdates ==
  ASSUME TypeOK, NEW r \in Requests, NEW label, NEW a, Ends(r, label, a)
  PROVE  Updates(r, label, Fresh, a)
BY DEF Ends, Updates, TypeOK

LEMMA Updated ==
  ASSUME TypeOK, NEW r \in Requests, NEW label \in Labels, NEW l \in Locals,
         NEW a \in Answers \cup {None}, Updates(r, label, l, a)
  PROVE  /\ pc' \in [Requests -> Labels] /\ local' \in [Requests -> Locals]
         /\ answer' \in [Requests -> Answers \cup {None}]
         /\ expired' \in SUBSET Requests
         /\ pc'[r] = label /\ local'[r] = l /\ answer'[r] = a
         /\ \A q \in Requests : q # r =>
              pc'[q] = pc[q] /\ local'[q] = local[q] /\ answer'[q] = answer[q]
BY DEF TypeOK, Updates

(* Without a change of builds none is superseded. *)
LEMMA NoneSuperseded ==
  ASSUME IInv, build' = build
  PROVE  SurvivorStep
<1> SUFFICES ASSUME NEW s \in Stages, build[s] # None, build[s].phase # "ending",
                    build[s].out = [what |-> "superseded"]
             PROVE  FALSE
  BY DEF SurvivorStep
<1>1. build[s].out # None BY NoneAssumption DEF Outcomes
<1>2. build[s].out.what # "superseded" BY <1>1 DEF IInv, BuildsOK, BuildOK
<1>3. QED BY <1>2

(* A request that is not queued goes to another place outside the queues. *)
LEMMA RequestMoves ==
  ASSUME IInv, NEW r \in Requests, NEW label \in Labels, NEW l \in Locals,
         NEW a \in Answers \cup {None}, Updates(r, label, l, a),
         pc[r] # "queued", label # "queued",
         UNCHANGED <<source, buildVars>>,
         {releaseCache', publicCache', retained'} \subseteq Entries \cup {None},
         CachesOK',
         RequestOK(r, label, l, a, rev), LinkOK(label, l, build),
         a # answer[r] => Right(a)
  PROVE  IInv' /\ AnswerStep /\ SurvivorStep
<1>1. /\ pc' \in [Requests -> Labels] /\ local' \in [Requests -> Locals]
      /\ answer' \in [Requests -> Answers \cup {None}]
      /\ expired' \in SUBSET Requests
      /\ pc'[r] = label /\ local'[r] = l /\ answer'[r] = a
      /\ \A q \in Requests : q # r =>
           pc'[q] = pc[q] /\ local'[q] = local[q] /\ answer'[q] = answer[q]
  BY Updated DEF IInv
<1>2. rev' = rev /\ lease' = lease /\ build' = build /\ transition' = transition
  BY DEF source, buildVars
<1>3. TypeOK' BY <1>1, <1>2 DEF IInv, TypeOK
<1>4. RequestsOK'
  <2> SUFFICES ASSUME NEW q \in Requests
               PROVE  /\ RequestOK(q, pc'[q], local'[q], answer'[q], rev')
                      /\ LinkOK(pc'[q], local'[q], build')
    BY DEF RequestsOK
  <2>1. CASE q = r BY <2>1, <1>1, <1>2
  <2>2. CASE q # r
    <3>1. RequestOK(q, pc[q], local[q], answer[q], rev) /\ LinkOK(pc[q], local[q], build)
      BY DEF IInv, RequestsOK
    <3>2. QED BY <2>2, <3>1, <1>1, <1>2
  <2>3. QED BY <2>1, <2>2
<1>5. BuildsOK' BY <1>2 DEF IInv, BuildsOK
<1>6. QueuesOK'
  <2> SUFFICES ASSUME NEW s \in Stages PROVE QueueOK(s)' BY DEF QueuesOK
  <2>1. QueueOK(s) /\ transition[s] \in Seq(Requests) BY DEF IInv, QueuesOK, TypeOK
  <2>2. \A n \in 1..Len(transition[s]) :
          /\ transition[s][n] \in Requests /\ transition[s][n] # r
          /\ pc'[transition[s][n]] = pc[transition[s][n]]
          /\ local'[transition[s][n]] = local[transition[s][n]]
    BY <1>1, <2>1 DEF QueueOK
  <2>3. QED BY <2>1, <2>2, <1>2 DEF QueueOK
<1>7. AnswerStep BY <1>1 DEF AnswerStep
<1>8. SurvivorStep BY <1>2, NoneSuperseded
<1>9. QED BY <1>3, <1>4, <1>5, <1>6, <1>7, <1>8 DEF IInv

(* A request ends. *)
LEMMA EndedOK ==
  ASSUME NEW r \in Requests, NEW label \in Ended, NEW a
  PROVE  RequestOK(r, label, Fresh, a, rev) /\ LinkOK(label, Fresh, build)
         /\ Fresh \in Locals /\ label \in Labels /\ label # "queued"
BY DEF RequestOK, LinkOK, Fresh, Ended, Locals, Stages, Labels

LEMMA RequestFails ==
  ASSUME IInv, NEW r \in Requests, Fails(r), pc[r] \notin Ended, pc[r] # "queued",
         UNCHANGED <<source, buildVars, cacheVars>>
  PROVE  IInv' /\ AnswerStep /\ SurvivorStep
<1>1. Updates(r, "failed", Fresh, None) BY EndsUpdates DEF Fails, IInv
<1>2. answer[r] = None BY DEF IInv, RequestsOK, RequestOK
<1>3. releaseCache' = releaseCache /\ publicCache' = publicCache /\ retained' = retained
      /\ rev' = rev
  BY DEF cacheVars, source
<1>4. CachesOK' /\ {releaseCache', publicCache', retained'} \subseteq Entries \cup {None}
  BY <1>3 DEF IInv, CachesOK, TypeOK
<1>5. "failed" \in Ended BY DEF Ended
<1>6. QED BY <1>1, <1>2, <1>4, <1>5, EndedOK, RequestMoves

LEMMA RequestAnswered ==
  ASSUME IInv, NEW r \in Requests, NEW how \in {"current", "retained"}, NEW p \in Payloads,
         Answered(r, how, p), pc[r] # "queued", Sound(p),
         how = "current" => p.rev = rev /\ (lease => p.epoch.lease),
         UNCHANGED <<source, buildVars>>,
         {releaseCache', publicCache', retained'} \subseteq Entries \cup {None}, CachesOK'
  PROVE  IInv' /\ AnswerStep /\ SurvivorStep
<1> DEFINE a == [how |-> how, payload |-> p]
<1>1. Updates(r, "answered", Fresh, a) BY EndsUpdates DEF Answered, IInv
<1>2. a \in Answers BY DEF Answers
<1>3. a.how = how /\ a.payload = p OBVIOUS
<1> HIDE DEF a
<1>4. Right(a) BY <1>3 DEF Right
<1>5. "answered" \in Ended BY DEF Ended
<1>6. QED BY <1>1, <1>2, <1>4, <1>5, EndedOK, RequestMoves

LEMMA RequestFallsBack ==
  ASSUME IInv, NEW r \in Requests, NEW usable, usable => retained # None, Fallback(r, usable),
         pc[r] \notin Ended, pc[r] # "queued", UNCHANGED <<source, buildVars, cacheVars>>
  PROVE  IInv' /\ AnswerStep /\ SurvivorStep
<1>1. CASE Fails(r) BY <1>1, RequestFails
<1>2. CASE usable /\ Answered(r, "retained", retained.payload)
  <2>1. retained \in Entries BY <1>2 DEF IInv, TypeOK
  <2>2. retained.payload \in Payloads /\ Sound(retained.payload)
    BY <1>2, <2>1 DEF Entries, IInv, CachesOK, EntryOK
  <2>3. releaseCache' = releaseCache /\ publicCache' = publicCache /\ retained' = retained
        /\ rev' = rev
    BY DEF cacheVars, source
  <2>4. CachesOK' /\ {releaseCache', publicCache', retained'} \subseteq Entries \cup {None}
    BY <2>3 DEF IInv, CachesOK, TypeOK
  <2>5. QED BY <1>2, <2>2, <2>4, RequestAnswered
<1>3. QED BY <1>1, <1>2 DEF Fallback

(* A request joins a queue with the epoch that is current. *)
LEMMA RequestQueues ==
  ASSUME IInv, NEW r \in Requests, NEW l \in Locals, Enqueue(r, l), pc[r] # "queued",
         RequestOK(r, "queued", l, answer[r], rev), LabelOf(l) = Epoch,
         UNCHANGED <<source, build, cacheVars>>
  PROVE  IInv' /\ AnswerStep /\ SurvivorStep
<1> USE BuildsAssumption, NoneAssumption
<1>1. /\ Updates(r, "queued", l, answer[r])
      /\ transition' = [transition EXCEPT ![l.stage] = Append(@, r)]
  BY GoesUpdates DEF Enqueue, IInv
<1>2. "queued" \in Labels /\ answer[r] \in Answers \cup {None} /\ l.stage \in Stages
  BY DEF Labels, IInv, TypeOK, Locals
<1>3. /\ pc' \in [Requests -> Labels] /\ local' \in [Requests -> Locals]
      /\ answer' \in [Requests -> Answers \cup {None}]
      /\ expired' \in SUBSET Requests
      /\ pc'[r] = "queued" /\ local'[r] = l /\ answer'[r] = answer[r]
      /\ \A q \in Requests : q # r =>
           pc'[q] = pc[q] /\ local'[q] = local[q] /\ answer'[q] = answer[q]
  BY <1>1, <1>2, Updated DEF IInv
<1>4. rev' = rev /\ lease' = lease /\ build' = build /\ releaseCache' = releaseCache
      /\ publicCache' = publicCache /\ retained' = retained
  BY DEF source, cacheVars
<1>5. \A s \in Stages :
        /\ transition[s] \in Seq(Requests)
        /\ transition'[s] = IF s = l.stage THEN Append(transition[s], r) ELSE transition[s]
  BY <1>1 DEF IInv, TypeOK
<1>6. transition' \in [Stages -> Seq(Requests)]
  <2>1. \A s \in Stages : Append(transition[s], r) \in Seq(Requests) BY <1>5
  <2>2. \A s \in Stages : transition'[s] \in Seq(Requests) BY <1>5, <2>1
  <2>3. QED BY <1>1, <2>2 DEF IInv, TypeOK
<1>7. TypeOK' BY <1>3, <1>4, <1>6 DEF IInv, TypeOK
<1>8. RequestsOK'
  <2> SUFFICES ASSUME NEW q \in Requests
               PROVE  /\ RequestOK(q, pc'[q], local'[q], answer'[q], rev')
                      /\ LinkOK(pc'[q], local'[q], build')
    BY DEF RequestsOK
  <2>1. CASE q = r BY <2>1, <1>3, <1>4 DEF LinkOK
  <2>2. CASE q # r
    <3>1. RequestOK(q, pc[q], local[q], answer[q], rev) /\ LinkOK(pc[q], local[q], build)
      BY DEF IInv, RequestsOK
    <3>2. QED BY <2>2, <3>1, <1>3, <1>4
  <2>3. QED BY <2>1, <2>2
<1>9. BuildsOK' /\ CachesOK' BY <1>4 DEF IInv, BuildsOK, CachesOK
<1>10. QueuesOK'
  <2> SUFFICES ASSUME NEW s \in Stages PROVE QueueOK(s)' BY DEF QueuesOK
  <2>1. QueueOK(s) /\ transition[s] \in Seq(Requests) BY DEF IInv, QueuesOK, TypeOK
  <2>2. \A n \in 1..Len(transition[s]) :
          /\ transition[s][n] \in Requests /\ transition[s][n] # r
          /\ pc'[transition[s][n]] = pc[transition[s][n]]
          /\ local'[transition[s][n]] = local[transition[s][n]]
    BY <1>3, <2>1 DEF QueueOK
  <2>3. CASE s # l.stage
    <3>1. transition'[s] = transition[s] BY <1>5, <2>3
    <3>2. QED BY <3>1, <2>1, <2>2, <1>4 DEF QueueOK
  <2>4. CASE s = l.stage
    <3> DEFINE t == transition[s]
               u == transition'[s]
    <3>1. u = Append(t, r) BY <1>5, <2>4
    <3>2. Len(t) \in Nat /\ Len(u) = Len(t) + 1 /\ u[Len(t) + 1] = r
          /\ \A n \in 1..Len(t) : u[n] = t[n]
      BY <2>1, <3>1
    <3>3. \A n \in 1..Len(t) : LabelOf(local[t[n]]).rev <= rev
      <4> SUFFICES ASSUME NEW n \in 1..Len(t) PROVE LabelOf(local[t[n]]).rev <= rev OBVIOUS
      <4>1. t[n] \in Requests /\ pc[t[n]] = "queued" BY <2>1, <2>2 DEF QueueOK
      <4>2. RequestOK(t[n], "queued", local[t[n]], answer[t[n]], rev)
        BY <4>1 DEF IInv, RequestsOK
      <4>3. QED BY <4>2 DEF RequestOK, LabelOf
    <3>4. LabelOf(l).rev = rev BY DEF Epoch
    <3>5. build[s] # None => build[s].epoch.rev <= rev BY DEF IInv, BuildsOK, BuildOK
    <3> HIDE DEF u
    <3> SUFFICES ASSUME NEW n \in 1..Len(u)
                 PROVE  /\ pc'[u[n]] = "queued" /\ local'[u[n]].stage = s
                        /\ \A m \in 1..Len(u) :
                             m < n => u[m] # u[n] /\ LabelOf(local'[u[m]]).rev
                                                       <= LabelOf(local'[u[n]]).rev
                        /\ build'[s] # None => build'[s].epoch.rev <= LabelOf(local'[u[n]]).rev
      BY DEF QueueOK, u, LabelOf
    <3>6. CASE n \in 1..Len(t)
      <4>1. \A m \in 1..Len(u) : m < n => m \in 1..Len(t) BY <3>2, <3>6
      <4>2. u[n] = t[n] BY <3>2, <3>6
      <4>3. pc'[u[n]] = "queued" /\ local'[u[n]].stage = s
        BY <3>6, <4>2, <2>1, <2>2 DEF QueueOK
      <4>4. ASSUME NEW m \in 1..Len(u), m < n
            PROVE  u[m] # u[n] /\ LabelOf(local'[u[m]]).rev <= LabelOf(local'[u[n]]).rev
        <5>1. m \in 1..Len(t) /\ u[m] = t[m] BY <4>1, <4>4, <3>2
        <5>2. t[m] # t[n] /\ LabelOf(local[t[m]]).rev <= LabelOf(local[t[n]]).rev
          BY <3>6, <4>4, <5>1, <2>1 DEF QueueOK
        <5>3. QED BY <3>6, <4>2, <5>1, <5>2, <2>2
      <4>5. build[s] # None => build[s].epoch.rev <= LabelOf(local[t[n]]).rev
        BY <3>6, <2>1 DEF QueueOK
      <4>6. QED BY <3>6, <4>2, <4>3, <4>4, <4>5, <2>2, <1>4
    <3>7. CASE n = Len(t) + 1
      <4>1. u[n] = r /\ local'[u[n]] = l /\ pc'[u[n]] = "queued" BY <3>2, <3>7, <1>3
      <4>2. ASSUME NEW m \in 1..Len(u), m < n
            PROVE  u[m] # u[n] /\ LabelOf(local'[u[m]]).rev <= LabelOf(local'[u[n]]).rev
        <5>1. m \in 1..Len(t) /\ u[m] = t[m] BY <4>2, <3>2, <3>7
        <5>2. LabelOf(local'[u[m]]).rev <= rev /\ u[m] # r BY <5>1, <2>2, <3>3
        <5>3. QED BY <5>2, <4>1, <3>4
      <4>3. QED BY <4>1, <4>2, <3>4, <3>5, <2>4, <1>4
    <3>8. QED BY <3>2, <3>6, <3>7
  <2>5. QED BY <2>3, <2>4
<1>11. AnswerStep BY <1>3 DEF AnswerStep
<1>12. SurvivorStep BY <1>4, NoneSuperseded
<1>13. QED BY <1>7, <1>8, <1>9, <1>10, <1>11, <1>12 DEF IInv

------------------------------------------------------------------------------
(* The steps of a request.                                                    *)

LEMMA LoopStep ==
  ASSUME IInv, NEW r \in Requests, Loop(r)
  PROVE  IInv' /\ AnswerStep /\ SurvivorStep
<1>1. pc[r] = "loop" /\ UNCHANGED <<source, buildVars>> BY DEF Loop
<1>2. pc[r] \notin Ended /\ pc[r] # "queued" BY <1>1 DEF Ended
<1>3. answer[r] = None /\ r \in Public
  BY <1>1, <1>2 DEF IInv, RequestsOK, RequestOK
<1>4. CASE Fails(r) /\ UNCHANGED cacheVars BY <1>1, <1>2, <1>4, RequestFails
<1>5. CASE Fallback(r, retained # None) /\ UNCHANGED cacheVars
  BY <1>1, <1>2, <1>5, RequestFallsBack
<1>6. CASE /\ ~lease /\ Hits(publicCache, Epoch)
           /\ Answered(r, "current", publicCache.payload) /\ Remember("public", publicCache)
  <2>1. publicCache # None /\ publicCache.epoch = Epoch /\ publicCache \in Entries
    BY <1>6 DEF Hits, IInv, TypeOK
  <2>2. publicCache.payload \in Payloads /\ Sound(publicCache.payload)
        /\ publicCache.payload.epoch.rev = rev /\ publicCache.payload.rev = rev
    BY <2>1 DEF Entries, IInv, CachesOK, EntryOK, Epoch, Sound
  <2>3. releaseCache' = releaseCache /\ publicCache' = publicCache /\ retained' = publicCache
    BY <1>6 DEF Remember
  <2>4. rev' = rev BY <1>1 DEF source
  <2>5. CachesOK' /\ {releaseCache', publicCache', retained'} \subseteq Entries \cup {None}
    BY <2>3, <2>4 DEF IInv, CachesOK, TypeOK
  <2>6. lease => publicCache.payload.epoch.lease BY <1>6
  <2>7. QED BY <1>1, <1>2, <1>6, <2>2, <2>5, <2>6, RequestAnswered
<1>7. ASSUME ~lease, UNCHANGED cacheVars,
             NEW spare \in {None} \cup {e.payload : e \in {e \in {retained} : Hits(e, Epoch)}},
             Goes(r, "inner", [Fresh EXCEPT !.outer = Epoch, !.spare = spare])
      PROVE  IInv' /\ AnswerStep /\ SurvivorStep
  <2> DEFINE l == [Fresh EXCEPT !.outer = Epoch, !.spare = spare]
  <2>1. spare # None => /\ Hits(retained, Epoch) /\ spare = retained.payload
    BY <1>7
  <2>2. spare # None => spare \in Payloads /\ Sound(spare)
    BY <2>1 DEF Hits, IInv, TypeOK, Entries, CachesOK, EntryOK
  <2>3. Epoch \in Epochs /\ Epoch # None /\ rev \in Nat BY Revisions DEF IInv
  <2>4. /\ l.stage = "release" /\ l.outer = Epoch /\ l.inner = None /\ l.base = None
        /\ l.spare = spare /\ l.got = None /\ l \in Locals
    BY <2>2, <2>3 DEF Fresh, Locals, Stages
  <2>5. Updates(r, "inner", l, answer[r]) BY <1>7, GoesUpdates DEF IInv
  <2> HIDE DEF l
  <2>6. Epoch.rev = rev /\ Epoch.lease = FALSE
    <3>1. lease = FALSE BY <1>7, ZenonT(10) DEF IInv, TypeOK
    <3>2. QED BY <3>1 DEF Epoch
  <2>7. RequestOK(r, "inner", l, answer[r], rev) /\ LinkOK("inner", l, build)
    BY <1>3, <2>2, <2>3, <2>4, <2>6 DEF RequestOK, LinkOK, Ended
  <2>8. releaseCache' = releaseCache /\ publicCache' = publicCache /\ retained' = retained
        /\ rev' = rev
    BY <1>1, <1>7 DEF cacheVars, source
  <2>9. CachesOK' /\ {releaseCache', publicCache', retained'} \subseteq Entries \cup {None}
    BY <2>8 DEF IInv, CachesOK, TypeOK
  <2>10. "inner" \in Labels BY DEF Labels
  <2>11. QED BY <1>1, <1>2, <1>3, <2>4, <2>5, <2>7, <2>9, <2>10, RequestMoves
<1>8. QED BY <1>4, <1>5, <1>6, <1>7 DEF Loop

(* A release payload of the current epoch is an answer, or a base. *)
LEMMA RequestDelivered ==
  ASSUME IInv, NEW r \in Requests, pc[r] \in {"inner", "waiting"},
         local[r].stage = "release", NEW p \in Payloads, Deliver(r, p),
         Sound(p), p.epoch = Epoch,
         UNCHANGED <<source, buildVars>>,
         {releaseCache', publicCache', retained'} \subseteq Entries \cup {None}, CachesOK'
  PROVE  IInv' /\ AnswerStep /\ SurvivorStep
<1>1. /\ RequestOK(r, pc[r], local[r], answer[r], rev) /\ local[r] \in Locals
      /\ answer[r] = None /\ pc[r] # "queued"
  BY DEF IInv, RequestsOK, RequestOK, TypeOK, Ended
<1>2. rev \in Nat /\ p.rev = rev /\ p # None
  BY Revisions, NoneAssumption DEF IInv, Sound, Epoch
<1>3. CASE r \in Public
  <2> DEFINE l == [local[r] EXCEPT !.base = p, !.inner = None, !.got = None]
  <2>1. /\ l.stage = "release" /\ l.outer = local[r].outer /\ l.inner = None /\ l.base = p
        /\ l.spare = local[r].spare /\ l.got = None /\ l \in Locals
    BY <1>1 DEF Locals
  <2>2. Updates(r, "based", l, answer[r]) BY <1>3, GoesUpdates DEF Deliver, IInv
  <2> HIDE DEF l
  <2>3. RequestOK(r, "based", l, answer[r], rev) /\ LinkOK("based", l, build)
    BY <1>1, <1>2, <1>3, <2>1 DEF RequestOK, LinkOK, Ended
  <2>4. "based" \in Labels BY DEF Labels
  <2>5. QED BY <1>1, <2>1, <2>2, <2>3, <2>4, RequestMoves
<1>4. CASE r \notin Public
  <2>1. Answered(r, "current", p) BY <1>4 DEF Deliver
  <2>2. lease => p.epoch.lease
    <3>1. p.epoch.lease = lease BY DEF Epoch
    <3>2. QED BY <3>1
  <2>3. QED BY <1>1, <1>2, <2>1, <2>2, RequestAnswered
<1>5. QED BY <1>3, <1>4

LEMMA InnerStep ==
  ASSUME IInv, NEW r \in Requests, Inner(r)
  PROVE  IInv' /\ AnswerStep /\ SurvivorStep
<1>1. pc[r] = "inner" /\ UNCHANGED <<source, build, cacheVars>> BY DEF Inner
<1>2. pc[r] \notin Ended /\ pc[r] # "queued" BY <1>1 DEF Ended
<1>3. /\ RequestOK(r, pc[r], local[r], answer[r], rev) /\ local[r] \in Locals
      /\ answer[r] = None /\ local[r].stage = "release"
  BY <1>1, <1>2 DEF IInv, RequestsOK, RequestOK, TypeOK
<1>4. CASE Fails(r) /\ UNCHANGED transition
  BY <1>1, <1>2, <1>4, RequestFails DEF buildVars
<1>5. CASE Hits(releaseCache, Epoch) /\ Deliver(r, releaseCache.payload) /\ UNCHANGED transition
  <2>1. releaseCache # None /\ releaseCache.epoch = Epoch /\ releaseCache \in Entries
    BY <1>5 DEF Hits, IInv, TypeOK
  <2>2. releaseCache.payload \in Payloads /\ Sound(releaseCache.payload)
        /\ releaseCache.payload.epoch = Epoch
    BY <2>1 DEF Entries, IInv, CachesOK, EntryOK
  <2>3. releaseCache' = releaseCache /\ publicCache' = publicCache /\ retained' = retained
        /\ rev' = rev
    BY <1>1 DEF cacheVars, source
  <2>4. CachesOK' /\ {releaseCache', publicCache', retained'} \subseteq Entries \cup {None}
    BY <2>3 DEF IInv, CachesOK, TypeOK
  <2>5. QED BY <1>1, <1>3, <1>5, <2>2, <2>4, RequestDelivered DEF buildVars
<1>6. CASE Enqueue(r, [local[r] EXCEPT !.inner = Epoch])
  <2> DEFINE l == [local[r] EXCEPT !.inner = Epoch]
  <2>1. Epoch \in Epochs /\ Epoch # None /\ rev \in Nat /\ Epoch.rev = rev
    BY Revisions DEF IInv, Epoch
  <2>2. /\ l.stage = "release" /\ l.outer = local[r].outer /\ l.inner = Epoch
        /\ l.base = local[r].base /\ l.spare = local[r].spare /\ l.got = local[r].got
        /\ l \in Locals
    BY <1>3, <2>1 DEF Locals
  <2>3. Enqueue(r, l) BY <1>6
  <2> HIDE DEF l
  <2>4. LabelOf(l) = Epoch BY <2>2 DEF LabelOf
  <2>5. RequestOK(r, "queued", l, answer[r], rev)
    BY <1>1, <1>3, <2>1, <2>2, <2>4 DEF RequestOK, Ended
  <2>6. QED BY <1>1, <1>2, <2>2, <2>3, <2>4, <2>5, RequestQueues
<1>7. QED BY <1>4, <1>5, <1>6 DEF Inner

(* A public request starts another round. *)
LEMMA RequestLoops ==
  ASSUME IInv, NEW r \in Public, r \in Requests, Goes(r, "loop", Fresh),
         pc[r] \notin Ended, pc[r] # "queued", UNCHANGED <<source, buildVars, cacheVars>>
  PROVE  IInv' /\ AnswerStep /\ SurvivorStep
<1>1. Updates(r, "loop", Fresh, answer[r]) BY GoesUpdates DEF IInv
<1>2. answer[r] = None BY DEF IInv, RequestsOK, RequestOK
<1>3. RequestOK(r, "loop", Fresh, answer[r], rev) /\ LinkOK("loop", Fresh, build)
      /\ Fresh \in Locals /\ "loop" \in Labels
  BY <1>2 DEF RequestOK, LinkOK, Fresh, Locals, Stages, Labels, Ended
<1>4. releaseCache' = releaseCache /\ publicCache' = publicCache /\ retained' = retained
      /\ rev' = rev
  BY DEF cacheVars, source
<1>5. CachesOK' /\ {releaseCache', publicCache', retained'} \subseteq Entries \cup {None}
  BY <1>4 DEF IInv, CachesOK, TypeOK
<1>6. QED BY <1>1, <1>2, <1>3, <1>5, RequestMoves

LEMMA EnrichStep ==
  ASSUME IInv, NEW r \in Requests, Enrich(r)
  PROVE  IInv' /\ AnswerStep /\ SurvivorStep
<1>1. pc[r] = "based" /\ UNCHANGED <<source, build, cacheVars>> BY DEF Enrich
<1>2. pc[r] \notin Ended /\ pc[r] # "queued" BY <1>1 DEF Ended
<1>3. /\ RequestOK(r, "based", local[r], answer[r], rev) /\ local[r] \in Locals
      /\ answer[r] = None /\ answer[r] \in Answers \cup {None}
  BY <1>1, <1>2 DEF IInv, RequestsOK, RequestOK, TypeOK
<1>4. r \in Public /\ local[r].outer # None /\ local[r].base # None
  BY <1>3 DEF RequestOK, Ended
<1>5. CASE StillCurrent(local[r].outer)
  <2> DEFINE l == [local[r] EXCEPT !.stage = "public"]
  <2>1. /\ l.stage = "public" /\ l.outer = local[r].outer /\ l.inner = local[r].inner
        /\ l.base = local[r].base /\ l.spare = local[r].spare /\ l.got = local[r].got
        /\ l \in Locals
    BY <1>3 DEF Locals, Stages
  <2>2. Enqueue(r, l) BY <1>5 DEF Enrich
  <2> HIDE DEF l
  <2>3. LabelOf(l) = Epoch BY <1>5, <2>1 DEF LabelOf, StillCurrent
  <2>4. l.outer.rev = rev /\ rev \in Nat /\ l.base.rev \in Nat
    BY <1>3, <1>4, <1>5, <2>1, Revisions, BuildsAssumption
    DEF StillCurrent, Epoch, IInv, Locals, Payloads
  <2>5. l.base.rev = l.outer.rev BY <1>3, <1>4, <2>1, <2>4 DEF RequestOK
  <2>6. LabelOf(l) # None BY <2>3, Revisions DEF IInv
  <2>7. RequestOK(r, "queued", l, answer[r], rev)
    BY <1>3, <1>4, <2>1, <2>5, <2>6 DEF RequestOK, Ended
  <2>8. QED BY <1>1, <1>2, <2>1, <2>2, <2>3, <2>7, RequestQueues
<1>6. CASE ~StillCurrent(local[r].outer)
  <2>1. Goes(r, "loop", Fresh) /\ UNCHANGED transition BY <1>6 DEF Enrich
  <2>2. QED BY <1>1, <1>2, <1>4, <2>1, RequestLoops DEF buildVars
<1>7. QED BY <1>5, <1>6

LEMMA RequestWithoutPayload ==
  ASSUME IInv, NEW r \in Requests, pc[r] = "waiting", WithoutPayload(r),
         UNCHANGED <<source, buildVars, cacheVars>>
  PROVE  IInv' /\ AnswerStep /\ SurvivorStep
<1>1. pc[r] \notin Ended /\ pc[r] # "queued" BY DEF Ended
<1>2. CASE Fallback(r, Hits(retained, Epoch))
  <2>1. Hits(retained, Epoch) => retained # None BY DEF Hits
  <2>2. QED BY <1>1, <1>2, <2>1, RequestFallsBack
<1>3. CASE Fails(r) BY <1>1, <1>3, RequestFails
<1>4. QED BY <1>2, <1>3 DEF WithoutPayload

(* A payload whose label is current at the end is one of the current revision. *)
LEMMA CurrentPayload ==
  ASSUME TypeOK, NEW s \in Stages, NEW p \in Payloads, Made(s, Epoch, p, rev)
  PROVE  /\ Sound(p) /\ p.rev = rev /\ p # None
         /\ s = "release" => p.epoch = Epoch
         /\ [epoch |-> Epoch, payload |-> p] \in Entries
         /\ EntryOK(s, [epoch |-> Epoch, payload |-> p], rev)
<1>1. rev \in Nat /\ Epoch.rev = rev /\ p.rev \in Nat /\ p.extra \in Nat /\ Epoch \in Epochs
  BY Revisions DEF Epoch
<1>2. p.epoch.rev = rev /\ rev <= p.rev /\ p.rev <= p.extra /\ p.extra <= rev
      /\ (s = "release" => p.epoch = Epoch)
  BY <1>1 DEF Made
<1>3. Sound(p) /\ p.rev = rev BY <1>1, <1>2 DEF Sound
<1>4. EntryOK(s, [epoch |-> Epoch, payload |-> p], rev)
  BY <1>1, <1>2, <1>3 DEF EntryOK
<1>5. QED BY <1>1, <1>2, <1>3, <1>4, NoneAssumption DEF Entries

LEMMA Remembered ==
  ASSUME IInv, NEW s \in Stages, NEW e \in Entries, EntryOK(s, e, rev), Remember(s, e),
         rev' = rev
  PROVE  CachesOK' /\ {releaseCache', publicCache', retained'} \subseteq Entries \cup {None}
<1>1. CASE s = "release"
  <2>1. releaseCache' = e /\ publicCache' = publicCache /\ retained' = retained
    BY <1>1 DEF Remember
  <2>2. QED BY <1>1, <2>1 DEF IInv, TypeOK, CachesOK
<1>2. CASE s = "public"
  <2>1. releaseCache' = releaseCache /\ publicCache' = e /\ retained' = e
    BY <1>2 DEF Remember
  <2>2. QED BY <1>2, <2>1 DEF IInv, TypeOK, CachesOK
<1>3. QED BY <1>1, <1>2 DEF Stages

LEMMA ResumeStep ==
  ASSUME IInv, NEW r \in Requests, Resume(r)
  PROVE  IInv' /\ AnswerStep /\ SurvivorStep
<1> DEFINE l == local[r]
           got == local[r].got
<1>1. pc[r] = "waiting" /\ got # None /\ UNCHANGED <<source, buildVars>> BY DEF Resume
<1>2. pc[r] \notin Ended /\ pc[r] # "queued" BY <1>1 DEF Ended
<1>3. /\ RequestOK(r, "waiting", l, answer[r], rev) /\ l \in Locals
      /\ answer[r] = None /\ answer[r] \in Answers \cup {None} /\ l.stage \in Stages
      /\ got \in Outcomes
  BY <1>1, <1>2 DEF IInv, RequestsOK, RequestOK, TypeOK, Locals
<1>4. Label(r) = LabelOf(l) BY DEF Label, LabelOf
<1>5. rev' = rev BY <1>1 DEF source
<1>6. CASE /\ got.what = "payload" /\ StillCurrent(Label(r))
           /\ Remember(l.stage, [epoch |-> Label(r), payload |-> got.payload])
           /\ IF l.stage = "public"
              THEN Answered(r, "current", got.payload)
              ELSE Deliver(r, got.payload)
  <2>1. Label(r) = Epoch BY <1>6 DEF StillCurrent
  <2>2. got.payload \in Payloads BY <1>3, <1>6 DEF Outcomes
  <2>3. Made(l.stage, Epoch, got.payload, rev)
    BY <1>1, <1>3, <1>4, <1>6, <2>1 DEF RequestOK
  <2>4. /\ Sound(got.payload) /\ got.payload.rev = rev
        /\ l.stage = "release" => got.payload.epoch = Epoch
        /\ [epoch |-> Epoch, payload |-> got.payload] \in Entries
        /\ EntryOK(l.stage, [epoch |-> Epoch, payload |-> got.payload], rev)
    BY <1>3, <2>2, <2>3, CurrentPayload DEF IInv
  <2>5. CachesOK' /\ {releaseCache', publicCache', retained'} \subseteq Entries \cup {None}
    BY <1>3, <1>5, <1>6, <2>1, <2>4, Remembered
  <2>6. CASE l.stage = "public"
    <3>1. l.outer # None /\ l.outer.lease = FALSE /\ l.outer = Epoch
      BY <1>3, <1>4, <2>1, <2>6 DEF RequestOK, LabelOf
    <3>2. ~lease
      <4>1. Epoch.lease = lease BY DEF Epoch
      <4>2. QED BY <3>1, <4>1
    <3>3. Answered(r, "current", got.payload) BY <1>6, <2>6
    <3>4. QED BY <1>1, <1>2, <2>2, <2>4, <2>5, <3>2, <3>3, RequestAnswered
  <2>7. CASE l.stage = "release"
    <3>1. Deliver(r, got.payload) BY <1>6, <2>7
    <3>2. QED BY <1>1, <2>2, <2>4, <2>5, <2>7, <3>1, RequestDelivered
  <2>8. QED BY <1>3, <2>6, <2>7 DEF Stages
<1>7. CASE /\ IF l.stage = "public"
              THEN Goes(r, "loop", Fresh)
              ELSE Goes(r, "inner", [l EXCEPT !.inner = None, !.got = None])
           /\ UNCHANGED cacheVars
  <2>1. CASE l.stage = "public"
    <3>1. r \in Public BY <1>3, <2>1 DEF RequestOK
    <3>2. QED BY <1>1, <1>2, <1>7, <2>1, <3>1, RequestLoops
  <2>2. CASE l.stage = "release"
    <3> DEFINE k == [l EXCEPT !.inner = None, !.got = None]
    <3>1. /\ k.stage = "release" /\ k.outer = l.outer /\ k.inner = None /\ k.base = l.base
          /\ k.spare = l.spare /\ k.got = None /\ k \in Locals
      BY <1>3, <2>2 DEF Locals
    <3>2. Updates(r, "inner", k, answer[r]) BY <1>7, <2>2, GoesUpdates DEF IInv
    <3> HIDE DEF k
    <3>3. RequestOK(r, "inner", k, answer[r], rev) /\ LinkOK("inner", k, build)
          /\ "inner" \in Labels
      BY <1>3, <3>1 DEF RequestOK, LinkOK, Labels, Ended
    <3>4. releaseCache' = releaseCache /\ publicCache' = publicCache /\ retained' = retained
      BY <1>7 DEF cacheVars
    <3>5. CachesOK' /\ {releaseCache', publicCache', retained'} \subseteq Entries \cup {None}
      BY <1>5, <3>4 DEF IInv, CachesOK, TypeOK
    <3>6. QED BY <1>1, <1>2, <1>3, <3>1, <3>2, <3>3, <3>5, RequestMoves
  <2>3. QED BY <1>3, <2>1, <2>2 DEF Stages
<1>8. CASE WithoutPayload(r) /\ UNCHANGED cacheVars
  BY <1>1, <1>8, RequestWithoutPayload
<1>9. QED BY <1>6, <1>7, <1>8 DEF Resume

LEMMA TimesOutStep ==
  ASSUME IInv, NEW r \in Requests, TimesOut(r)
  PROVE  IInv' /\ AnswerStep /\ SurvivorStep
BY RequestWithoutPayload DEF TimesOut

LEMMA BudgetEndsStep ==
  ASSUME IInv, NEW r \in Requests, BudgetEnds(r)
  PROVE  IInv' /\ AnswerStep /\ SurvivorStep
<1>1. /\ expired' \in SUBSET Requests
      /\ UNCHANGED <<source, pc, local, answer, buildVars, cacheVars>>
  BY DEF BudgetEnds, IInv, TypeOK
<1>2. /\ rev' = rev /\ lease' = lease /\ pc' = pc /\ local' = local /\ answer' = answer
      /\ build' = build /\ transition' = transition
      /\ releaseCache' = releaseCache /\ publicCache' = publicCache /\ retained' = retained
  BY <1>1 DEF source, buildVars, cacheVars
<1>3. TypeOK' BY <1>1, <1>2 DEF IInv, TypeOK
<1>4. RequestsOK' /\ BuildsOK' /\ CachesOK' BY <1>2 DEF IInv, RequestsOK, BuildsOK, CachesOK
<1>5. QueuesOK' BY <1>2 DEF IInv, QueuesOK, QueueOK
<1>6. AnswerStep BY <1>2 DEF AnswerStep
<1>7. SurvivorStep BY <1>2, NoneSuperseded
<1>8. QED BY <1>3, <1>4, <1>5, <1>6, <1>7 DEF IInv

LEMMA StutterStep ==
  ASSUME IInv, UNCHANGED vars
  PROVE  IInv' /\ AnswerStep /\ SurvivorStep
<1>1. /\ rev' = rev /\ lease' = lease /\ pc' = pc /\ local' = local /\ answer' = answer
      /\ build' = build /\ transition' = transition /\ expired' = expired
      /\ releaseCache' = releaseCache /\ publicCache' = publicCache /\ retained' = retained
  BY DEF vars, source, requestVars, buildVars, cacheVars
<1>2. TypeOK' BY <1>1 DEF IInv, TypeOK
<1>3. RequestsOK' /\ BuildsOK' /\ CachesOK' BY <1>1 DEF IInv, RequestsOK, BuildsOK, CachesOK
<1>4. QueuesOK' BY <1>1 DEF IInv, QueuesOK, QueueOK
<1>5. AnswerStep BY <1>1 DEF AnswerStep
<1>6. SurvivorStep BY <1>1, NoneSuperseded
<1>7. QED BY <1>2, <1>3, <1>4, <1>5, <1>6 DEF IInv

------------------------------------------------------------------------------
(* The queues and the builds.                                                 *)

(* The head of a queue leaves it, for a build of its epoch. *)
LEMMA HeadMoves ==
  ASSUME IInv, NEW s \in Stages, transition[s] # <<>>,
         NEW r, r = Head(transition[s]),
         transition' = [transition EXCEPT ![s] = Tail(@)],
         NEW label \in Labels, NEW l \in Locals, NEW a \in Answers \cup {None},
         Updates(r, label, l, a), label # "queued",
         UNCHANGED <<source, cacheVars>>,
         build' \in [Stages -> Builds \cup {None}],
         build'[s] # None, build'[s].epoch = Label(r), BuildOK(s, build'[s], rev),
         build[s] # None => build'[s] = build[s],
         \A t \in Stages : t # s => build'[t] = build[t],
         RequestOK(r, label, l, a, rev), LinkOK(label, l, build'),
         a # answer[r] => Right(a)
  PROVE  IInv' /\ AnswerStep
<1> DEFINE t == transition[s]
<1>1. t \in Seq(Requests) /\ Len(t) \in Nat /\ 1 \in 1..Len(t) /\ r = t[1] /\ r \in Requests
  BY DEF IInv, TypeOK
<1>2. QueueOK(s) BY DEF IInv, QueuesOK
<1>3. pc[r] = "queued" /\ local[r].stage = s BY <1>1, <1>2 DEF QueueOK
<1>4. /\ pc' \in [Requests -> Labels] /\ local' \in [Requests -> Locals]
      /\ answer' \in [Requests -> Answers \cup {None}]
      /\ expired' \in SUBSET Requests
      /\ pc'[r] = label /\ local'[r] = l /\ answer'[r] = a
      /\ \A q \in Requests : q # r =>
           pc'[q] = pc[q] /\ local'[q] = local[q] /\ answer'[q] = answer[q]
  BY <1>1, Updated DEF IInv
<1>5. /\ rev' = rev /\ lease' = lease
      /\ releaseCache' = releaseCache /\ publicCache' = publicCache /\ retained' = retained
  BY DEF source, cacheVars
<1>6. /\ transition'[s] = Tail(t) /\ Tail(t) \in Seq(Requests)
      /\ Len(Tail(t)) = Len(t) - 1 /\ \A n \in 1..(Len(t) - 1) : Tail(t)[n] = t[n + 1]
      /\ \A q \in Stages : q # s => transition'[q] = transition[q]
  BY <1>1 DEF IInv, TypeOK
<1>7. TypeOK'
  <2>1. transition' \in [Stages -> Seq(Requests)]
    BY <1>6 DEF IInv, TypeOK
  <2>2. QED BY <1>4, <1>5, <2>1 DEF IInv, TypeOK
<1>8. RequestsOK'
  <2> SUFFICES ASSUME NEW q \in Requests
               PROVE  /\ RequestOK(q, pc'[q], local'[q], answer'[q], rev')
                      /\ LinkOK(pc'[q], local'[q], build')
    BY DEF RequestsOK
  <2>1. CASE q = r BY <2>1, <1>4, <1>5
  <2>2. CASE q # r
    <3>1. RequestOK(q, pc[q], local[q], answer[q], rev) /\ LinkOK(pc[q], local[q], build)
          /\ local[q].stage \in Stages
      BY DEF IInv, RequestsOK, TypeOK, Locals
    <3>2. LinkOK(pc[q], local[q], build') BY <3>1 DEF LinkOK
    <3>3. QED BY <2>2, <3>1, <3>2, <1>4, <1>5
  <2>3. QED BY <2>1, <2>2
<1>9. BuildsOK' BY <1>5 DEF IInv, BuildsOK
<1>10. CachesOK' BY <1>5 DEF IInv, CachesOK
<1>11. QueuesOK'
  <2> SUFFICES ASSUME NEW q \in Stages PROVE QueueOK(q)' BY DEF QueuesOK
  <2>1. CASE q # s
    <3>1. QueueOK(q) /\ transition[q] \in Seq(Requests) BY DEF IInv, QueuesOK, TypeOK
    <3>2. \A n \in 1..Len(transition[q]) :
            /\ transition[q][n] \in Requests /\ transition[q][n] # r
            /\ pc'[transition[q][n]] = pc[transition[q][n]]
            /\ local'[transition[q][n]] = local[transition[q][n]]
      BY <1>3, <1>4, <2>1, <3>1 DEF QueueOK
    <3>3. transition'[q] = transition[q] /\ build'[q] = build[q] BY <1>6, <2>1
    <3>4. QED BY <3>1, <3>2, <3>3 DEF QueueOK
  <2>2. CASE q = s
    <3> SUFFICES QueueOK(s)' BY <2>2
    <3> DEFINE u == transition'[s]
    <3>1. u = Tail(t) BY <1>6
    <3>2. Len(u) = Len(t) - 1 BY <1>6, <3>1
    <3>3. \A n \in 1..Len(u) : n \in 1..(Len(t) - 1) /\ u[n] = t[n + 1] /\ n + 1 \in 1..Len(t)
      BY <1>1, <1>6, <3>1, <3>2
    <3> HIDE DEF u
    <3>4. \A n \in 1..Len(u) :
            /\ u[n] \in Requests /\ u[n] # r /\ pc[u[n]] = "queued" /\ local[u[n]].stage = s
            /\ LabelOf(local[r]).rev <= LabelOf(local[u[n]]).rev
      <4> SUFFICES ASSUME NEW n \in 1..Len(u)
                   PROVE  /\ u[n] \in Requests /\ u[n] # r /\ pc[u[n]] = "queued"
                          /\ local[u[n]].stage = s
                          /\ LabelOf(local[r]).rev <= LabelOf(local[u[n]]).rev
        OBVIOUS
      <4>1. u[n] = t[n + 1] /\ n + 1 \in 1..Len(t) /\ 1 < n + 1 BY <3>3
      <4>2. QED BY <4>1, <1>1, <1>2 DEF QueueOK
    <3>5. \A n, m \in 1..Len(u) :
            m < n => u[m] # u[n] /\ LabelOf(local[u[m]]).rev <= LabelOf(local[u[n]]).rev
      <4> SUFFICES ASSUME NEW n \in 1..Len(u), NEW m \in 1..Len(u), m < n
                   PROVE  u[m] # u[n] /\ LabelOf(local[u[m]]).rev <= LabelOf(local[u[n]]).rev
        OBVIOUS
      <4>1. /\ u[n] = t[n + 1] /\ n + 1 \in 1..Len(t)
            /\ u[m] = t[m + 1] /\ m + 1 \in 1..Len(t) /\ m + 1 < n + 1
        BY <3>3
      <4>2. QED BY <4>1, <1>2 DEF QueueOK
    <3>6. build'[s].epoch.rev = LabelOf(local[r]).rev BY DEF Label, LabelOf
    <3> SUFFICES ASSUME NEW n \in 1..Len(u)
                 PROVE  /\ pc'[u[n]] = "queued" /\ local'[u[n]].stage = s
                        /\ \A m \in 1..Len(u) :
                             m < n => u[m] # u[n] /\ LabelOf(local'[u[m]]).rev
                                                       <= LabelOf(local'[u[n]]).rev
                        /\ build'[s] # None => build'[s].epoch.rev <= LabelOf(local'[u[n]]).rev
      BY DEF QueueOK, u, LabelOf
    <3>7. pc'[u[n]] = "queued" /\ local'[u[n]] = local[u[n]] /\ local[u[n]].stage = s
      BY <1>4, <3>4
    <3>8. ASSUME NEW m \in 1..Len(u), m < n
          PROVE  u[m] # u[n] /\ LabelOf(local'[u[m]]).rev <= LabelOf(local'[u[n]]).rev
      BY <1>4, <3>4, <3>5, <3>8
    <3>9. build'[s].epoch.rev <= LabelOf(local'[u[n]]).rev BY <3>4, <3>6, <3>7
    <3>10. QED BY <3>7, <3>8, <3>9
  <2>3. QED BY <2>1, <2>2
<1>12. AnswerStep BY <1>1, <1>4 DEF AnswerStep
<1>13. QED BY <1>7, <1>8, <1>9, <1>10, <1>11, <1>12 DEF IInv

LEMMA HeadJoins ==
  ASSUME IInv, NEW s \in Stages, transition[s] # <<>>,
         Joined(s, Head(transition[s])), UNCHANGED <<source, cacheVars>>,
         build' \in [Stages -> Builds \cup {None}],
         build'[s] # None, build'[s].epoch = Label(Head(transition[s])),
         BuildOK(s, build'[s], rev),
         build[s] # None => build'[s] = build[s],
         \A t \in Stages : t # s => build'[t] = build[t]
  PROVE  IInv' /\ AnswerStep
<1> DEFINE r == Head(transition[s])
           l == local[r]
<1>1. transition[s] \in Seq(Requests) /\ r = transition[s][1] /\ 1 \in 1..Len(transition[s])
      /\ r \in Requests
  BY DEF IInv, TypeOK
<1>2. pc[r] = "queued" /\ l.stage = s BY <1>1 DEF IInv, QueuesOK, QueueOK
<1>3. /\ RequestOK(r, "queued", l, answer[r], rev) /\ l \in Locals
      /\ answer[r] = None /\ answer[r] \in Answers \cup {None}
  BY <1>1, <1>2 DEF IInv, RequestsOK, RequestOK, TypeOK, Ended
<1>4. transition' = [transition EXCEPT ![s] = Tail(@)] BY DEF Joined
<1> HIDE DEF r, l
<1>5. Joined(s, r) /\ build'[s].epoch = Label(r) BY DEF r
<1>6. r = Head(transition[s]) BY DEF r
<1>7. l = local[r] BY DEF l
<1>8. CASE l.spare # None /\ Answered(r, "retained", l.spare)
  <2> DEFINE a == [how |-> "retained", payload |-> l.spare]
  <2>1. l.spare \in Payloads /\ Sound(l.spare) BY <1>3, <1>8 DEF Locals, RequestOK
  <2>2. a \in Answers /\ a.how = "retained" /\ a.payload = l.spare BY <2>1 DEF Answers
  <2>3. Updates(r, "answered", Fresh, a) BY <1>1, <1>8, EndsUpdates DEF Answered, IInv
  <2> HIDE DEF a
  <2>4. Right(a) BY <2>1, <2>2 DEF Right
  <2>5. RequestOK(r, "answered", Fresh, a, rev) /\ LinkOK("answered", Fresh, build')
        /\ Fresh \in Locals /\ "answered" \in Labels
    BY <1>1 DEF RequestOK, LinkOK, Fresh, Ended, Locals, Stages, Labels
  <2>6. QED BY <1>4, <1>5, <1>6, <2>2, <2>3, <2>4, <2>5, HeadMoves
<1>9. CASE Goes(r, "waiting", local[r])
  <2>1. Updates(r, "waiting", l, answer[r]) BY <1>1, <1>7, <1>9, GoesUpdates DEF IInv
  <2>2. RequestOK(r, "waiting", l, answer[r], rev) /\ "waiting" \in Labels
    BY <1>3 DEF RequestOK, Ended, Labels
  <2>3. LinkOK("waiting", l, build') BY <1>2, <1>5, <1>7 DEF LinkOK, Label, LabelOf
  <2>4. QED BY <1>3, <1>4, <1>5, <1>6, <2>1, <2>2, <2>3, HeadMoves
<1>10. QED BY <1>5, <1>7, <1>8, <1>9 DEF Joined

LEMMA JoinStep ==
  ASSUME IInv, NEW s \in Stages, Join(s)
  PROVE  IInv' /\ AnswerStep /\ SurvivorStep
<1>1. /\ transition[s] # <<>> /\ Hits(build[s], Label(Head(transition[s])))
      /\ Joined(s, Head(transition[s])) /\ build' = build /\ UNCHANGED <<source, cacheVars>>
  BY DEF Join
<1>2. build[s] # None /\ build[s].epoch = Label(Head(transition[s])) BY <1>1 DEF Hits
<1>3. BuildOK(s, build[s], rev) /\ build \in [Stages -> Builds \cup {None}]
  BY DEF IInv, BuildsOK, TypeOK
<1>4. IInv' /\ AnswerStep BY <1>1, <1>2, <1>3, HeadJoins
<1>5. QED BY <1>1, <1>4, NoneSuperseded

LEMMA CreateStep ==
  ASSUME IInv, NEW s \in Stages, Create(s)
  PROVE  IInv' /\ AnswerStep /\ SurvivorStep
<1> DEFINE r == Head(transition[s])
           l == local[r]
           b == NewBuild(r)
<1>1. /\ transition[s] # <<>> /\ build[s] = None /\ build' = [build EXCEPT ![s] = b]
      /\ Joined(s, r) /\ UNCHANGED <<source, cacheVars>>
  BY DEF Create
<1>2. transition[s] \in Seq(Requests) /\ r = transition[s][1] /\ 1 \in 1..Len(transition[s])
      /\ r \in Requests
  BY <1>1 DEF IInv, TypeOK
<1>3. pc[r] = "queued" /\ l.stage = s BY <1>2 DEF IInv, QueuesOK, QueueOK
<1>4. RequestOK(r, "queued", l, answer[r], rev) /\ l \in Locals
  BY <1>2, <1>3 DEF IInv, RequestsOK, TypeOK
<1>5. Label(r) = LabelOf(l) /\ LabelOf(l) # None BY <1>4 DEF RequestOK, Label, LabelOf
<1>6. Label(r) \in Epochs /\ Label(r).rev <= rev
  BY <1>4, <1>5 DEF Locals, RequestOK, LabelOf
<1>7. /\ b.epoch = Label(r) /\ b.phase = "working" /\ b.out = None
      /\ b.base = IF s = "public" THEN l.base ELSE None
  BY <1>3 DEF NewBuild
<1>8. b \in Builds
  <2>1. l.base \in Payloads \cup {None} BY <1>4 DEF Locals
  <2>2. QED BY <1>3, <1>6, <2>1 DEF NewBuild, Builds
<1>9. b # None BY <1>8, NoneAssumption
<1> HIDE DEF b
<1>10. BuildOK(s, b, rev)
  <2>1. CASE s = "public"
    <3>1. l.base # None /\ Sound(l.base) /\ l.base.rev = l.outer.rev /\ Label(r) = l.outer
      BY <1>3, <1>4, <1>5, <2>1 DEF RequestOK, LabelOf
    <3>2. QED BY <1>6, <1>7, <2>1, <3>1 DEF BuildOK
  <2>2. CASE s = "release" BY <1>6, <1>7, <2>2 DEF BuildOK
  <2>3. QED BY <2>1, <2>2 DEF Stages
<1>11. /\ build' \in [Stages -> Builds \cup {None}] /\ build'[s] = b
       /\ \A t \in Stages : t # s => build'[t] = build[t]
  BY <1>1, <1>8 DEF IInv, TypeOK
<1>12. IInv' /\ AnswerStep BY <1>1, <1>7, <1>9, <1>10, <1>11, HeadJoins
<1>13. SurvivorStep
  <2> SUFFICES ASSUME NEW q \in Stages, build[q] # None, build[q].phase # "ending",
                      build'[q].out = [what |-> "superseded"]
               PROVE  FALSE
    BY DEF SurvivorStep
  <2>1. q # s /\ build'[q] = build[q] BY <1>1, <1>11
  <2>2. build[q].out # None BY <2>1, NoneAssumption DEF Outcomes
  <2>3. build[q].out.what # "superseded" BY <2>2 DEF IInv, BuildsOK, BuildOK
  <2>4. QED BY <2>1, <2>3
<1>14. QED BY <1>12, <1>13

(* A build goes on for the same epoch. *)
LEMMA BuildMoves ==
  ASSUME IInv, NEW s \in Stages, build[s] # None, NEW b \in Builds,
         build' = [build EXCEPT ![s] = b], b.epoch = build[s].epoch, BuildOK(s, b, rev),
         UNCHANGED <<source, requestVars, transition, cacheVars>>
  PROVE  /\ IInv' /\ AnswerStep /\ build'[s] = b
         /\ \A t \in Stages : t # s => build'[t] = build[t]
<1>1. /\ rev' = rev /\ lease' = lease /\ pc' = pc /\ local' = local /\ answer' = answer
      /\ transition' = transition /\ expired' = expired
      /\ releaseCache' = releaseCache /\ publicCache' = publicCache /\ retained' = retained
  BY DEF source, requestVars, cacheVars
<1>2. /\ build' \in [Stages -> Builds \cup {None}] /\ build'[s] = b /\ b # None
      /\ \A t \in Stages : t # s => build'[t] = build[t]
  BY NoneAssumption DEF IInv, TypeOK
<1>3. TypeOK' BY <1>1, <1>2 DEF IInv, TypeOK
<1>4. RequestsOK'
  <2> SUFFICES ASSUME NEW q \in Requests
               PROVE  /\ RequestOK(q, pc'[q], local'[q], answer'[q], rev')
                      /\ LinkOK(pc'[q], local'[q], build')
    BY DEF RequestsOK
  <2>1. RequestOK(q, pc[q], local[q], answer[q], rev) /\ LinkOK(pc[q], local[q], build)
        /\ local[q].stage \in Stages
    BY DEF IInv, RequestsOK, TypeOK, Locals
  <2>2. LinkOK(pc[q], local[q], build') BY <1>2, <2>1 DEF LinkOK
  <2>3. QED BY <1>1, <2>1, <2>2
<1>5. BuildsOK'
  <2> SUFFICES ASSUME NEW t \in Stages PROVE BuildOK(t, build'[t], rev') BY DEF BuildsOK
  <2>1. BuildOK(t, build[t], rev) BY DEF IInv, BuildsOK
  <2>2. QED BY <1>1, <1>2, <2>1
<1>6. CachesOK' BY <1>1 DEF IInv, CachesOK
<1>7. QueuesOK'
  <2> SUFFICES ASSUME NEW t \in Stages PROVE QueueOK(t)' BY DEF QueuesOK
  <2>1. QueueOK(t) BY DEF IInv, QueuesOK
  <2>2. build'[t] # None => build[t] # None /\ build'[t].epoch = build[t].epoch
    BY <1>2
  <2>3. QED BY <1>1, <2>1, <2>2 DEF QueueOK
<1>8. AnswerStep BY <1>1 DEF AnswerStep
<1>9. QED BY <1>2, <1>3, <1>4, <1>5, <1>6, <1>7, <1>8 DEF IInv

(* No other build is superseded in a step of one. *)
LEMMA OthersSurvive ==
  ASSUME IInv, NEW s \in Stages, \A t \in Stages : t # s => build'[t] = build[t],
         build'[s] # None /\ build'[s].out = [what |-> "superseded"]
           /\ build[s].phase # "ending" =>
             build[s].epoch.rev <= Label(Head(transition[s])).rev
  PROVE  SurvivorStep
<1> SUFFICES ASSUME NEW q \in Stages, q # s, build[q] # None, build[q].phase # "ending",
                    build'[q].out = [what |-> "superseded"]
             PROVE  FALSE
  BY DEF SurvivorStep
<1>1. build'[q] = build[q] OBVIOUS
<1>2. build[q].out # None BY <1>1, NoneAssumption DEF Outcomes
<1>3. build[q].out.what # "superseded" BY <1>2 DEF IInv, BuildsOK, BuildOK
<1>4. QED BY <1>1, <1>3

LEMMA SupersedeStep ==
  ASSUME IInv, NEW s \in Stages, Supersede(s)
  PROVE  IInv' /\ AnswerStep /\ SurvivorStep
<1> DEFINE b == [build[s] EXCEPT !.phase = "ending", !.out = [what |-> "superseded"]]
<1>1. /\ transition[s] # <<>> /\ build[s] # None
      /\ build' = [build EXCEPT ![s].phase = "ending", ![s].out = [what |-> "superseded"]]
      /\ UNCHANGED <<source, requestVars, transition, cacheVars>>
  BY DEF Supersede
<1>2. build[s] \in Builds /\ BuildOK(s, build[s], rev) BY <1>1 DEF IInv, TypeOK, BuildsOK
<1>3. build' = [build EXCEPT ![s] = b] BY <1>1 DEF IInv, TypeOK
<1>4. /\ b \in Builds /\ b.epoch = build[s].epoch /\ b.base = build[s].base
      /\ b.phase = "ending" /\ b.out.what = "superseded" /\ b.out # None
  <2> DEFINE o == [what |-> "superseded"]
  <2>1. o \in Outcomes /\ o.what = "superseded" BY DEF Outcomes
  <2>2. o # None BY <2>1, NoneAssumption
  <2> HIDE DEF o
  <2>3. b = [build[s] EXCEPT !.phase = "ending", !.out = o] BY DEF o
  <2>4. QED BY <1>2, <2>1, <2>2, <2>3 DEF Builds
<1> HIDE DEF b
<1>5. BuildOK(s, b, rev) BY <1>1, <1>2, <1>4 DEF BuildOK
<1>6. IInv' /\ AnswerStep /\ \A t \in Stages : t # s => build'[t] = build[t]
  BY <1>1, <1>3, <1>4, <1>5, BuildMoves
<1>7. build[s].epoch.rev <= Label(Head(transition[s])).rev
  <2>1. transition[s] \in Seq(Requests) /\ Head(transition[s]) = transition[s][1]
        /\ 1 \in 1..Len(transition[s])
    BY <1>1 DEF IInv, TypeOK
  <2>2. QED BY <1>1, <2>1 DEF IInv, QueuesOK, QueueOK, Label, LabelOf
<1>8. QED BY <1>6, <1>7, OthersSurvive

LEMMA WorkerReadsStep ==
  ASSUME IInv, NEW s \in Stages, WorkerReads(s)
  PROVE  IInv' /\ AnswerStep /\ SurvivorStep
<1>1. /\ build[s] # None
      /\ UNCHANGED <<source, requestVars, transition, cacheVars>>
  BY DEF WorkerReads
<1>2. PICK out \in {[what |-> "payload", payload |-> Payload(build[s])],
                    [what |-> "changed"], [what |-> "error"]} :
        build' = [build EXCEPT ![s].phase = "read", ![s].out = out]
  BY DEF WorkerReads
<1> DEFINE b == [build[s] EXCEPT !.phase = "read", !.out = out]
<1>3. build[s] \in Builds /\ BuildOK(s, build[s], rev) BY <1>1 DEF IInv, TypeOK, BuildsOK
<1>4. build' = [build EXCEPT ![s] = b] BY <1>2 DEF IInv, TypeOK
<1>5. Payload(build[s]) \in Payloads /\ Made(s, build[s].epoch, Payload(build[s]), rev)
  <2>1. rev \in Nat /\ rev \in 0..MaxRev /\ build[s].epoch \in Epochs /\ build[s].epoch.rev \in Nat
    BY <1>3, Revisions DEF IInv, TypeOK, Builds
  <2>2. CASE build[s].base = None
    <3>1. Payload(build[s]) = [epoch |-> build[s].epoch, rev |-> rev, extra |-> rev]
      BY <2>2 DEF Payload
    <3>2. QED BY <1>1, <1>3, <2>1, <3>1 DEF Payloads, Made, BuildOK
  <2>3. CASE build[s].base # None
    <3>1. Payload(build[s]) = [epoch |-> build[s].base.epoch, rev |-> build[s].base.rev,
                               extra |-> rev]
      BY <2>3 DEF Payload
    <3>2. build[s].base \in Payloads BY <1>3, <2>3 DEF Builds
    <3>3. /\ Sound(build[s].base) /\ build[s].base.rev = build[s].epoch.rev
          /\ s # "release" /\ build[s].epoch.rev <= rev
      BY <1>1, <1>3, <2>3 DEF BuildOK
    <3>4. build[s].base.epoch \in Epochs /\ build[s].base.rev \in 0..MaxRev
      BY <3>2 DEF Payloads
    <3>5. Payload(build[s]) \in Payloads BY <2>1, <3>1, <3>4 DEF Payloads
    <3>6. /\ Payload(build[s]).epoch = build[s].base.epoch
          /\ Payload(build[s]).rev = build[s].base.rev /\ Payload(build[s]).extra = rev
      BY <3>1
    <3>7. build[s].base.epoch.rev = build[s].epoch.rev BY <3>3 DEF Sound
    <3>8. QED BY <2>1, <3>3, <3>5, <3>6, <3>7 DEF Made
  <2>4. QED BY <2>2, <2>3
<1>6. /\ out \in Outcomes /\ out # None /\ out.what # "superseded"
      /\ out.what = "payload" => out.payload = Payload(build[s])
  BY <1>5, NoneAssumption DEF Outcomes
<1>7. /\ b \in Builds /\ b.epoch = build[s].epoch /\ b.base = build[s].base
      /\ b.phase = "read" /\ b.out = out
  BY <1>3, <1>6 DEF Builds
<1> HIDE DEF b
<1>8. BuildOK(s, b, rev) BY <1>1, <1>3, <1>5, <1>6, <1>7 DEF BuildOK
<1>9. IInv' /\ AnswerStep /\ build'[s] = b /\ \A t \in Stages : t # s => build'[t] = build[t]
  BY <1>1, <1>4, <1>7, <1>8, BuildMoves
<1>10. build'[s].out # [what |-> "superseded"] BY <1>6, <1>7, <1>9
<1>11. QED BY <1>9, <1>10, OthersSurvive

LEMMA MessageStep ==
  ASSUME IInv, NEW s \in Stages, Message(s)
  PROVE  IInv' /\ AnswerStep /\ SurvivorStep
<1> DEFINE b == [build[s] EXCEPT !.phase = "ending"]
<1>1. /\ build[s] # None /\ build[s].phase = "read"
      /\ build' = [build EXCEPT ![s].phase = "ending"]
      /\ UNCHANGED <<source, requestVars, transition, cacheVars>>
  BY DEF Message
<1>2. build[s] \in Builds /\ BuildOK(s, build[s], rev) BY <1>1 DEF IInv, TypeOK, BuildsOK
<1>3. build' = [build EXCEPT ![s] = b] BY <1>1 DEF IInv, TypeOK
<1>4. /\ b \in Builds /\ b.epoch = build[s].epoch /\ b.base = build[s].base
      /\ b.phase = "ending" /\ b.out = build[s].out
  BY <1>2 DEF Builds
<1> HIDE DEF b
<1>5. /\ BuildOK(s, b, rev) /\ b.out # None /\ b.out.what # "superseded"
  BY <1>1, <1>2, <1>4 DEF BuildOK
<1>6. IInv' /\ AnswerStep /\ build'[s] = b /\ \A t \in Stages : t # s => build'[t] = build[t]
  BY <1>1, <1>3, <1>4, <1>5, BuildMoves
<1>7. build'[s].out # [what |-> "superseded"] BY <1>5, <1>6
<1>8. QED BY <1>6, <1>7, OthersSurvive

LEMMA WorkerFailsStep ==
  ASSUME IInv, NEW s \in Stages, WorkerFails(s)
  PROVE  IInv' /\ AnswerStep /\ SurvivorStep
<1> DEFINE b == [build[s] EXCEPT !.phase = "ending", !.out = [what |-> "error"]]
<1>1. /\ build[s] # None
      /\ build' = [build EXCEPT ![s].phase = "ending", ![s].out = [what |-> "error"]]
      /\ UNCHANGED <<source, requestVars, transition, cacheVars>>
  BY DEF WorkerFails
<1>2. build[s] \in Builds /\ BuildOK(s, build[s], rev) BY <1>1 DEF IInv, TypeOK, BuildsOK
<1>3. build' = [build EXCEPT ![s] = b] BY <1>1 DEF IInv, TypeOK
<1>4. /\ b \in Builds /\ b.epoch = build[s].epoch /\ b.base = build[s].base
      /\ b.phase = "ending" /\ b.out.what = "error" /\ b.out # None
  <2> DEFINE o == [what |-> "error"]
  <2>1. o \in Outcomes /\ o.what = "error" BY DEF Outcomes
  <2>2. o # None BY <2>1, NoneAssumption
  <2> HIDE DEF o
  <2>3. b = [build[s] EXCEPT !.phase = "ending", !.out = o] BY DEF o
  <2>4. QED BY <1>2, <2>1, <2>2, <2>3 DEF Builds
<1> HIDE DEF b
<1>5. BuildOK(s, b, rev) BY <1>1, <1>2, <1>4 DEF BuildOK
<1>6. IInv' /\ AnswerStep /\ build'[s] = b /\ \A t \in Stages : t # s => build'[t] = build[t]
  BY <1>1, <1>3, <1>4, <1>5, BuildMoves
<1>7. build'[s].out # [what |-> "superseded"] BY <1>4, <1>6
<1>8. QED BY <1>6, <1>7, OthersSurvive

(* A build ends: its waiters learn its outcome, which carries their label. *)
LEMMA TerminatedStep ==
  ASSUME IInv, NEW s \in Stages, Terminated(s)
  PROVE  IInv' /\ AnswerStep /\ SurvivorStep
<1> DEFINE b == build[s]
           Waits(q) == pc[q] = "waiting" /\ local[q].stage = s /\ local[q].got = None
<1>1. /\ b # None /\ b.phase = "ending" /\ build' = [build EXCEPT ![s] = None]
      /\ local' = [q \in Requests |->
                     IF Waits(q) THEN [local[q] EXCEPT !.got = b.out] ELSE local[q]]
      /\ UNCHANGED <<source, pc, answer, expired, transition>>
  BY DEF Terminated
<1>2. b \in Builds /\ BuildOK(s, b, rev) BY <1>1 DEF IInv, TypeOK, BuildsOK
<1>3. b.out \in Outcomes BY <1>1, <1>2 DEF BuildOK, Builds
<1>4. /\ rev' = rev /\ lease' = lease /\ pc' = pc /\ answer' = answer /\ expired' = expired
      /\ transition' = transition
  BY <1>1 DEF source
<1>5. /\ build' \in [Stages -> Builds \cup {None}] /\ build'[s] = None
      /\ \A t \in Stages : t # s => build'[t] = build[t]
  BY <1>1 DEF IInv, TypeOK
<1>6. \A q \in Requests :
        /\ Waits(q) => local'[q] = [local[q] EXCEPT !.got = b.out]
        /\ ~Waits(q) => local'[q] = local[q]
  BY <1>1
<1>7. \A q \in Requests : local'[q] \in Locals
  <2> SUFFICES ASSUME NEW q \in Requests PROVE local'[q] \in Locals OBVIOUS
  <2>1. local[q] \in Locals BY DEF IInv, TypeOK
  <2>2. [local[q] EXCEPT !.got = b.out] \in Locals BY <1>3, <2>1 DEF Locals
  <2>3. QED BY <1>6, <2>1, <2>2
<1>8. local' \in [Requests -> Locals] BY <1>1, <1>7
<1>9. CachesOK' /\ {releaseCache', publicCache', retained'} \subseteq Entries \cup {None}
  <2>1. CASE b.out.what = "payload" /\ StillCurrent(b.epoch)
    <3> DEFINE p == b.out.payload
    <3>1. p \in Payloads BY <1>3, <2>1 DEF Outcomes
    <3>2. b.epoch = Epoch BY <2>1 DEF StillCurrent
    <3>3. Made(s, Epoch, p, rev)
      <4>1. b.out # None BY <1>3, NoneAssumption
      <4>2. QED BY <1>1, <1>2, <2>1, <3>2, <4>1 DEF BuildOK
    <3>4. /\ [epoch |-> Epoch, payload |-> p] \in Entries
          /\ EntryOK(s, [epoch |-> Epoch, payload |-> p], rev)
      BY <3>1, <3>3, CurrentPayload DEF IInv
    <3>5. Remember(s, [epoch |-> Epoch, payload |-> p])
      BY <2>1, <3>2 DEF Terminated
    <3>6. QED BY <1>4, <3>4, <3>5, Remembered
  <2>2. CASE ~(b.out.what = "payload" /\ StillCurrent(b.epoch))
    <3>1. UNCHANGED cacheVars BY <2>2 DEF Terminated
    <3>2. releaseCache' = releaseCache /\ publicCache' = publicCache /\ retained' = retained
      BY <3>1 DEF cacheVars
    <3>3. QED BY <1>4, <3>2 DEF IInv, CachesOK, TypeOK
  <2>3. QED BY <2>1, <2>2
<1>10. TypeOK' BY <1>4, <1>5, <1>8, <1>9 DEF IInv, TypeOK
<1>11. RequestsOK'
  <2> SUFFICES ASSUME NEW q \in Requests
               PROVE  /\ RequestOK(q, pc'[q], local'[q], answer'[q], rev')
                      /\ LinkOK(pc'[q], local'[q], build')
    BY DEF RequestsOK
  <2> DEFINE l == local[q]
             k == local'[q]
  <2>1. RequestOK(q, pc[q], l, answer[q], rev) /\ LinkOK(pc[q], l, build)
        /\ l \in Locals /\ l.stage \in Stages
    BY DEF IInv, RequestsOK, TypeOK, Locals
  <2>2. CASE Waits(q)
    <3>1. /\ k.stage = s /\ k.outer = l.outer /\ k.inner = l.inner /\ k.base = l.base
          /\ k.spare = l.spare /\ k.got = b.out /\ l.stage = s /\ pc[q] = "waiting"
      BY <1>6, <2>1, <2>2 DEF Locals
    <3>2. b.out # None BY <1>3, NoneAssumption
    <3>3. LabelOf(k) = LabelOf(l) /\ LabelOf(l) = b.epoch
      BY <2>1, <2>2, <3>1 DEF LabelOf, LinkOK
    <3> HIDE DEF k
    <3>4. k.got.what = "payload" => Made(k.stage, LabelOf(k), k.got.payload, rev)
      BY <1>1, <1>2, <3>1, <3>2, <3>3 DEF BuildOK
    <3>5. RequestOK(q, "waiting", l, answer[q], rev) BY <2>1, <3>1
    <3>6. RequestOK(q, "waiting", k, answer[q], rev)
      BY <3>1, <3>3, <3>4, <3>5 DEF RequestOK
    <3>7. LinkOK("waiting", k, build') BY <3>1, <3>2 DEF LinkOK
    <3>8. QED BY <1>4, <3>1, <3>6, <3>7 DEF k
  <2>3. CASE ~Waits(q)
    <3>1. k = l BY <1>6, <2>3
    <3>2. LinkOK(pc[q], l, build') BY <1>5, <2>1, <2>3 DEF LinkOK
    <3>3. QED BY <1>4, <2>1, <3>1, <3>2
  <2>4. QED BY <2>2, <2>3
<1>12. BuildsOK'
  <2> SUFFICES ASSUME NEW t \in Stages PROVE BuildOK(t, build'[t], rev') BY DEF BuildsOK
  <2>1. BuildOK(t, build[t], rev) BY DEF IInv, BuildsOK
  <2>2. BuildOK(t, None, rev) BY DEF BuildOK
  <2>3. QED BY <1>4, <1>5, <2>1, <2>2
<1>13. QueuesOK'
  <2> SUFFICES ASSUME NEW t \in Stages PROVE QueueOK(t)' BY DEF QueuesOK
  <2>1. QueueOK(t) /\ transition[t] \in Seq(Requests) BY DEF IInv, QueuesOK, TypeOK
  <2>2. \A n \in 1..Len(transition[t]) :
          transition[t][n] \in Requests /\ local'[transition[t][n]] = local[transition[t][n]]
    <3> SUFFICES ASSUME NEW n \in 1..Len(transition[t])
                 PROVE  /\ transition[t][n] \in Requests
                        /\ local'[transition[t][n]] = local[transition[t][n]]
      OBVIOUS
    <3>1. transition[t][n] \in Requests BY <2>1
    <3>2. ~Waits(transition[t][n]) BY <2>1 DEF QueueOK
    <3>3. QED BY <1>6, <3>1, <3>2
  <2>3. build'[t] # None => build'[t] = build[t] BY <1>5
  <2>4. QED BY <1>4, <2>1, <2>2, <2>3 DEF QueueOK
<1>14. AnswerStep BY <1>4 DEF AnswerStep
<1>15. SurvivorStep BY <1>5, OthersSurvive
<1>16. QED BY <1>10, <1>11, <1>12, <1>9, <1>13, <1>14, <1>15 DEF IInv

------------------------------------------------------------------------------
(* The theorems.                                                              *)

LEMMA NextIInv == IInv /\ [Next]_vars => IInv' /\ AnswerStep /\ SurvivorStep
<1> SUFFICES ASSUME IInv, [Next]_vars PROVE IInv' /\ AnswerStep /\ SurvivorStep OBVIOUS
<1>1. CASE Publish \/ LeaseChanges \/ CacheExpires BY <1>1, SourceStep
<1>2. ASSUME NEW r \in Requests, RequestStep(r) PROVE IInv' /\ AnswerStep /\ SurvivorStep
  BY <1>2, LoopStep, InnerStep, EnrichStep, ResumeStep, TimesOutStep DEF RequestStep
<1>3. ASSUME NEW r \in Requests, BudgetEnds(r) PROVE IInv' /\ AnswerStep /\ SurvivorStep
  BY <1>3, BudgetEndsStep
<1>4. ASSUME NEW s \in Stages, TransitionStep(s) PROVE IInv' /\ AnswerStep /\ SurvivorStep
  BY <1>4, JoinStep, CreateStep, SupersedeStep DEF TransitionStep
<1>5. ASSUME NEW s \in Stages, WorkerReads(s) \/ Message(s) \/ WorkerFails(s) \/ Terminated(s)
      PROVE  IInv' /\ AnswerStep /\ SurvivorStep
  BY <1>5, WorkerReadsStep, MessageStep, WorkerFailsStep, TerminatedStep
<1>6. CASE UNCHANGED vars BY <1>6, StutterStep
<1>7. QED BY <1>1, <1>2, <1>3, <1>4, <1>5, <1>6 DEF Next, Done

(* The inductive invariant of the builds, for every set of requests. *)
THEOREM BuildsInvariant == Spec => []IInv
<1>1. IInv /\ [Next]_vars => IInv' BY NextIInv
<1>2. QED BY <1>1, InitIInv, PTL DEF Spec

(* Requests, builds, queues and caches keep their types. *)
THEOREM BuildsTypeCorrect == Spec => []TypeOK
<1>1. IInv => TypeOK BY DEF IInv
<1>2. QED BY <1>1, BuildsInvariant, PTL

(* Every answer holds the rows of one revision, that of its label, and one   *)
(* that is not retained the current ones, in any number of rounds.           *)
THEOREM AnswersHoldCurrentRows == Spec => AnswersAreCurrent
<1>1. AnswerStep =>
        [\A r \in Requests :
           answer'[r] # answer[r] =>
             LET payload == answer'[r].payload
             IN /\ payload.rev = payload.epoch.rev /\ payload.extra = payload.epoch.rev
                /\ answer'[r].how = "current" =>
                     payload.rev = rev /\ (lease => payload.epoch.lease)]_vars
  BY DEF AnswerStep, Right, Sound
<1>2. IInv /\ [Next]_vars => AnswerStep BY NextIInv
<1>3. QED BY <1>1, <1>2, BuildsInvariant, PTL DEF Spec, AnswersAreCurrent

(* No request cancels a build made for a later revision than its own. *)
THEOREM NewerBuildsSurvive == Spec => NewerBuildSurvives
<1>1. SurvivorStep =>
        [\A s \in Stages :
           build[s] # None /\ build[s].phase # "ending" /\ build'[s] # None
             /\ build'[s].out = [what |-> "superseded"]
             => build[s].epoch.rev <= Label(Head(transition[s])).rev]_vars
  BY DEF SurvivorStep
<1>2. IInv /\ [Next]_vars => SurvivorStep BY NextIInv
<1>3. QED BY <1>1, <1>2, BuildsInvariant, PTL DEF Spec, NewerBuildSurvives
=============================================================================
