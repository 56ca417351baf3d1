----------------------------- MODULE PayloadBuilds -----------------------------
(***************************************************************************)
(* The payload builds of src/routes/api.ts: releaseApiPayloadsForCurrent-  *)
(* Epoch and publicPayloadForCurrentEpoch, the build managers they share,  *)
(* one for each stage, and the worker threads that read the database on    *)
(* their own.  A step is the code between two awaits; the database may     *)
(* change between any two steps, because other processes write it.         *)
(*                                                                         *)
(* The source epoch is a digest.  What it tells apart is kept: the score-  *)
(* source revision, which only grows (score_api_source_epoch), and whether *)
(* a refresh lease is active, which comes and goes.  A payload is the      *)
(* epoch of the snapshot it is labelled with and the revisions its rows    *)
(* were read at.                                                           *)
(***************************************************************************)
EXTENDS Naturals, Sequences

CONSTANTS
  Requests,
  Public,     \* the requests for /public; the others are for /releases
  MaxRev,     \* bound on the revision
  None

ASSUME BuildsAssumption ==
  /\ Public \subseteq Requests
  /\ MaxRev \in Nat

VARIABLES
  rev, lease,     \* the source
  pc,             \* pc[r]: loop, inner, based, queued, waiting, answered, failed
  local,          \* local[r]: what r keeps over its awaits: stage (whose build
                  \* it waits for), outer and inner (the epochs of its loops),
                  \* base (its release payload), spare (a retained payload of
                  \* the epoch) and got (how the awaited build has ended)
  answer,         \* answer[r]: what r was answered with
  expired,        \* the requests whose budget is used up
  build,          \* build[s]: the active build of stage s
  transition,     \* transition[s]: the queue of serialize...BuildTransition
  releaseCache, publicCache, retained

source == <<rev, lease>>
requestVars == <<pc, local, answer, expired>>
buildVars == <<build, transition>>
cacheVars == <<releaseCache, publicCache, retained>>
vars == <<source, requestVars, buildVars, cacheVars>>

Stages == {"release", "public"}
Ended == {"answered", "failed"}
Epoch == [rev |-> rev, lease |-> lease]

(* An entry of a cache that answers for an epoch. *)
Hits(entry, epoch) == entry # None /\ entry.epoch = epoch

(* Mutant: the epoch is not compared again after an await. *)
NoSecondLook(epoch) == TRUE
StillCurrent(epoch) == epoch = Epoch

Fresh == [stage |-> "release", outer |-> None, inner |-> None, base |-> None,
          spare |-> None, got |-> None]

Init ==
  /\ rev = 0
  /\ lease \in BOOLEAN
  /\ pc = [r \in Requests |-> IF r \in Public THEN "loop" ELSE "inner"]
  /\ local = [r \in Requests |-> Fresh]
  /\ answer = [r \in Requests |-> None]
  /\ expired = {}
  /\ build = [s \in Stages |-> None]
  /\ transition = [s \in Stages |-> <<>>]
  /\ releaseCache = None /\ publicCache = None /\ retained = None

-----------------------------------------------------------------------------
(* The source, and the age of what is cached *)

(* Rows change, in this process or in another; the end of a refresh of     *)
(* this process also empties the public cache (invalidateCache).           *)
Publish ==
  /\ rev < MaxRev
  /\ rev' = rev + 1
  /\ publicCache' \in {publicCache, None}
  /\ UNCHANGED <<lease, requestVars, buildVars, releaseCache, retained>>

LeaseChanges ==
  /\ lease' = ~lease
  /\ UNCHANGED <<rev, requestVars, buildVars, cacheVars>>

CacheExpires ==
  /\ publicCache # None
  /\ publicCache' = None
  /\ UNCHANGED <<source, requestVars, buildVars, releaseCache, retained>>

-----------------------------------------------------------------------------
(* A request *)

Goes(r, label, l) ==
  /\ pc' = [pc EXCEPT ![r] = label]
  /\ local' = [local EXCEPT ![r] = l]
  /\ UNCHANGED <<answer, expired>>

Ends(r, label, a) ==
  /\ pc' = [pc EXCEPT ![r] = label]
  /\ local' = [local EXCEPT ![r] = Fresh]
  /\ answer' = [answer EXCEPT ![r] = a]
  /\ expired' = expired \ {r}

Fails(r) == Ends(r, "failed", None)
Answered(r, how, payload) == Ends(r, "answered", [how |-> how, payload |-> payload])

(* A retained payload instead of a current one.  retainedPublicPayload     *)
(* refuses when the release list has changed or the payload is too old.    *)
Fallback(r, usable) ==
  \/ usable /\ Answered(r, "retained", retained.payload)
  \/ Fails(r)

Remember(s, entry) ==
  IF s = "release"
  THEN releaseCache' = entry /\ UNCHANGED <<publicCache, retained>>
  ELSE publicCache' = entry /\ retained' = entry /\ UNCHANGED releaseCache

Enqueue(r, l) ==
  /\ Goes(r, "queued", l)
  /\ transition' = [transition EXCEPT ![l.stage] = Append(@, r)]

(* The head of publicPayloadForCurrentEpoch's loop.  It fails when the     *)
(* budget is used up, and when scorePublicationContextSnapshot throws.     *)
Loop(r) ==
  /\ pc[r] = "loop"
  /\ \/ /\ Fails(r)
        /\ UNCHANGED cacheVars
     \/ /\ r \notin expired /\ lease
        /\ Fallback(r, retained # None)
        /\ UNCHANGED cacheVars
     \/ /\ r \notin expired /\ ~lease /\ Hits(publicCache, Epoch)
        /\ Answered(r, "current", publicCache.payload)
        /\ Remember("public", publicCache)
     \/ /\ r \notin expired /\ ~lease /\ ~Hits(publicCache, Epoch)
        /\ \E spare \in {None} \cup {e.payload : e \in {e \in {retained} : Hits(e, Epoch)}} :
             Goes(r, "inner", [Fresh EXCEPT !.outer = Epoch, !.spare = spare])
        /\ UNCHANGED cacheVars
  /\ UNCHANGED <<source, buildVars>>

(* What releaseApiPayloadsForCurrentEpoch returns is the answer to a       *)
(* release request, and the base of a public one.                          *)
Deliver(r, payload) ==
  IF r \in Public
  THEN Goes(r, "based", [local[r] EXCEPT !.base = payload, !.inner = None, !.got = None])
  ELSE Answered(r, "current", payload)

(* The head of releaseApiPayloadsForCurrentEpoch's loop; it fails likewise. *)
Inner(r) ==
  /\ pc[r] = "inner"
  /\ \/ /\ Fails(r)
        /\ UNCHANGED transition
     \/ /\ r \notin expired /\ Hits(releaseCache, Epoch)
        /\ Deliver(r, releaseCache.payload)
        /\ UNCHANGED transition
     \/ /\ r \notin expired /\ ~Hits(releaseCache, Epoch)
        /\ Enqueue(r, [local[r] EXCEPT !.inner = Epoch])
  /\ UNCHANGED <<source, build, cacheVars>>

(* The public request goes on with its release payload. *)
Enrich(r) ==
  /\ pc[r] = "based"
  /\ IF StillCurrent(local[r].outer)
     THEN Enqueue(r, [local[r] EXCEPT !.stage = "public"])
     ELSE Goes(r, "loop", Fresh) /\ UNCHANGED transition
  /\ UNCHANGED <<source, build, cacheVars>>

(* Mutant: the release payload is asked for with the epoch of the caller. *)
LabelOfCaller(r) == IF r \in Public THEN local[r].outer ELSE local[r].inner
Label(r) == IF local[r].stage = "public" THEN local[r].outer ELSE local[r].inner

(* ensureManaged...Build, run by the transition queue. *)
NewBuild(r) ==
  [epoch |-> Label(r), phase |-> "working", out |-> None,
   base |-> IF local[r].stage = "public" THEN local[r].base ELSE None]

Joined(s, r) ==
  /\ transition' = [transition EXCEPT ![s] = Tail(@)]
  /\ IF s = "public" /\ local[r].spare # None
     THEN Answered(r, "retained", local[r].spare)
     ELSE Goes(r, "waiting", local[r])

Join(s) ==
  /\ transition[s] # <<>>
  /\ Hits(build[s], Label(Head(transition[s])))
  /\ Joined(s, Head(transition[s]))
  /\ UNCHANGED <<source, build, cacheVars>>

Create(s) ==
  /\ transition[s] # <<>>
  /\ build[s] = None
  /\ build' = [build EXCEPT ![s] = NewBuild(Head(transition[s]))]
  /\ Joined(s, Head(transition[s]))
  /\ UNCHANGED <<source, cacheVars>>

(* The build of another epoch is cancelled, and its termination awaited.   *)
Supersede(s) ==
  /\ transition[s] # <<>>
  /\ build[s] # None
  /\ build[s].phase # "ending"
  /\ ~Hits(build[s], Label(Head(transition[s])))
  /\ build' = [build EXCEPT ![s].phase = "ending",
                            ![s].out = [what |-> "superseded"]]
  /\ UNCHANGED <<source, requestVars, transition, cacheVars>>

(* No payload: a retained one of the current epoch may do for a public     *)
(* build, a release build has none.                                        *)
WithoutPayload(r) ==
  IF local[r].stage = "public" THEN Fallback(r, Hits(retained, Epoch)) ELSE Fails(r)

(* await build.promise has an outcome: an answer, another round, or an     *)
(* error.                                                                  *)
Resume(r) ==
  LET got == local[r].got
  IN  /\ pc[r] = "waiting"
      /\ got # None
      /\ \/ /\ got.what = "payload" /\ StillCurrent(Label(r))
            /\ Remember(local[r].stage, [epoch |-> Label(r), payload |-> got.payload])
            /\ IF local[r].stage = "public"
               THEN Answered(r, "current", got.payload)
               ELSE Deliver(r, got.payload)
         \/ /\ got.what = "payload" => ~StillCurrent(Label(r))
            /\ got.what # "error"
            /\ IF local[r].stage = "public"
               THEN Goes(r, "loop", Fresh)
               ELSE Goes(r, "inner", [local[r] EXCEPT !.inner = None, !.got = None])
            /\ UNCHANGED cacheVars
         \/ /\ got.what = "error"
            /\ WithoutPayload(r)
            /\ UNCHANGED cacheVars
      /\ UNCHANGED <<source, buildVars>>

(* Mutant: an await without a budget. *)
NeverTimesOut(r) == FALSE

(* publicPayloadWithinBudget gives up while the build goes on. *)
TimesOut(r) ==
  /\ pc[r] = "waiting"
  /\ r \in expired
  /\ WithoutPayload(r)
  /\ UNCHANGED <<source, buildVars, cacheVars>>

BudgetEnds(r) ==
  /\ r \notin expired
  /\ pc[r] \notin Ended
  /\ expired' = expired \cup {r}
  /\ UNCHANGED <<source, pc, local, answer, buildVars, cacheVars>>

-----------------------------------------------------------------------------
(* A build and its worker thread *)

(* What the worker makes of the rows it reads: the label is the one it was *)
(* given, whatever the epoch is by now.                                    *)
Payload(b) ==
  IF b.base = None
  THEN [epoch |-> b.epoch, rev |-> rev, extra |-> rev]
  ELSE [epoch |-> b.base.epoch, rev |-> b.base.rev, extra |-> rev]

(* One read transaction; the source may have changed too often for it.     *)
WorkerReads(s) ==
  /\ build[s] # None
  /\ build[s].phase = "working"
  /\ \E out \in {[what |-> "payload", payload |-> Payload(build[s])],
                 [what |-> "changed"], [what |-> "error"]} :
       build' = [build EXCEPT ![s].phase = "read", ![s].out = out]
  /\ UNCHANGED <<source, requestVars, transition, cacheVars>>

(* The message of the worker arrives, and the worker is terminated.        *)
Message(s) ==
  /\ build[s] # None
  /\ build[s].phase = "read"
  /\ build' = [build EXCEPT ![s].phase = "ending"]
  /\ UNCHANGED <<source, requestVars, transition, cacheVars>>

(* It crashes, exits or takes too long. *)
WorkerFails(s) ==
  /\ build[s] # None
  /\ build[s].phase # "ending"
  /\ build' = [build EXCEPT ![s].phase = "ending", ![s].out = [what |-> "error"]]
  /\ UNCHANGED <<source, requestVars, transition, cacheVars>>

(* The worker is gone: everybody who joined the build learns how it ended, *)
(* and a payload is remembered if its epoch is still current.              *)
Terminated(s) ==
  /\ build[s] # None
  /\ build[s].phase = "ending"
  /\ build' = [build EXCEPT ![s] = None]
  /\ local' = [r \in Requests |->
                 IF pc[r] = "waiting" /\ local[r].stage = s /\ local[r].got = None
                 THEN [local[r] EXCEPT !.got = build[s].out] ELSE local[r]]
  /\ IF build[s].out.what = "payload" /\ StillCurrent(build[s].epoch)
     THEN Remember(s, [epoch |-> build[s].epoch, payload |-> build[s].out.payload])
     ELSE UNCHANGED cacheVars
  /\ UNCHANGED <<source, pc, answer, expired, transition>>

-----------------------------------------------------------------------------
RequestStep(r) == Loop(r) \/ Inner(r) \/ Enrich(r) \/ Resume(r) \/ TimesOut(r)
TransitionStep(s) == Join(s) \/ Create(s) \/ Supersede(s)

Done ==
  /\ \A r \in Requests : pc[r] \in Ended
  /\ UNCHANGED vars

Next ==
  \/ Publish \/ LeaseChanges \/ CacheExpires \/ Done
  \/ \E r \in Requests : RequestStep(r) \/ BudgetEnds(r)
  \/ \E s \in Stages : \/ TransitionStep(s)
                       \/ WorkerReads(s) \/ Message(s) \/ WorkerFails(s) \/ Terminated(s)

Spec == Init /\ [][Next]_vars

(* The event loop runs what is ready, budgets end and terminated threads    *)
(* end; nothing is asked of what a worker does, or of the source.          *)
FairSpec ==
  /\ Spec
  /\ WF_vars(\/ \E r \in Requests : RequestStep(r)
             \/ \E s \in Stages : TransitionStep(s))
  /\ WF_vars(\E r \in Requests : BudgetEnds(r))
  /\ WF_vars(\E s \in Stages : Terminated(s))

-----------------------------------------------------------------------------
(* Properties *)

Epochs == [rev : 0..MaxRev, lease : BOOLEAN]
Payloads == [epoch : Epochs, rev : 0..MaxRev, extra : 0..MaxRev]
Outcomes == [what : {"payload"}, payload : Payloads]
            \cup [what : {"changed", "superseded", "error"}]
Entries == [epoch : Epochs, payload : Payloads]
Answers == [how : {"current", "retained"}, payload : Payloads]
Labels == {"loop", "inner", "based", "queued", "waiting"} \cup Ended
Locals == [stage : Stages, outer : Epochs \cup {None}, inner : Epochs \cup {None},
           base : Payloads \cup {None}, spare : Payloads \cup {None},
           got : Outcomes \cup {None}]
Builds == [epoch : Epochs, base : Payloads \cup {None},
           phase : {"working", "read", "ending"}, out : Outcomes \cup {None}]

ASSUME NoneAssumption ==
  /\ None \notin Epochs /\ None \notin Payloads /\ None \notin Outcomes
  /\ None \notin Entries /\ None \notin Answers /\ None \notin Builds

TypeOK ==
  /\ rev \in 0..MaxRev /\ lease \in BOOLEAN
  /\ pc \in [Requests -> Labels] /\ local \in [Requests -> Locals]
  /\ answer \in [Requests -> Answers \cup {None}]
  /\ expired \in SUBSET Requests
  /\ build \in [Stages -> Builds \cup {None}]
  /\ transition \in [Stages -> Seq(Requests)]
  /\ {releaseCache, publicCache, retained} \subseteq Entries \cup {None}

(* Whatever is published while a build reads, no answer, new or retained,  *)
(* mixes rows of two revisions, and every answer carries the epoch whose   *)
(* rows it holds.  One that is not marked as retained holds the rows that  *)
(* are current when it is given, and while a refresh is active none is     *)
(* given that was built as if there were none (such payloads are           *)
(* actionable).                                                            *)
AnswersAreCurrent ==
  [][\A r \in Requests :
       answer'[r] # answer[r] =>
         LET payload == answer'[r].payload
         IN /\ payload.rev = payload.epoch.rev /\ payload.extra = payload.epoch.rev
            /\ answer'[r].how = "current" =>
                 payload.rev = rev /\ (lease => payload.epoch.lease)]_vars

(* A build is cancelled only for a request that saw the source later than  *)
(* the one the build was made for: requests do not cancel each other's     *)
(* builds back and forth.                                                  *)
NewerBuildSurvives ==
  [][\A s \in Stages :
       build[s] # None /\ build[s].phase # "ending" /\ build'[s] # None
         /\ build'[s].out = [what |-> "superseded"]
         => build[s].epoch.rev <= Label(Head(transition[s])).rev]_vars

(* Every request is answered or fails, however often the source changes    *)
(* and whatever the workers do.                                            *)
EveryRequestEnds == <>(\A r \in Requests : pc[r] \in Ended)
=============================================================================
