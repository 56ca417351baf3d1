---------------------------- MODULE RequestLimiter ----------------------------
(***************************************************************************)
(* GraphqlRequestLimiter of src/lib/github.ts and the retry loop of        *)
(* createGraphqlRequester that sends every attempt through it.  A step is  *)
(* one callback, but for drain(): each turn of its loop is a step, and     *)
(* while it loops no other callback runs.  Every instant the code stores   *)
(* is only ever compared with now, so the model keeps the time that is     *)
(* left until it: no clock, and no bound on time.  Callbacks and timers    *)
(* may be late.                                                            *)
(***************************************************************************)
EXTENDS Integers, Sequences, FiniteSets, SequencesExt

CONSTANTS
  Callers,        \* request() calls, each with its own abort signal
  Concurrency,    \* requests in flight
  Spacing,        \* minStartSpacingMs
  CooldownBase,   \* cooldownBaseMs
  CooldownMax,    \* cooldownMaxMs
  Delays,         \* delays a response asks for, or the backoff chooses
  MaxRetries      \* maxRetries

ASSUME LimiterAssumption ==
  /\ IsFiniteSet(Callers)
  /\ Concurrency \in Nat \ {0}
  /\ Spacing \in Nat
  /\ CooldownBase \in Nat
  /\ CooldownMax \in Nat
  /\ Delays \subseteq Nat
  /\ MaxRetries \in Nat

(* Evaluated by TLC: no prover knows what a power is. *)
ASSUME PowersAssumption == \A n \in 0..19 : 2 ^ n \in Nat

VARIABLES
  state,      \* state[c]: calling, queued, running, answered, sleeping,
              \* returned or threw
  aborted,    \* the callers whose signal is aborted
  attempt,    \* attempt[c]: how often c has retried
  answer,     \* answer[c]: what became of an attempt, until it settles
  rest,       \* rest[c]: how long it still sleeps
  queue,      \* pending requests, first come first served
  active,     \* requests in flight, as the limiter counts them
  drain,      \* drain(): off, looping, or waiting for the next start
  timer,      \* how long it still waits
  woken,      \* wakeDrain has ended that wait
  due,        \* a call of drain() is queued as a microtask
  nextStart, blocked, single,   \* time left until nextStartAt, blockedUntil
                                \* and singleFlightUntil
  level,      \* rateLimitLevel
  told        \* time left until the last instant a response asked for

callerVars == <<state, aborted, attempt, answer, rest>>
limiterVars == <<queue, active, drain, timer, woken, due>>
paceVars == <<nextStart, blocked, single, level, told>>
vars == <<callerVars, limiterVars, paceVars>>

Longer(a, b) == IF a > b THEN a ELSE b
Shorter(a, b) == IF a < b THEN a ELSE b
Ended == {"returned", "threw"}
NoAnswer == [kind |-> "none", delay |-> 0]

Init ==
  /\ state = [c \in Callers |-> "calling"]
  /\ aborted = {}
  /\ attempt = [c \in Callers |-> 0]
  /\ answer = [c \in Callers |-> NoAnswer]
  /\ rest = [c \in Callers |-> 0]
  /\ queue = <<>>
  /\ active = 0
  /\ drain = "off"
  /\ timer = 0
  /\ woken = FALSE
  /\ due = FALSE
  /\ nextStart = 0 /\ blocked = 0 /\ single = 0
  /\ level = 0
  /\ told = 0

Become(c, s) == state' = [state EXCEPT ![c] = s]

(* A callback runs between two turns of the event loop, never inside one.  *)
Idle == drain # "looping"

(* drain() returns at once when another call of it is under way. *)
EnterDrain == drain' = IF drain = "off" THEN "looping" ELSE drain
WakeDrain == woken' = (woken \/ drain = "waiting")

(* Mutant: nobody calls drain() again. *)
DrainNever == due' = due
DrainSoon == due' = TRUE

(* execute() when its task has ended: the place is free again. *)
FreePlace ==
  /\ active' = active - 1
  /\ WakeDrain
  /\ DrainSoon

-----------------------------------------------------------------------------
(* The loop of drain() *)

(* One request at a time while a rate limit is fresh. *)
Allowed == IF single > 0 THEN 1 ELSE Concurrency
Earliest == Longer(nextStart, blocked)
HasWork == queue # <<>> /\ active < Allowed

DrainEnds ==
  /\ drain = "looping"
  /\ ~HasWork
  /\ drain' = "off"
  /\ UNCHANGED <<callerVars, queue, active, timer, woken, due, paceVars>>

DrainWaits ==
  /\ drain = "looping"
  /\ HasWork
  /\ Earliest > 0
  /\ drain' = "waiting"
  /\ timer' = Earliest
  /\ woken' = FALSE
  /\ UNCHANGED <<callerVars, queue, active, due, paceVars>>

(* The head of the queue is started.  Its signal is not aborted: the abort *)
(* listener takes a request out of the queue in the step of the abort.     *)
DrainStarts ==
  /\ drain = "looping"
  /\ HasWork
  /\ Earliest = 0
  /\ Become(Head(queue), "running")
  /\ queue' = Tail(queue)
  /\ active' = active + 1
  /\ nextStart' = Spacing
  /\ UNCHANGED <<aborted, attempt, answer, rest, drain, timer, woken, due,
                 blocked, single, level, told>>

(* The wait ends by its timer or by wakeDrain; the loop goes on. *)
DrainResumes ==
  /\ drain = "waiting"
  /\ woken \/ timer = 0
  /\ drain' = "looping"
  /\ UNCHANGED <<callerVars, queue, active, timer, woken, due, paceVars>>

DrainCalled ==
  /\ Idle
  /\ due
  /\ due' = FALSE
  /\ EnterDrain
  /\ UNCHANGED <<callerVars, queue, active, timer, woken, paceVars>>

-----------------------------------------------------------------------------
(* A caller *)

(* run(): queue the attempt and drain. *)
Call(c) ==
  /\ Idle
  /\ state[c] = "calling"
  /\ c \notin aborted
  /\ Become(c, "queued")
  /\ queue' = Append(queue, c)
  /\ EnterDrain
  /\ UNCHANGED <<aborted, attempt, answer, rest, active, timer, woken, due,
                 paceVars>>

CallRefused(c) ==
  /\ Idle
  /\ state[c] = "calling"
  /\ c \in aborted
  /\ Become(c, "threw")
  /\ UNCHANGED <<aborted, attempt, answer, rest, limiterVars, paceVars>>

(* The cooldown doubles while limits keep coming. *)
NextLevel == IF single > 0 THEN Shorter(level + 1, 20) ELSE 1
Adaptive(l) == Shorter(CooldownMax, CooldownBase * 2 ^ (l - 1))

Note(l, until) ==
  /\ level' = l
  /\ blocked' = until
  /\ single' = Longer(single, until + Adaptive(l))

(* Mutants: a shorter cooldown replaces a longer one; cooldowns add up.    *)
NoteLastRateLimit(d) ==
  Note(NextLevel, Longer(Adaptive(NextLevel), d))
NoteAddedRateLimit(d) ==
  Note(NextLevel, blocked + Longer(Adaptive(NextLevel), d))

(* noteRateLimit *)
NoteRateLimit(d) ==
  Note(NextLevel, Longer(blocked, Longer(Adaptive(NextLevel), d)))

(* The request ends: data, an error that may be retried after a delay, or  *)
(* one that may not; both kinds may be a rate limit.  Time limits on the   *)
(* request and on its body, and the caller's abort, end it too.            *)
Answer(c) ==
  /\ Idle
  /\ state[c] = "running"
  /\ Become(c, "answered")
  /\ \E kind \in {"data", "retryable", "fatal"}, d \in Delays :
       /\ answer' = [answer EXCEPT ![c] = [kind |-> kind, delay |-> d]]
       /\ \/ UNCHANGED <<woken, paceVars>>
          \/ /\ kind # "data"
             /\ NoteRateLimit(d)
             /\ told' = Longer(told, d)
             /\ WakeDrain
             /\ nextStart' = nextStart
  /\ UNCHANGED <<aborted, attempt, rest, queue, active, drain, timer, due>>

(* execute() goes on after its task, and then the retry loop. *)
Settle(c) ==
  /\ Idle
  /\ state[c] = "answered"
  /\ FreePlace
  /\ IF c \notin aborted /\ answer[c].kind = "retryable" /\ attempt[c] < MaxRetries
     THEN /\ Become(c, "sleeping")
          /\ rest' = [rest EXCEPT ![c] = answer[c].delay]
     ELSE /\ Become(c, IF c \notin aborted /\ answer[c].kind = "data"
                       THEN "returned" ELSE "threw")
          /\ rest' = rest
  /\ answer' = [answer EXCEPT ![c] = NoAnswer]
  /\ UNCHANGED <<aborted, attempt, queue, drain, timer, paceVars>>

Retry(c) ==
  /\ Idle
  /\ state[c] = "sleeping"
  /\ rest[c] = 0
  /\ attempt' = [attempt EXCEPT ![c] = @ + 1]
  /\ Become(c, "calling")
  /\ UNCHANGED <<aborted, answer, rest, limiterVars, paceVars>>

(* Mutant: the listener gives a place back. *)
AbortQueuedCounted(c) ==
  /\ Become(c, "threw")
  /\ queue' = SelectSeq(queue, LAMBDA b : b # c)
  /\ active' = active - 1

(* The abort listener of a queued request. *)
AbortQueued(c) ==
  /\ Become(c, "threw")
  /\ \E i \in 1..Len(queue) :
       /\ queue[i] = c
       /\ queue' = RemoveAt(queue, i)
  /\ active' = active

Abort(c) ==
  /\ Idle
  /\ c \notin aborted
  /\ state[c] \notin Ended
  /\ aborted' = aborted \cup {c}
  /\ \/ /\ state[c] = "queued"
        /\ AbortQueued(c)
        /\ WakeDrain
        /\ DrainSoon
     \/ /\ state[c] = "sleeping"
        /\ Become(c, "threw")
        /\ UNCHANGED <<queue, active, woken, due>>
     \/ /\ state[c] \in {"calling", "running", "answered"}
        /\ UNCHANGED <<state, queue, active, woken, due>>
  /\ UNCHANGED <<attempt, answer, rest, drain, timer, paceVars>>

-----------------------------------------------------------------------------
Less(t) == Longer(t - 1, 0)

Tick ==
  /\ timer' = Less(timer)
  /\ rest' = [c \in Callers |-> Less(rest[c])]
  /\ nextStart' = Less(nextStart)
  /\ blocked' = Less(blocked)
  /\ single' = Less(single)
  /\ told' = Less(told)
  /\ UNCHANGED <<state, aborted, attempt, answer, queue, active, drain, woken,
                 due, level>>

Done ==
  /\ \A c \in Callers : state[c] \in Ended
  /\ UNCHANGED vars

DrainStep ==
  DrainEnds \/ DrainWaits \/ DrainStarts \/ DrainResumes \/ DrainCalled

CallerStep(c) ==
  Call(c) \/ CallRefused(c) \/ Answer(c) \/ Settle(c) \/ Retry(c)

Next ==
  \/ DrainStep \/ Tick \/ Done
  \/ \E c \in Callers : CallerStep(c) \/ Abort(c)

Spec == Init /\ [][Next]_vars

(* Callbacks that are due are called, timers fire, and the time limits of  *)
(* fetchWithTimeout and readBoundedResponseBody end every request.         *)
FairSpec ==
  /\ Spec
  /\ WF_vars(Tick)
  /\ WF_vars(DrainStep)
  /\ \A c \in Callers : WF_vars(CallerStep(c))

-----------------------------------------------------------------------------
(* Properties *)

States == {"calling", "queued", "running", "answered", "sleeping"} \cup Ended
Answers == [kind : {"none", "data", "retryable", "fatal"}, delay : Nat]

TypeOK ==
  /\ state \in [Callers -> States]
  /\ aborted \in SUBSET Callers
  /\ attempt \in [Callers -> 0..MaxRetries]
  /\ answer \in [Callers -> Answers]
  /\ rest \in [Callers -> Nat]
  /\ queue \in Seq(Callers)
  /\ active \in Nat
  /\ drain \in {"off", "looping", "waiting"}
  /\ timer \in Nat
  /\ woken \in BOOLEAN
  /\ due \in BOOLEAN
  /\ nextStart \in Nat /\ blocked \in Nat /\ single \in Nat
  /\ level \in 0..20
  /\ told \in Nat

InFlight == {c \in Callers : state[c] \in {"running", "answered"}}

(* The limiter's own count is the number of requests in flight, on every   *)
(* path through aborts and errors, and stays within its limit.             *)
InFlightBounded == active = Cardinality(InFlight) /\ active <= Concurrency

(* No wakeup is lost: while a request is queued, drain() is under way, is  *)
(* about to be called, or will be when a request in flight settles.        *)
QueueHasDriver == queue # <<>> => drain # "off" \/ due \/ active > 0

(* However limits, retries and aborts overlap, the limiter blocks for no   *)
(* longer than the longest single cooldown, and goes on one at a time for  *)
(* no longer than one adaptive cooldown after that.                        *)
CooldownsDoNotAddUp ==
  \E b \in Delays \cup {CooldownMax} :
    blocked <= b /\ single <= b + CooldownMax

(* No request of any caller is started before the instant that a response  *)
(* to another one asked the client to wait for.                            *)
RetryAfterHonoured ==
  [][\A c \in Callers : state[c] = "queued" /\ state'[c] = "running"
        => told = 0]_vars

(* Nothing is sent for a caller after its abort. *)
AbortedNeverStarts ==
  [][\A c \in aborted : state'[c] = "running" => state[c] = "running"]_vars

(* Every call ends. *)
EveryCallEnds == \A c \in Callers : <>(state[c] \in Ended)
=============================================================================
