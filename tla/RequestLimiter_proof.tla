------------------------- MODULE RequestLimiter_proof -------------------------
(***************************************************************************)
(* Proofs about RequestLimiter for every finite set of callers, every      *)
(* concurrency and all delays.                                             *)
(***************************************************************************)
EXTENDS RequestLimiter, TLAPS, SequenceTheorems, FiniteSetTheorems

USE LimiterAssumption

-----------------------------------------------------------------------------
(* Numbers, queues and sets *)

LEMMA Comparing ==
  ASSUME NEW a \in Nat, NEW b \in Nat
  PROVE  /\ Longer(a, b) \in Nat /\ a <= Longer(a, b) /\ b <= Longer(a, b)
         /\ Longer(a, b) \in {a, b}
         /\ Shorter(a, b) \in Nat /\ Shorter(a, b) <= a /\ Shorter(a, b) <= b
BY DEF Longer, Shorter

LEMMA LessIsLess ==
  ASSUME NEW a \in Nat
  PROVE  /\ Less(a) \in Nat /\ Less(a) <= a
         /\ \A b \in Nat : a <= b => Less(a) <= Less(b)
BY DEF Less, Longer

LEMMA AdaptiveIsBounded ==
  ASSUME NEW l \in 1..20
  PROVE  Adaptive(l) \in Nat /\ Adaptive(l) <= CooldownMax
<1> DEFINE factor == 2 ^ (l - 1)
<1>1. l - 1 \in 0..19
  OBVIOUS
<1>2. factor \in Nat
  BY <1>1, PowersAssumption
<1> HIDE DEF factor
<1>3. CooldownBase * factor \in Nat
  BY <1>2
<1>4. Adaptive(l) = Shorter(CooldownMax, CooldownBase * factor)
  BY DEF Adaptive, factor
<1> QED BY <1>3, <1>4, Comparing

LEMMA NoteKeepsType ==
  ASSUME TypeOK, NEW d \in Nat, NoteRateLimit(d)
  PROVE  /\ level' \in 1..20
         /\ \E a, e \in Nat :
              /\ blocked' = e /\ e \in {a, blocked, d} /\ blocked <= e /\ d <= e
              /\ a <= CooldownMax
              /\ single' \in Nat /\ single' \in {single, e + a}
<1>1. NextLevel \in 1..20
  BY DEF TypeOK, NextLevel, Shorter
<1>2. PICK a \in Nat : a = Adaptive(NextLevel) /\ a <= CooldownMax
  BY <1>1, AdaptiveIsBounded
<1>3. blocked \in Nat /\ single \in Nat
  BY DEF TypeOK
<1>4. PICK e \in Nat : /\ e = Longer(blocked, Longer(a, d))
                       /\ e \in {a, blocked, d} /\ blocked <= e /\ d <= e
  BY <1>2, <1>3 DEF Longer
<1>5. level' = NextLevel /\ blocked' = e /\ single' = Longer(single, e + a)
  BY <1>2, <1>4 DEF NoteRateLimit, Note
<1>6. single' \in Nat /\ single' \in {single, e + a}
  BY <1>2, <1>3, <1>4, <1>5 DEF Longer
<1> QED BY <1>1, <1>2, <1>4, <1>5, <1>6

(* Taking one element out of a sequence. *)
LEMMA Removal ==
  ASSUME NEW S, NEW s \in Seq(S), NEW i \in 1..Len(s)
  PROVE  /\ RemoveAt(s, i) \in Seq(S)
         /\ Len(RemoveAt(s, i)) = Len(s) - 1
         /\ \A j \in 1..(Len(s) - 1) :
              RemoveAt(s, i)[j] = IF j < i THEN s[j] ELSE s[j + 1]
<1>0. PICK r : r = RemoveAt(s, i)
  OBVIOUS
<1>1. PICK n \in Nat : n = Len(s)
  OBVIOUS
<1>2. \A j \in 1..n : s[j] \in S
  BY <1>1
<1>3. PICK a : a = SubSeq(s, 1, i - 1)
  OBVIOUS
<1>4. PICK b : b = SubSeq(s, i + 1, n)
  OBVIOUS
<1>5. a \in Seq(S) /\ Len(a) = i - 1 /\ \A j \in 1..(i - 1) : a[j] = s[j]
  <2>1. \A j \in 1..(i - 1) : s[j] \in S
    BY <1>1, <1>2
  <2>2. i - 1 \in Int /\ 1 \in Int
    BY <1>1
  <2>3. /\ a \in Seq(S)
        /\ Len(a) = IF 1 <= i - 1 THEN i - 1 - 1 + 1 ELSE 0
        /\ \A j \in 1..(i - 1 - 1 + 1) : a[j] = s[1 + j - 1]
    BY <1>3, <2>1, <2>2, SubSeqProperties
  <2> QED BY <1>1, <2>3
<1>6. b \in Seq(S) /\ Len(b) = n - i /\ \A j \in 1..(n - i) : b[j] = s[i + j]
  <2>1. \A j \in (i + 1)..n : s[j] \in S
    BY <1>1, <1>2
  <2>2. i + 1 \in Int /\ n \in Int
    BY <1>1
  <2>3. /\ b \in Seq(S)
        /\ Len(b) = IF i + 1 <= n THEN n - (i + 1) + 1 ELSE 0
        /\ \A j \in 1..(n - (i + 1) + 1) : b[j] = s[i + 1 + j - 1]
    BY <1>4, <2>1, <2>2, SubSeqProperties
  <2>4. i \in Nat /\ 1 <= i /\ i <= n /\ n \in Nat
    BY <1>1
  <2>5. /\ n - (i + 1) + 1 = n - i
        /\ (IF i + 1 <= n THEN n - (i + 1) + 1 ELSE 0) = n - i
        /\ \A j \in 1..(n - i) : i + 1 + j - 1 = i + j
    BY <2>4
  <2> QED BY <2>3, <2>5
<1>7. r = a \o b
  BY <1>0, <1>1, <1>3, <1>4 DEF RemoveAt
<1>8. i \in 1..n
  BY <1>1
<1>9. /\ r \in Seq(S)
      /\ Len(r) = Len(a) + Len(b)
      /\ \A j \in 1..(Len(a) + Len(b)) :
           r[j] = IF j <= Len(a) THEN a[j] ELSE b[j - Len(a)]
  <2>1. a \in Seq(S) /\ b \in Seq(S)
    BY <1>5, <1>6
  <2>2. /\ a \o b \in Seq(S)
        /\ Len(a \o b) = Len(a) + Len(b)
        /\ \A j \in 1..(Len(a) + Len(b)) :
             (a \o b)[j] = IF j <= Len(a) THEN a[j] ELSE b[j - Len(a)]
    BY <2>1, ConcatProperties
  <2> QED BY <2>2, <1>7, Zenon
<1>10. Len(a) + Len(b) = n - 1
  BY <1>1, <1>5, <1>6, <1>8
<1>11. ASSUME NEW j \in 1..(n - 1)
       PROVE  r[j] = IF j < i THEN s[j] ELSE s[j + 1]
  <2>1. r[j] = IF j <= i - 1 THEN a[j] ELSE b[j - (i - 1)]
    BY <1>5, <1>9, <1>10
  <2>2. CASE j < i
    <3>1. j <= i - 1 /\ j \in 1..(i - 1)
      BY <1>1, <1>8, <2>2
    <3> QED BY <2>1, <2>2, <3>1, <1>5
  <2>3. CASE ~(j < i)
    <3>1. /\ j - (i - 1) \in 1..(n - i) /\ i + (j - (i - 1)) = j + 1
          /\ ~(j <= i - 1)
      BY <1>1, <1>8, <2>3
    <3> QED BY <2>1, <2>3, <3>1, <1>6
  <2> QED BY <2>2, <2>3
<1> QED BY <1>0, <1>1, <1>9, <1>10, <1>11

-----------------------------------------------------------------------------
(* The inductive invariant *)

(* Queued requests are queued once, and none of them is aborted. *)
QueueSound ==
  /\ \A i \in 1..Len(queue) : state[queue[i]] = "queued" /\ queue[i] \notin aborted
  /\ \A i, j \in 1..Len(queue) : queue[i] = queue[j] => i = j

(* Whoever sleeps has a retry left. *)
SleepersMayRetry == \A c \in Callers : state[c] = "sleeping" => attempt[c] < MaxRetries

(* A wait that some response asked for is part of the cooldown. *)
ToldIsBlocked == told <= blocked

IInv ==
  /\ TypeOK
  /\ QueueSound
  /\ SleepersMayRetry
  /\ InFlightBounded
  /\ ToldIsBlocked
  /\ QueueHasDriver
  /\ CooldownsDoNotAddUp

LEMMA InFlightIsFinite == IsFiniteSet(InFlight)
BY FS_Subset DEF InFlight

LEMMA CountFlights ==
  ASSUME IInv
  PROVE  /\ \A c \in InFlight : active - 1 \in Nat /\ Cardinality(InFlight \ {c}) = active - 1
         /\ \A c : c \notin InFlight => Cardinality(InFlight \cup {c}) = active + 1
<1>1. active = Cardinality(InFlight) /\ active \in Nat /\ IsFiniteSet(InFlight)
  BY InFlightIsFinite DEF IInv, InFlightBounded, TypeOK
<1>2. ASSUME NEW c \in InFlight
      PROVE  active - 1 \in Nat /\ Cardinality(InFlight \ {c}) = active - 1
  <2>1. /\ IsFiniteSet(InFlight \ {c})
        /\ Cardinality(InFlight \ {c}) = Cardinality(InFlight) - 1
    BY <1>1, FS_RemoveElement
  <2>2. Cardinality(InFlight \ {c}) \in Nat
    BY <2>1, FS_CardinalityType
  <2> QED BY <1>1, <2>1, <2>2
<1>3. ASSUME NEW c, c \notin InFlight
      PROVE  Cardinality(InFlight \cup {c}) = active + 1
  BY <1>1, <1>3, FS_AddElement
<1> QED BY <1>2, <1>3

(* The head of a queue that is not empty, and what is left of it. *)
LEMMA HeadOfQueue ==
  ASSUME TypeOK, QueueSound, queue # <<>>
  PROVE  /\ Head(queue) \in Callers
         /\ state[Head(queue)] = "queued"
         /\ Head(queue) \notin aborted
         /\ Tail(queue) \in Seq(Callers)
         /\ Len(Tail(queue)) = Len(queue) - 1
         /\ \A i \in 1..Len(Tail(queue)) :
              Tail(queue)[i] = queue[i + 1] /\ Tail(queue)[i] # Head(queue)
<1>1. queue \in Seq(Callers) /\ Len(queue) \in Nat
  BY DEF TypeOK
<1>2. /\ Head(queue) \in Callers /\ Tail(queue) \in Seq(Callers)
      /\ Head(queue) = queue[1] /\ Len(queue) >= 1
      /\ Len(Tail(queue)) = Len(queue) - 1
      /\ \A i \in 1..(Len(queue) - 1) : Tail(queue)[i] = queue[i + 1]
  BY <1>1
<1>3. 1 \in 1..Len(queue)
  BY <1>1, <1>2
<1>4. ASSUME NEW i \in 1..(Len(queue) - 1)
      PROVE  Tail(queue)[i] # Head(queue)
  <2>1. i + 1 \in 1..Len(queue) /\ i + 1 # 1
    BY <1>1
  <2> QED BY <1>2, <1>3, <2>1 DEF QueueSound
<1> QED BY <1>2, <1>3, <1>4 DEF QueueSound

LEMMA InitIInv == Init => IInv
<1> SUFFICES ASSUME Init PROVE IInv
  OBVIOUS
<1>1. TypeOK
  <2>1. state \in [Callers -> States]
    BY DEF Init, States
  <2>2. attempt \in [Callers -> 0..MaxRetries] /\ rest \in [Callers -> Nat]
    BY DEF Init
  <2>3. answer \in [Callers -> Answers]
    BY DEF Init, Answers, NoAnswer
  <2>4. queue \in Seq(Callers)
    BY DEF Init
  <2>5. /\ nextStart \in Nat /\ blocked \in Nat /\ single \in Nat /\ told \in Nat
        /\ active \in Nat /\ timer \in Nat /\ level \in 0..20
    BY DEF Init
  <2>6. woken \in BOOLEAN /\ due \in BOOLEAN /\ drain \in {"off", "looping", "waiting"}
    BY DEF Init
  <2>7. aborted \in SUBSET Callers
    BY DEF Init
  <2> QED BY <2>1, <2>2, <2>3, <2>4, <2>5, <2>6, <2>7 DEF TypeOK
<1>2. InFlight = {}
  BY DEF Init, InFlight
<1>3. InFlightBounded
  BY <1>2, FS_EmptySet DEF Init, InFlightBounded
<1>4. CooldownsDoNotAddUp
  BY DEF Init, CooldownsDoNotAddUp
<1> QED BY <1>1, <1>3, <1>4
        DEF Init, IInv, QueueSound, SleepersMayRetry, ToldIsBlocked, QueueHasDriver

-----------------------------------------------------------------------------
(* Every step keeps the types *)

LEMMA AbortQueuedKeeps ==
  ASSUME IInv, NEW c \in Callers, AbortQueued(c)
  PROVE  \E i \in 1..Len(queue) :
           /\ queue[i] = c
           /\ queue' \in Seq(Callers)
           /\ Len(queue') = Len(queue) - 1
           /\ \A j \in 1..Len(queue') :
                queue'[j] = IF j < i THEN queue[j] ELSE queue[j + 1]
<1>1. PICK i \in 1..Len(queue) : queue[i] = c /\ queue' = RemoveAt(queue, i)
  BY DEF AbortQueued
<1>2. queue \in Seq(Callers)
  BY DEF IInv, TypeOK
<1>3. /\ RemoveAt(queue, i) \in Seq(Callers)
      /\ Len(RemoveAt(queue, i)) = Len(queue) - 1
      /\ \A j \in 1..(Len(queue) - 1) :
           RemoveAt(queue, i)[j] = IF j < i THEN queue[j] ELSE queue[j + 1]
  BY <1>2, Removal
<1> QED BY <1>1, <1>3

LEMMA CallersKeepType ==
  ASSUME IInv, [Next]_vars
  PROVE  /\ state' \in [Callers -> States]
         /\ aborted' \in SUBSET Callers
         /\ attempt' \in [Callers -> 0..MaxRetries]
         /\ answer' \in [Callers -> Answers]
         /\ rest' \in [Callers -> Nat]
         /\ SleepersMayRetry'
<1> USE DEF IInv, TypeOK, SleepersMayRetry, Become, States, Ended
<1>1. CASE UNCHANGED callerVars
  BY <1>1 DEF callerVars
<1>2. CASE DrainStep
  <2>1. CASE DrainStarts
    <3>1. Head(queue) \in Callers
      BY <2>1, HeadOfQueue DEF DrainStarts, HasWork
    <3> QED BY <2>1, <3>1 DEF DrainStarts
  <2>2. CASE DrainEnds \/ DrainWaits \/ DrainResumes \/ DrainCalled
    BY <2>2, <1>1 DEF DrainEnds, DrainWaits, DrainResumes, DrainCalled
  <2> QED BY <1>2, <2>1, <2>2 DEF DrainStep
<1>3. CASE Tick
  BY <1>3, LessIsLess DEF Tick
<1>4. CASE \E c \in Callers : Call(c) \/ CallRefused(c)
  BY <1>4 DEF Call, CallRefused
<1>5. CASE \E c \in Callers : Answer(c)
  <2>1. PICK c \in Callers : Answer(c)
    BY <1>5
  <2>2. PICK kind \in {"data", "retryable", "fatal"}, d \in Delays :
          answer' = [answer EXCEPT ![c] = [kind |-> kind, delay |-> d]]
    BY <2>1 DEF Answer
  <2>3. answer' \in [Callers -> Answers]
    BY <2>2 DEF Answers
  <2> QED BY <2>1, <2>3 DEF Answer
<1>6. CASE \E c \in Callers : Settle(c)
  <2>1. PICK c \in Callers : Settle(c)
    BY <1>6
  <2>2. NoAnswer \in Answers /\ answer[c].delay \in Nat
    BY DEF NoAnswer, Answers
  <2>3. answer' \in [Callers -> Answers]
    BY <2>1, <2>2 DEF Settle
  <2>4. rest' \in [Callers -> Nat]
    BY <2>1, <2>2 DEF Settle
  <2> QED BY <2>1, <2>3, <2>4 DEF Settle
<1>7. CASE \E c \in Callers : Retry(c)
  BY <1>7 DEF Retry
<1>8. CASE \E c \in Callers : Abort(c)
  BY <1>8 DEF Abort, AbortQueued
<1>9. Done \/ UNCHANGED vars => UNCHANGED callerVars
  BY DEF Done, vars, callerVars
<1> QED BY <1>1, <1>2, <1>3, <1>4, <1>5, <1>6, <1>7, <1>8, <1>9
        DEF Next, CallerStep

LEMMA LimiterKeepsType ==
  ASSUME IInv, [Next]_vars
  PROVE  /\ queue' \in Seq(Callers)
         /\ drain' \in {"off", "looping", "waiting"}
         /\ timer' \in Nat
         /\ woken' \in BOOLEAN
         /\ due' \in BOOLEAN
<1> USE DEF IInv, TypeOK
<1>1. CASE UNCHANGED limiterVars
  BY <1>1 DEF limiterVars
<1>2. CASE DrainEnds \/ DrainResumes
  BY <1>2 DEF DrainEnds, DrainResumes
<1>3. CASE DrainWaits
  <2>1. Earliest \in Nat
    BY DEF Earliest, Longer
  <2> QED BY <1>3, <2>1 DEF DrainWaits
<1>4. CASE DrainStarts
  <2>1. Tail(queue) \in Seq(Callers)
    BY <1>4, HeadOfQueue DEF DrainStarts, HasWork
  <2> QED BY <1>4, <2>1 DEF DrainStarts
<1>5. CASE DrainCalled
  BY <1>5 DEF DrainCalled, EnterDrain
<1>6. CASE Tick
  BY <1>6, LessIsLess DEF Tick
<1>7. CASE \E c \in Callers : Call(c)
  BY <1>7 DEF Call, EnterDrain
<1>8. CASE \E c \in Callers : CallRefused(c) \/ Retry(c)
  BY <1>8, <1>1 DEF CallRefused, Retry
<1>9. CASE \E c \in Callers : Answer(c)
  <2>1. PICK c \in Callers : Answer(c)
    BY <1>9
  <2>2. UNCHANGED woken \/ WakeDrain
    BY <2>1 DEF Answer
  <2>3. woken' \in BOOLEAN
    BY <2>2 DEF WakeDrain
  <2> QED BY <2>1, <2>3 DEF Answer
<1>10. CASE \E c \in Callers : Settle(c)
  <2>1. PICK c \in Callers : Settle(c)
    BY <1>10
  <2>2. woken' \in BOOLEAN /\ due' \in BOOLEAN
    BY <2>1 DEF Settle, FreePlace, WakeDrain, DrainSoon
  <2> QED BY <2>1, <2>2 DEF Settle
<1>11. CASE \E c \in Callers : Abort(c)
  <2>1. PICK c \in Callers : Abort(c)
    BY <1>11
  <2>2. CASE AbortQueued(c) /\ WakeDrain /\ DrainSoon
    <3>1. queue' \in Seq(Callers)
      BY <2>2, AbortQueuedKeeps
    <3>2. woken' \in BOOLEAN /\ due' \in BOOLEAN
      BY <2>2 DEF WakeDrain, DrainSoon
    <3> QED BY <2>1, <3>1, <3>2 DEF Abort
  <2>3. CASE UNCHANGED <<queue, woken, due>>
    BY <2>1, <2>3 DEF Abort
  <2> QED BY <2>1, <2>2, <2>3 DEF Abort
<1>12. Done \/ UNCHANGED vars => UNCHANGED limiterVars
  BY DEF Done, vars, limiterVars
<1> QED BY <1>1, <1>2, <1>3, <1>4, <1>5, <1>6, <1>7, <1>8, <1>9, <1>10, <1>11, <1>12
        DEF Next, CallerStep, DrainStep

(* The pace, and what it promises. *)
LEMMA PaceKeepsBounds ==
  ASSUME IInv, [Next]_vars
  PROVE  /\ nextStart' \in Nat /\ blocked' \in Nat /\ single' \in Nat
         /\ level' \in 0..20
         /\ told' \in Nat
         /\ ToldIsBlocked'
         /\ CooldownsDoNotAddUp'
<1>1. /\ nextStart \in Nat /\ blocked \in Nat /\ single \in Nat
      /\ level \in 0..20 /\ told \in Nat /\ told <= blocked
  BY DEF IInv, TypeOK, ToldIsBlocked
<1>2. PICK b \in Delays \cup {CooldownMax} : blocked <= b /\ single <= b + CooldownMax
  BY DEF IInv, CooldownsDoNotAddUp
<1>3. b \in Nat /\ CooldownMax \in Nat
  BY <1>2
<1>4. CASE UNCHANGED <<blocked, single, level, told>> /\ nextStart' \in Nat
  BY <1>1, <1>2, <1>4 DEF ToldIsBlocked, CooldownsDoNotAddUp
<1>5. CASE Tick
  <2>1. /\ nextStart' \in Nat /\ blocked' \in Nat /\ single' \in Nat /\ told' \in Nat
        /\ blocked' <= blocked /\ single' <= single /\ told' <= blocked'
        /\ level' = level
    BY <1>1, <1>5, LessIsLess DEF Tick
  <2>2. blocked' <= b /\ single' <= b + CooldownMax
    BY <1>1, <1>2, <1>3, <2>1
  <2> QED BY <1>1, <1>2, <2>1, <2>2 DEF ToldIsBlocked, CooldownsDoNotAddUp
<1>6. CASE \E c \in Callers : Answer(c)
  <2>1. PICK c \in Callers : Answer(c)
    BY <1>6
  <2>2. CASE UNCHANGED paceVars
    BY <1>1, <1>4, <2>2 DEF paceVars
  <2>3. CASE \E d \in Delays :
              NoteRateLimit(d) /\ told' = Longer(told, d) /\ nextStart' = nextStart
    <3>1. PICK d \in Delays :
            NoteRateLimit(d) /\ told' = Longer(told, d) /\ nextStart' = nextStart
      BY <2>3
    <3>2. d \in Nat
      BY <3>1
    <3>3. level' \in 1..20
      BY <3>1, <3>2, NoteKeepsType DEF IInv
    <3>4. PICK a, e \in Nat :
            /\ blocked' = e /\ e \in {a, blocked, d} /\ blocked <= e /\ d <= e
            /\ a <= CooldownMax
            /\ single' \in Nat /\ single' \in {single, e + a}
      BY <3>1, <3>2, NoteKeepsType DEF IInv
    <3>5. told' \in Nat /\ told' <= blocked'
      BY <1>1, <3>1, <3>2, <3>4 DEF Longer
    <3>6. PICK m \in {b, d, CooldownMax} : b <= m /\ d <= m /\ CooldownMax <= m
      BY <1>3, <3>2
    <3>7. m \in Nat /\ m \in Delays \cup {CooldownMax}
      BY <1>2, <1>3, <3>1, <3>2, <3>6
    <3>8. e <= m
      BY <1>1, <1>2, <1>3, <3>2, <3>4, <3>6, <3>7
    <3>9. single <= m + CooldownMax /\ e + a <= m + CooldownMax
      BY <1>1, <1>2, <1>3, <3>4, <3>6, <3>7, <3>8
    <3>10. nextStart' \in Nat
      BY <1>1, <3>1
    <3> QED BY <3>3, <3>4, <3>5, <3>7, <3>8, <3>9, <3>10
            DEF ToldIsBlocked, CooldownsDoNotAddUp
  <2> QED BY <2>1, <2>2, <2>3 DEF Answer
<1>7. CASE DrainStarts
  BY <1>4, <1>7 DEF DrainStarts
<1>8. CASE UNCHANGED paceVars
  BY <1>1, <1>4, <1>8 DEF paceVars
<1>9. CASE DrainEnds \/ DrainWaits \/ DrainResumes \/ DrainCalled
  BY <1>8, <1>9 DEF DrainEnds, DrainWaits, DrainResumes, DrainCalled
<1>10. CASE \E c \in Callers : \/ Call(c) \/ CallRefused(c) \/ Settle(c)
                               \/ Retry(c) \/ Abort(c)
  BY <1>8, <1>10 DEF Call, CallRefused, Settle, Retry, Abort
<1>11. Done \/ UNCHANGED vars => UNCHANGED paceVars
  BY DEF Done, vars, paceVars
<1> QED BY <1>5, <1>6, <1>7, <1>8, <1>9, <1>10, <1>11
        DEF Next, CallerStep, DrainStep

-----------------------------------------------------------------------------
(* The queue *)

LEMMA QueueStaysSound ==
  ASSUME IInv, [Next]_vars
  PROVE  QueueSound'
<1> USE DEF QueueSound
<1>1. queue \in Seq(Callers) /\ Len(queue) \in Nat /\ state \in [Callers -> States]
  BY DEF IInv, TypeOK
<1>2. QueueSound
  BY DEF IInv
<1>3. ASSUME NEW i \in 1..Len(queue)
      PROVE  queue[i] \in Callers /\ state[queue[i]] = "queued"
  BY <1>1, <1>2
<1>4. CASE UNCHANGED <<state, aborted, queue>>
  BY <1>2, <1>4
<1>5. CASE DrainStarts
  <2>1. /\ queue # <<>> /\ queue' = Tail(queue) /\ aborted' = aborted
        /\ state' = [state EXCEPT ![Head(queue)] = "running"]
    BY <1>5 DEF DrainStarts, HasWork, Become
  <2>2. /\ Len(Tail(queue)) = Len(queue) - 1
        /\ \A i \in 1..Len(Tail(queue)) :
             Tail(queue)[i] = queue[i + 1] /\ Tail(queue)[i] # Head(queue)
    BY <2>1, HeadOfQueue DEF IInv
  <2>3. ASSUME NEW i \in 1..Len(queue')
        PROVE  /\ i + 1 \in 1..Len(queue)
               /\ queue'[i] = queue[i + 1] /\ queue'[i] # Head(queue)
    BY <1>1, <2>1, <2>2
  <2>4. ASSUME NEW i \in 1..Len(queue')
        PROVE  state'[queue'[i]] = "queued" /\ queue'[i] \notin aborted'
    BY <1>1, <1>2, <1>3, <2>1, <2>3
  <2>5. ASSUME NEW i \in 1..Len(queue'), NEW j \in 1..Len(queue'), queue'[i] = queue'[j]
        PROVE  i = j
    <3>1. i + 1 = j + 1
      BY <1>2, <2>3, <2>5
    <3> QED BY <3>1
  <2> QED BY <2>4, <2>5
<1>6. ASSUME NEW c \in Callers, state[c] # "queued", queue' = queue, aborted' = aborted,
             NEW v, state' = [state EXCEPT ![c] = v]
      PROVE  QueueSound'
  BY <1>1, <1>2, <1>3, <1>6
<1>7. CASE \E c \in Callers : Call(c)
  <2>1. PICK c \in Callers : Call(c)
    BY <1>7
  <2>2. /\ state[c] = "calling" /\ c \notin aborted /\ aborted' = aborted
        /\ state' = [state EXCEPT ![c] = "queued"]
        /\ queue' = Append(queue, c)
    BY <2>1 DEF Call, Become
  <2>3. /\ Len(queue') = Len(queue) + 1
        /\ queue'[Len(queue) + 1] = c
        /\ \A i \in 1..Len(queue) : queue'[i] = queue[i]
    BY <1>1, <2>2
  <2>4. ASSUME NEW i \in 1..Len(queue')
        PROVE  \/ i \in 1..Len(queue) /\ queue'[i] = queue[i] /\ queue'[i] # c
               \/ i = Len(queue) + 1 /\ queue'[i] = c
    <3>1. i \in 1..Len(queue) \/ i = Len(queue) + 1
      BY <1>1, <2>3
    <3> QED BY <1>3, <2>2, <2>3, <3>1
  <2>5. ASSUME NEW i \in 1..Len(queue')
        PROVE  state'[queue'[i]] = "queued" /\ queue'[i] \notin aborted'
    BY <1>1, <1>2, <1>3, <2>2, <2>4
  <2>6. ASSUME NEW i \in 1..Len(queue'), NEW j \in 1..Len(queue'), queue'[i] = queue'[j]
        PROVE  i = j
    BY <1>2, <2>4, <2>6
  <2> QED BY <2>5, <2>6
<1>8. CASE \E c \in Callers : CallRefused(c) \/ Answer(c) \/ Retry(c)
  BY <1>6, <1>8 DEF CallRefused, Answer, Retry, limiterVars, Become
<1>9. CASE \E c \in Callers : Settle(c)
  BY <1>6, <1>9 DEF Settle, Become
<1>10. CASE \E c \in Callers : Abort(c)
  <2>1. PICK c \in Callers : Abort(c)
    BY <1>10
  <2>2. aborted' = aborted \cup {c}
    BY <2>1 DEF Abort
  <2>3. CASE AbortQueued(c)
    <3>1. PICK i \in 1..Len(queue) :
            /\ queue[i] = c
            /\ Len(queue') = Len(queue) - 1
            /\ \A j \in 1..Len(queue') :
                 queue'[j] = IF j < i THEN queue[j] ELSE queue[j + 1]
      BY <2>3, AbortQueuedKeeps
    <3>2. state' = [state EXCEPT ![c] = "threw"]
      BY <2>3 DEF AbortQueued, Become
    <3>3. ASSUME NEW j \in 1..Len(queue')
          PROVE  LET k == IF j < i THEN j ELSE j + 1
                 IN  k \in 1..Len(queue) /\ k # i /\ queue'[j] = queue[k]
      <4>1. CASE j < i
        BY <1>1, <3>1, <4>1
      <4>2. CASE ~(j < i)
        BY <1>1, <3>1, <4>2
      <4> QED BY <4>1, <4>2
    <3>4. ASSUME NEW j \in 1..Len(queue')
          PROVE  state'[queue'[j]] = "queued" /\ queue'[j] \notin aborted'
      <4>1. PICK k \in 1..Len(queue) : k # i /\ queue'[j] = queue[k]
        BY <3>3
      <4>2. queue[k] # c
        BY <1>2, <3>1, <4>1
      <4> QED BY <1>1, <1>2, <1>3, <2>2, <3>2, <4>1, <4>2
    <3>5. ASSUME NEW j \in 1..Len(queue'), NEW k \in 1..Len(queue'), queue'[j] = queue'[k]
          PROVE  j = k
      <4>1. (IF j < i THEN j ELSE j + 1) = (IF k < i THEN k ELSE k + 1)
        BY <1>2, <3>3, <3>5
      <4> QED BY <1>1, <3>1, <4>1
    <3> QED BY <3>4, <3>5
  <2>4. CASE state[c] # "queued" /\ queue' = queue /\ (Become(c, "threw") \/ state' = state)
    BY <1>1, <1>2, <1>3, <2>2, <2>4 DEF Become
  <2> QED BY <2>1, <2>3, <2>4 DEF Abort
<1>11. CASE DrainEnds \/ DrainWaits \/ DrainResumes \/ DrainCalled
  BY <1>4, <1>11 DEF DrainEnds, DrainWaits, DrainResumes, DrainCalled, callerVars
<1>12. CASE Tick \/ Done \/ UNCHANGED vars
  BY <1>4, <1>12 DEF Tick, Done, vars, callerVars, limiterVars
<1> QED BY <1>5, <1>7, <1>8, <1>9, <1>10, <1>11, <1>12
        DEF Next, CallerStep, DrainStep

-----------------------------------------------------------------------------
(* Requests in flight, and the drain *)

LEMMA FlightsStayCounted ==
  ASSUME IInv, [Next]_vars
  PROVE  active' \in Nat /\ InFlightBounded'
<1>1. /\ active = Cardinality(InFlight) /\ active <= Concurrency /\ active \in Nat
      /\ state \in [Callers -> States]
  BY DEF IInv, InFlightBounded, TypeOK
<1>2. CASE active' = active /\ InFlight' = InFlight
  BY <1>1, <1>2 DEF InFlightBounded
<1>3. CASE DrainStarts
  <2>1. /\ queue # <<>> /\ active < Allowed /\ active' = active + 1
        /\ state' = [state EXCEPT ![Head(queue)] = "running"]
    BY <1>3 DEF DrainStarts, HasWork, Become
  <2>2. Head(queue) \in Callers /\ state[Head(queue)] = "queued"
    BY <2>1, HeadOfQueue DEF IInv
  <2>3. Head(queue) \notin InFlight /\ InFlight' = InFlight \cup {Head(queue)}
    BY <1>1, <2>1, <2>2 DEF InFlight
  <2>4. Cardinality(InFlight') = active + 1
    BY <2>3, CountFlights
  <2>5. Allowed <= Concurrency /\ Allowed \in Nat
    BY DEF Allowed
  <2>6. active + 1 <= Concurrency /\ active + 1 \in Nat
    BY <1>1, <2>1, <2>5
  <2> QED BY <2>1, <2>4, <2>6 DEF InFlightBounded
<1>4. CASE \E c \in Callers : Settle(c)
  <2>1. PICK c \in Callers : Settle(c)
    BY <1>4
  <2>2. /\ state[c] = "answered" /\ active' = active - 1
        /\ \E v \in {"sleeping", "returned", "threw"} : state' = [state EXCEPT ![c] = v]
    BY <2>1 DEF Settle, FreePlace, Become
  <2>3. c \in InFlight /\ InFlight' = InFlight \ {c}
    BY <1>1, <2>2 DEF InFlight
  <2>4. active - 1 \in Nat /\ Cardinality(InFlight') = active - 1
    BY <2>3, CountFlights
  <2> QED BY <1>1, <2>2, <2>4 DEF InFlightBounded
<1>5. ASSUME NEW c \in Callers, NEW v,
             state' = [state EXCEPT ![c] = v],
             state[c] \in {"running", "answered"} <=> v \in {"running", "answered"}
      PROVE  InFlight' = InFlight
  BY <1>1, <1>5 DEF InFlight
<1>6. CASE \E c \in Callers : Call(c) \/ CallRefused(c) \/ Answer(c) \/ Retry(c)
  BY <1>2, <1>5, <1>6 DEF Call, CallRefused, Answer, Retry, Become, limiterVars
<1>7. CASE \E c \in Callers : Abort(c)
  <2>1. PICK c \in Callers : Abort(c)
    BY <1>7
  <2>2. /\ active' = active
        /\ \/ state' = state
           \/ state[c] \in {"queued", "sleeping"} /\ Become(c, "threw")
    BY <2>1 DEF Abort, AbortQueued
  <2>3. InFlight' = InFlight
    BY <1>5, <2>2 DEF Become, InFlight
  <2> QED BY <1>2, <2>2, <2>3
<1>8. CASE DrainEnds \/ DrainWaits \/ DrainResumes \/ DrainCalled
  BY <1>2, <1>8 DEF DrainEnds, DrainWaits, DrainResumes, DrainCalled, callerVars, InFlight
<1>9. CASE Tick \/ Done \/ UNCHANGED vars
  BY <1>2, <1>9 DEF Tick, Done, vars, callerVars, limiterVars, InFlight
<1> QED BY <1>3, <1>4, <1>6, <1>7, <1>8, <1>9
        DEF Next, CallerStep, DrainStep

LEMMA QueueKeepsDriver ==
  ASSUME IInv, [Next]_vars
  PROVE  QueueHasDriver'
<1> USE DEF QueueHasDriver
<1>1. active \in Nat /\ QueueHasDriver
  BY DEF IInv, TypeOK
<1>2. CASE UNCHANGED <<queue, drain, due, active>>
  BY <1>1, <1>2
<1>3. CASE DrainEnds
  <2>1. ~HasWork /\ UNCHANGED <<queue, active>>
    BY <1>3 DEF DrainEnds
  <2>2. Allowed \in Nat \ {0}
    BY DEF Allowed
  <2>3. queue' # <<>> => active' > 0
    BY <1>1, <2>1, <2>2 DEF HasWork
  <2> QED BY <2>3
<1>4. CASE DrainWaits \/ DrainStarts \/ DrainResumes
  BY <1>4 DEF DrainWaits, DrainStarts, DrainResumes
<1>5. CASE DrainCalled \/ \E c \in Callers : Call(c)
  BY <1>5 DEF DrainCalled, Call, EnterDrain, Idle
<1>6. CASE \E c \in Callers : Settle(c)
  BY <1>6 DEF Settle, FreePlace, DrainSoon
<1>7. CASE \E c \in Callers : Abort(c)
  BY <1>1, <1>7 DEF Abort, DrainSoon
<1>8. CASE \E c \in Callers : CallRefused(c) \/ Answer(c) \/ Retry(c)
  BY <1>2, <1>8 DEF CallRefused, Answer, Retry, limiterVars
<1>9. CASE Tick \/ Done \/ UNCHANGED vars
  BY <1>2, <1>9 DEF Tick, Done, vars, limiterVars
<1> QED BY <1>3, <1>4, <1>5, <1>6, <1>7, <1>8, <1>9
        DEF Next, CallerStep, DrainStep

-----------------------------------------------------------------------------
(* The theorems *)

LEMMA StepKeepsIInv == IInv /\ [Next]_vars => IInv'
<1> SUFFICES ASSUME IInv, [Next]_vars PROVE IInv'
  OBVIOUS
<1>1. TypeOK'
  BY CallersKeepType, LimiterKeepsType, PaceKeepsBounds, FlightsStayCounted DEF TypeOK
<1> QED BY <1>1, CallersKeepType, QueueStaysSound, FlightsStayCounted,
           PaceKeepsBounds, QueueKeepsDriver DEF IInv

(* The invariant that carries every result below: the types, the queue     *)
(* holds exactly once what waits in it, the count is the number of         *)
(* requests in flight, and no wait outlasts the cooldown.                  *)
THEOREM LimiterInvariant == Spec => []IInv
<1> QED BY InitIInv, StepKeepsIInv, PTL DEF Spec

(* Every variable keeps its type. *)
THEOREM LimiterTypeCorrect == Spec => []TypeOK
<1>1. IInv => TypeOK
  BY DEF IInv
<1> QED BY <1>1, LimiterInvariant, PTL

(* The limiter counts the requests in flight and never exceeds its limit,  *)
(* whatever is aborted, fails or is retried.                               *)
THEOREM LimiterCounts == Spec => []InFlightBounded
<1>1. IInv => InFlightBounded
  BY DEF IInv
<1> QED BY <1>1, LimiterInvariant, PTL

(* No interleaving of drain(), the requests and the aborts leaves a queued *)
(* request that nobody will start.                                         *)
THEOREM NoLostWakeup == Spec => []QueueHasDriver
<1>1. IInv => QueueHasDriver
  BY DEF IInv
<1> QED BY <1>1, LimiterInvariant, PTL

(* Rate limits that overlap never block for longer than one of them.       *)
THEOREM CooldownsAreBounded == Spec => []CooldownsDoNotAddUp
<1>1. IInv => CooldownsDoNotAddUp
  BY DEF IInv
<1> QED BY <1>1, LimiterInvariant, PTL

(* No start before the instant that any response asked for. *)
THEOREM WaitsAreHonoured == Spec => RetryAfterHonoured
<1>1. ASSUME IInv, [Next]_vars
      PROVE  [\A c \in Callers : state[c] = "queued" /\ state'[c] = "running"
                => told = 0]_vars
  <2>1. state \in [Callers -> States]
    BY <1>1 DEF IInv, TypeOK
  <2>2. CASE DrainStarts
    <3>1. blocked = 0
      BY <1>1, <2>2 DEF DrainStarts, Earliest, Longer, IInv, TypeOK
    <3> QED BY <1>1, <3>1 DEF IInv, TypeOK, ToldIsBlocked
  <2>3. CASE UNCHANGED state
    BY <2>3
  <2>4. CASE \E c \in Callers : Call(c) \/ CallRefused(c) \/ Answer(c) \/ Settle(c)
                                \/ Retry(c) \/ Abort(c)
    BY <2>1, <2>4 DEF Call, CallRefused, Answer, Settle, Retry, Abort, AbortQueued, Become
  <2>5. CASE DrainEnds \/ DrainWaits \/ DrainResumes \/ DrainCalled
             \/ Tick \/ Done \/ UNCHANGED vars
    BY <2>3, <2>5 DEF DrainEnds, DrainWaits, DrainResumes, DrainCalled, Tick, Done,
                      vars, callerVars
  <2> QED BY <1>1, <2>2, <2>4, <2>5 DEF Next, CallerStep, DrainStep
<1> QED BY <1>1, LimiterInvariant, PTL DEF Spec, RetryAfterHonoured

(* After its abort nothing is sent for a caller. *)
THEOREM AbortsAreHonoured == Spec => AbortedNeverStarts
<1>1. ASSUME IInv, [Next]_vars
      PROVE  [\A c \in aborted : state'[c] = "running" => state[c] = "running"]_vars
  <2>1. state \in [Callers -> States] /\ aborted \subseteq Callers
    BY <1>1 DEF IInv, TypeOK
  <2>2. CASE DrainStarts
    <3>1. Head(queue) \notin aborted
      BY <1>1, <2>2, HeadOfQueue DEF DrainStarts, HasWork, IInv
    <3> QED BY <2>1, <2>2, <3>1 DEF DrainStarts, Become
  <2>3. CASE UNCHANGED state
    BY <2>3
  <2>4. CASE \E c \in Callers : Call(c) \/ CallRefused(c) \/ Answer(c) \/ Settle(c)
                                \/ Retry(c) \/ Abort(c)
    BY <2>1, <2>4 DEF Call, CallRefused, Answer, Settle, Retry, Abort, AbortQueued, Become
  <2>5. CASE DrainEnds \/ DrainWaits \/ DrainResumes \/ DrainCalled
             \/ Tick \/ Done \/ UNCHANGED vars
    BY <2>3, <2>5 DEF DrainEnds, DrainWaits, DrainResumes, DrainCalled, Tick, Done,
                      vars, callerVars
  <2> QED BY <1>1, <2>2, <2>4, <2>5 DEF Next, CallerStep, DrainStep
<1> QED BY <1>1, LimiterInvariant, PTL DEF Spec, AbortedNeverStarts
=============================================================================
