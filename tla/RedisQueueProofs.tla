-------------------------- MODULE RedisQueueProofs --------------------------
(***************************************************************************)
(* Proofs, for any sets of tasks and workers and any configuration, that   *)
(* the scripts of RedisQueue keep every accepted task in exactly one place *)
(* and every holder of tasks in the worker set.                            *)
(*                                                                         *)
(* Safe is the inductive invariant: each of its parts needs the others.    *)
(* OnePlace needs NeverLost when a push stores a new id (an id that was    *)
(* never accepted is nowhere), NeverLost needs OnePlace when a script      *)
(* takes an id out of one place (it was in no other that would also have   *)
(* to change), Recoverable needs OnePlace for LREM to find nothing.        *)
(***************************************************************************)
EXTENDS RedisQueue, QueueLemmas

Safe == TypeOK /\ OnePlace /\ NeverLost /\ Recoverable

(***************************************************************************)
(* Sets of tasks are finite, so a script can return them in some order.    *)
(***************************************************************************)
LEMMA FiniteTaskSets == \A S \in SUBSET Tasks : IsFiniteSet(S)
  BY ConstantsAssumption, FS_Subset

(***************************************************************************)
(* None is distinct from every value that shares a field with it.          *)
(***************************************************************************)
LEMMA NoneIsNew ==
  /\ None \notin Nat
  /\ \A w \in Workers : w # None
  /\ \A t \in Tasks : t # None
  BY ConstantsAssumption

LEMMA InitSafe == Init => Safe
<1> SUFFICES ASSUME Init PROVE Safe
  OBVIOUS
<1>1. NoMeta \in MetaFields
  BY DEF NoMeta, MetaFields
<1>2. TypeOK
  BY <1>1, EmptySeq DEF Init, TypeOK
<1>3. Range(active) = {} /\ IsInjective(active)
  BY DEF Init, Range, IsInjective
<1>4. OnePlace /\ NeverLost /\ Recoverable
  BY <1>3 DEF Init, OnePlace, NeverLost, Recoverable, Scheduled, Queued, Held, Settled
<1> QED
  BY <1>2, <1>4 DEF Safe

(***************************************************************************)
(* A push is accepted, or it changes nothing but a key and, if it fails    *)
(* half way, the payloads.                                                 *)
(***************************************************************************)
LEMMA PushCases ==
  ASSUME NEW t \in Tasks, NEW runAt \in Times, NEW now \in Times, BatchPush(t, runAt, now)
  PROVE  /\ UNCHANGED <<inflight, workers, done, dead>>
         /\ \/ /\ UNCHANGED <<meta, scheduled, active, signal, issued>>
               /\ data' = data \/ (t \notin data /\ data' = data \cup {t})
            \/ /\ t \notin data
               /\ \E key \in Keys \cup {None}, attempts \in FirstAttempts :
                    /\ Allowed(key)
                    /\ idempotency' = IF Claims(key)
                                      THEN [idempotency EXCEPT ![key] = ClaimAfterExpire(t)]
                                      ELSE idempotency
                    /\ Enqueue(t, key, attempts, ScheduleTime(runAt, now))
  BY DEF BatchPush, StorePayloadOnly

(***************************************************************************)
(* A push puts an id that is nowhere into one place, or none.              *)
(***************************************************************************)
LEMMA PushSafe ==
  ASSUME Safe, Push
  PROVE  Safe'
<1> USE DEF Safe
<1>1. PICK t \in Tasks, runAt \in Times, now \in Times :
        (t \in issued => t \in data) /\ BatchPush(t, runAt, now)
  BY DEF Push
<1>2. /\ idempotency' \in [Keys -> Tasks \cup {None}]
      /\ UNCHANGED <<inflight, workers, done, dead>>
  BY <1>1 DEF BatchPush, TypeOK, Claims, ClaimAfterExpire
<1>3. CASE /\ UNCHANGED <<meta, scheduled, active, signal, issued>>
           /\ data' \in {data, data \cup {t}}
  BY <1>2, <1>3 DEF TypeOK, OnePlace, NeverLost, Recoverable, Scheduled, Queued, Held,
    Settled, Registered
<1>4. ASSUME t \notin data, NEW key \in Keys \cup {None}, NEW attempts \in FirstAttempts,
             Enqueue(t, key, attempts, ScheduleTime(runAt, now))
      PROVE  Safe'
  <2> DEFINE time == ScheduleTime(runAt, now)
  <2>1. time \in Nat
    BY ConstantsAssumption DEF ScheduleTime
  <2> HIDE DEF time
  <2>2. /\ ~Scheduled(t) /\ ~Queued(t) /\ ~Held(t) /\ ~Settled(t)
    BY <1>1, <1>4 DEF NeverLost
  <2>3. /\ data' = data \cup {t}
        /\ meta' = [meta EXCEPT ![t] = [@ EXCEPT !.status = "Pending",
                                !.attempts = attempts, !.maxAttempts = TRUE, !.key = key]]
        /\ issued' = issued \cup {t}
    BY <1>4 DEF Enqueue
  <2>4. meta' \in [Tasks -> MetaFields]
    <3>1. \A m \in MetaFields : [m EXCEPT !.status = "Pending", !.attempts = attempts,
                                         !.maxAttempts = TRUE, !.key = key] \in MetaFields
      BY <1>4 DEF MetaFields, Statuses
    <3> QED
      BY <2>3, <3>1 DEF TypeOK
  <2>5. CASE /\ time > 0
             /\ scheduled' = [scheduled EXCEPT ![t] = time]
             /\ UNCHANGED <<active, signal>>
    <3>1. scheduled' \in [Tasks -> Nat \cup {None}]
      BY <2>1, <2>5 DEF TypeOK
    <3>2. \A u \in Tasks : Scheduled(u)' <=> Scheduled(u) \/ u = t
      BY <2>1, <2>5, NoneIsNew DEF TypeOK, Scheduled
    <3>3. TypeOK'
      BY <1>2, <2>3, <2>4, <2>5, <3>1 DEF TypeOK
    <3>4. OnePlace' /\ NeverLost' /\ Recoverable'
      BY <1>2, <2>2, <2>3, <2>5, <3>2 DEF OnePlace, NeverLost, Recoverable, Queued, Held,
        Settled, Registered
    <3> QED
      BY <3>3, <3>4
  <2>6. CASE /\ time = 0
             /\ active' = Append(active, t)
             /\ signal' \in {TRUE, signal}
             /\ UNCHANGED scheduled
    <3>1. /\ active' \in Seq(Tasks)
          /\ Range(active') = Range(active) \cup {t}
          /\ IsInjective(active')
      BY <2>2, <2>6, AppendOne DEF TypeOK, OnePlace, Queued
    <3>2. TypeOK'
      BY <1>2, <2>3, <2>4, <2>6, <3>1 DEF TypeOK
    <3>3. OnePlace' /\ NeverLost' /\ Recoverable'
      BY <1>2, <2>2, <2>3, <2>6, <3>1 DEF OnePlace, NeverLost, Recoverable, Scheduled,
        Queued, Held, Settled, Registered
    <3> QED
      BY <3>2, <3>3
  <2> QED
    BY <1>4, <2>5, <2>6 DEF Enqueue, time
<1> QED
  BY <1>1, <1>3, <1>4, PushCases

(***************************************************************************)
(* The calls that touch only the worker set, only keys or only payloads.   *)
(***************************************************************************)
LEMMA IdempotencyExpireSafe ==
  ASSUME Safe, NEW k \in Keys, IdempotencyExpire(k)
  PROVE  Safe'
  BY DEF Safe, IdempotencyExpire, TypeOK, OnePlace, NeverLost, Recoverable, Scheduled,
    Queued, Held, Settled, Registered

LEMMA WorkerSetSafe ==
  ASSUME Safe, NEW w \in Workers, NEW now \in Times,
         RegisterWorker(w, now) \/ KeepAlive(w, now) \/ CloseWorker(w)
  PROVE  Safe'
<1> USE DEF Safe
<1>1. UNCHANGED <<data, meta, scheduled, active, signal, inflight, done, dead,
                  idempotency, issued>>
  BY DEF RegisterWorker, KeepAlive, CloseWorker
<1>2. /\ workers' \in [Workers -> Times \cup {None}]
      /\ \A v \in Workers : Registered(v) => Registered(v)'
  <2>1. CASE workers' = [workers EXCEPT ![w] = now]
    BY <2>1, ConstantsAssumption, NoneIsNew DEF TypeOK, Registered
  <2>2. CASE workers' = ZRem(InflightKey(w))
    BY <2>2, InflightKeysAreNoNames DEF TypeOK, Registered, ZRem
  <2> QED
    BY <2>1, <2>2 DEF RegisterWorker, KeepAlive, CloseWorker
<1> QED
  BY <1>1, <1>2 DEF TypeOK, OnePlace, NeverLost, Recoverable, Scheduled, Queued, Held,
    Settled

LEMMA ForgetSafe ==
  ASSUME Safe, NEW S \in SUBSET data, Forget(S)
  PROVE  Safe'
<1> USE DEF Safe
<1>1. NoMeta \in MetaFields
  BY DEF NoMeta, MetaFields
<1>2. TypeOK'
  BY <1>1 DEF Forget, TypeOK
<1> QED
  BY <1>2 DEF Forget, OnePlace, NeverLost, Recoverable, Scheduled, Queued, Held, Settled,
    Registered

(***************************************************************************)
(* What a sweep and a release have in common: held ids go to the ready     *)
(* list, and no inflight set keeps any of them.                            *)
(***************************************************************************)
GivenBack(S) ==
  /\ \A t \in S : t \in Tasks /\ Held(t)
  /\ active' \in Seq(Tasks) /\ IsInjective(active')
  /\ Range(active') = Range(active) \cup S
  /\ inflight' = [w \in Workers |-> inflight[w] \ S]
  /\ UNCHANGED <<data, scheduled, done, dead, idempotency, issued>>

LEMMA AppendHeld ==
  ASSUME Safe, NEW S \in SUBSET Tasks, \A t \in S : Held(t),
         \E order \in SetToSeqs(S) : active' = active \o order
  PROVE  /\ active' \in Seq(Tasks) /\ IsInjective(active')
         /\ Range(active') = Range(active) \cup S
<1> USE DEF Safe
<1>1. PICK order \in SetToSeqs(S) : active' = active \o order
  OBVIOUS
<1>2. order \in Seq(Tasks) /\ Range(order) = S /\ IsInjective(order)
  BY FiniteTaskSets, OrderOfSet, SeqMonotonic
<1>3. Range(active) \cap Range(order) = {}
  BY <1>2 DEF OnePlace, Queued
<1> QED
  BY <1>1, <1>2, <1>3, ConcatProperties, RangeConcatenation, ConcatDisjoint
     DEF TypeOK, OnePlace

LEMMA GivenBackPlaces ==
  ASSUME Safe, NEW S, GivenBack(S)
  PROVE  OnePlace' /\ NeverLost'
<1> USE DEF Safe, GivenBack
<1>1. \A t \in Tasks : Held(t)' <=> Held(t) /\ t \notin S
  BY DEF Held
<1>2. OnePlace'
  <2>1. \A v, w \in Workers : v # w => inflight'[v] \cap inflight'[w] = {}
    BY DEF OnePlace
  <2> QED
    BY <1>1, <2>1 DEF OnePlace, Scheduled, Queued, Settled
<1>3. NeverLost'
  BY <1>1 DEF NeverLost, Scheduled, Queued, Settled
<1> QED
  BY <1>2, <1>3

(***************************************************************************)
(* A sweep moves all that the swept workers hold to the ready list; no     *)
(* other worker holds any of it, and the swept names hold nothing when     *)
(* they leave the worker set.                                              *)
(***************************************************************************)
LEMMA ReenqueueOrphanedGivesBack ==
  ASSUME Safe, NEW only \in Workers \cup {None}, NEW cutoff \in Times,
         ReenqueueOrphaned(only, cutoff)
  PROVE  Recoverable' /\ \E S \in SUBSET Tasks : GivenBack(S)
<1> USE DEF Safe
<1> DEFINE orphans == Expired(only, cutoff)
<1>1. PICK swept \in SUBSET orphans :
        LET recovered == UNION {inflight[w] : w \in swept} IN
        /\ \A w \in swept : Unpackable(inflight[w])
        /\ swept = orphans \/ SweepStopsAt(orphans, swept)
        /\ \E order \in SetToSeqs(recovered) : active' = active \o order
        /\ inflight' = [w \in Workers |-> IF w \in swept THEN {} ELSE inflight[w]]
        /\ workers' = [w \in Workers |-> IF w \in swept THEN None ELSE workers[w]]
        /\ signal' = (signal \/ (swept = orphans /\ recovered # {}))
        /\ UNCHANGED <<data, meta, scheduled, done, dead, idempotency, issued>>
  BY DEF ReenqueueOrphaned
<1> DEFINE recovered == UNION {inflight[w] : w \in swept}
<1>2. swept \subseteq Workers
  BY DEF Expired
<1>3. recovered \in SUBSET Tasks /\ \A t \in recovered : Held(t)
  BY <1>2 DEF TypeOK, Held
<1>4. inflight' = [w \in Workers |-> inflight[w] \ recovered]
  <2>1. \A w \in Workers \ swept : inflight[w] \cap recovered = {}
    BY <1>2 DEF OnePlace
  <2>2. \A w \in swept : inflight[w] \ recovered = {}
    OBVIOUS
  <2>3. \A w \in Workers : (IF w \in swept THEN {} ELSE inflight[w]) = inflight[w] \ recovered
    BY <2>1, <2>2
  <2> QED
    BY <1>1, <2>3
<1> HIDE DEF recovered
<1>5. \E order \in SetToSeqs(recovered) : active' = active \o order
  BY <1>1 DEF recovered
<1>6. GivenBack(recovered)
  BY <1>1, <1>3, <1>4, <1>5, AppendHeld DEF GivenBack
<1>7. Recoverable'
  BY <1>1 DEF Recoverable, Registered
<1> QED
  BY <1>3, <1>6, <1>7

LEMMA ReenqueueOrphanedSafe ==
  ASSUME Safe, NEW only \in Workers \cup {None}, NEW cutoff \in Times,
         ReenqueueOrphaned(only, cutoff)
  PROVE  Safe'
<1>1. PICK S \in SUBSET Tasks : GivenBack(S)
  BY ReenqueueOrphanedGivesBack
<1>2. /\ meta' = meta
      /\ workers' \in [Workers -> Times \cup {None}]
      /\ signal' \in BOOLEAN
  BY DEF ReenqueueOrphaned, Safe, TypeOK
<1>3. TypeOK'
  BY <1>1, <1>2 DEF Safe, TypeOK, GivenBack
<1> QED
  BY <1>1, <1>3, GivenBackPlaces, ReenqueueOrphanedGivesBack DEF Safe

(***************************************************************************)
(* A fetch promotes what is due behind the ready ids and moves ids from    *)
(* the front of that list to one inflight set.                             *)
(***************************************************************************)
LEMMA FetchNextMoves ==
  ASSUME Safe, NEW w \in Workers, NEW now \in Times, FetchNext(w, now)
  PROVE  \E fetched \in SUBSET Tasks :
           /\ active' \in Seq(Tasks) /\ IsInjective(active')
           /\ Range(active') \cup fetched = Range(active) \cup Due(now)
           /\ Range(active') \cap fetched = {}
           /\ inflight' = [inflight EXCEPT ![w] = @ \cup fetched]
<1> USE DEF Safe
<1>1. PICK promoted \in Promotions(now) :
        LET queue == active \o promoted
            signalled == signal \/ promoted # <<>>
            count == FetchCount(queue)
            completes == count <= UnpackLimit
        IN  /\ active' = IF completes THEN Trimmed(queue, count) ELSE queue
            /\ inflight' = IF completes
                           THEN [inflight EXCEPT ![w] = @ \cup Range(SubSeq(queue, 1, count))]
                           ELSE inflight
            /\ signal' = (signalled /\ (completes => SignalKept(count)))
  BY DEF FetchNext
<1> DEFINE queue == active \o promoted
           count == FetchCount(queue)
<1>2. Due(now) \in SUBSET Tasks /\ IsFiniteSet(Due(now))
  BY FiniteTaskSets DEF Due
<1>3. promoted \in Seq(Tasks) /\ Range(promoted) = Due(now) /\ IsInjective(promoted)
  BY <1>2, OrderOfSet, SeqMonotonic DEF Promotions
<1>4. /\ queue \in Seq(Tasks)
      /\ Range(queue) = Range(active) \cup Due(now)
      /\ IsInjective(queue)
  <2>1. Range(active) \cap Range(promoted) = {}
    BY <1>2, <1>3 DEF Due, OnePlace, Queued
  <2> QED
    BY <1>3, <2>1, ConcatProperties, RangeConcatenation, ConcatDisjoint
       DEF TypeOK, OnePlace
<1>5. count \in 0..Len(queue)
  BY <1>4, LenProperties, ConstantsAssumption DEF FetchCount
<1> DEFINE fetched == IF count <= UnpackLimit THEN Range(SubSeq(queue, 1, count)) ELSE {}
<1> HIDE DEF queue, count
<1>6. /\ active' \in Seq(Tasks)
      /\ IsInjective(active')
      /\ Range(active') \cup fetched = Range(active) \cup Due(now)
      /\ Range(active') \cap fetched = {}
  <2>1. CASE count <= UnpackLimit
    <3>1. active' = SubSeq(queue, count + 1, Len(queue))
      BY <1>1, <2>1 DEF queue, count, Trimmed
    <3> QED
      BY <1>4, <1>5, <2>1, <3>1, SplitList
  <2>2. CASE ~(count <= UnpackLimit)
    <3>1. active' = queue
      BY <1>1, <2>2 DEF queue, count
    <3> QED
      BY <1>4, <2>2, <3>1
  <2> QED
    BY <2>1, <2>2
<1>7. inflight' = [inflight EXCEPT ![w] = @ \cup fetched]
  BY <1>1 DEF queue, count, TypeOK
<1>8. Range(active) \in SUBSET Tasks
  BY RangeOfSeq DEF TypeOK
<1> HIDE DEF fetched
<1>9. fetched \in SUBSET Tasks
  BY <1>2, <1>6, <1>8
<1> QED
  BY <1>6, <1>7, <1>9

LEMMA FetchNextSafe ==
  ASSUME Safe, NEW w \in Workers, NEW now \in Times, FetchNext(w, now)
  PROVE  Safe'
<1> USE DEF Safe
<1>1. /\ Registered(w)
      /\ scheduled' = WithoutDue(now)
      /\ signal' \in BOOLEAN
      /\ UNCHANGED <<data, meta, workers, done, dead, idempotency, issued>>
  BY DEF FetchNext
<1>2. Due(now) \in SUBSET Tasks
  BY DEF Due
<1>3. PICK fetched \in SUBSET Tasks :
        /\ active' \in Seq(Tasks) /\ IsInjective(active')
        /\ Range(active') \cup fetched = Range(active) \cup Due(now)
        /\ Range(active') \cap fetched = {}
        /\ inflight' = [inflight EXCEPT ![w] = @ \cup fetched]
  BY FetchNextMoves
<1>4. \A t \in Tasks :
        /\ Held(t)' <=> Held(t) \/ t \in fetched
        /\ Scheduled(t)' <=> Scheduled(t) /\ t \notin Due(now)
  BY <1>1, <1>3 DEF TypeOK, Held, Scheduled, WithoutDue
<1>5. \A t \in fetched : t \in Tasks /\ ~Held(t) /\ ~Settled(t)
  BY <1>2, <1>3 DEF OnePlace, Queued, Due
<1>6. TypeOK'
  <2>1. scheduled' \in [Tasks -> Nat \cup {None}]
    BY <1>1 DEF TypeOK, WithoutDue
  <2>2. inflight' \in [Workers -> SUBSET Tasks]
    BY <1>3, <1>5 DEF TypeOK
  <2> QED
    BY <1>1, <1>3, <2>1, <2>2 DEF TypeOK
<1>7. OnePlace'
  <2>1. \A u, v \in Workers : u # v => inflight'[u] \cap inflight'[v] = {}
    BY <1>3, <1>5 DEF TypeOK, OnePlace, Held
  <2>2. \A t \in Due(now) : Scheduled(t) /\ ~Queued(t) /\ ~Held(t) /\ ~Settled(t)
    BY <1>2 DEF Due, OnePlace
  <2>3. \A t \in Tasks : Queued(t)' \/ t \in fetched <=> Queued(t) \/ t \in Due(now)
    BY <1>3 DEF Queued
  <2>4. \A t \in Tasks : ~(Queued(t)' /\ t \in fetched)
    BY <1>3 DEF Queued
  <2>5. \A t \in Tasks : Settled(t)' <=> Settled(t)
    BY <1>1 DEF Settled
  <2>6. done' \cap dead' = {}
    BY <1>1 DEF OnePlace
  <2>7. \A t \in Tasks : /\ Scheduled(t)' => ~Queued(t)' /\ ~Held(t)' /\ ~Settled(t)'
                         /\ Queued(t)' => ~Held(t)' /\ ~Settled(t)'
                         /\ Held(t)' => ~Settled(t)'
    BY <1>4, <1>5, <2>2, <2>3, <2>4, <2>5 DEF OnePlace
  <2> QED
    BY <1>3, <2>1, <2>6, <2>7 DEF OnePlace
<1>8. NeverLost'
  <2>1. \A t \in Tasks : Queued(t)' \/ t \in fetched <=> Queued(t) \/ t \in Due(now)
    BY <1>3 DEF Queued
  <2>2. \A t \in Tasks : Settled(t)' <=> Settled(t)
    BY <1>1 DEF Settled
  <2>3. \A t \in Due(now) : Scheduled(t)
    BY DEF Due
  <2> QED
    BY <1>1, <1>4, <2>1, <2>2, <2>3 DEF NeverLost
<1>9. Recoverable'
  BY <1>1, <1>3 DEF TypeOK, Recoverable, Registered
<1> QED
  BY <1>6, <1>7, <1>8, <1>9

(***************************************************************************)
(* A lease names tasks that the caller holds already: no id moves.         *)
(***************************************************************************)
LEMMA AcquireLeasesSafe ==
  ASSUME Safe, NEW w \in Workers, NEW S \in SUBSET Tasks, AcquireLeases(w, S)
  PROVE  Safe'
<1> USE DEF Safe
<1>1. /\ Registered(w)
      /\ S \subseteq inflight[w]
      /\ active' = LRem(active, S)
      /\ inflight' = [inflight EXCEPT ![w] = @ \cup S]
      /\ meta' = [t \in Tasks |->
                    IF t \in S THEN [meta[t] EXCEPT !.status = "Running"]
                    ELSE meta[t]]
      /\ UNCHANGED <<data, scheduled, signal, workers, done, dead, idempotency, issued>>
  BY DEF AcquireLeases, AllHeldBy
<1>2. active' = active
  <2>1. \A t \in S : Held(t)
    BY <1>1 DEF Held
  <2>2. Range(active) \cap S = {}
    BY <2>1 DEF OnePlace, Queued
  <2> QED
    BY <1>1, <2>2 DEF LRem
<1>3. inflight' = inflight
  BY <1>1 DEF TypeOK
<1>4. meta' \in [Tasks -> MetaFields]
  <2>1. \A t \in Tasks : [meta[t] EXCEPT !.status = "Running"] \in MetaFields
    BY DEF TypeOK, MetaFields, Statuses
  <2> QED
    BY <1>1, <2>1 DEF TypeOK
<1>5. TypeOK'
  BY <1>1, <1>2, <1>3, <1>4 DEF TypeOK
<1> QED
  BY <1>1, <1>2, <1>3, <1>5 DEF OnePlace, NeverLost, Recoverable, Scheduled, Queued, Held,
    Settled, Registered

(***************************************************************************)
(* A release moves ids from one inflight set back to the ready list.       *)
(***************************************************************************)
LEMMA ReleaseLeasesGivesBack ==
  ASSUME Safe, NEW w \in Workers, NEW S \in SUBSET Tasks, ReleaseLeases(w, S)
  PROVE  GivenBack(Released(w, S))
<1> USE DEF Safe
<1> DEFINE released == Released(w, S)
<1>1. /\ \E order \in SetToSeqs(released) : active' = active \o order
      /\ inflight' = [inflight EXCEPT ![w] = @ \ released]
      /\ UNCHANGED <<data, scheduled, workers, done, dead, idempotency, issued>>
  BY DEF ReleaseLeases
<1>2. released \subseteq inflight[w]
  BY DEF Released
<1> HIDE DEF released
<1>3. released \in SUBSET Tasks /\ \A t \in released : Held(t)
  BY <1>2 DEF TypeOK, Held
<1>4. \A v \in Workers : v # w => inflight[v] \ released = inflight[v]
  BY <1>2 DEF OnePlace
<1>5. inflight' = [v \in Workers |-> inflight[v] \ released]
  BY <1>1, <1>4 DEF TypeOK
<1>6. GivenBack(released)
  BY <1>1, <1>3, <1>5, AppendHeld DEF GivenBack
<1> QED
  BY <1>6 DEF released

LEMMA ReleaseLeasesSafe ==
  ASSUME Safe, NEW w \in Workers, NEW S \in SUBSET Tasks, ReleaseLeases(w, S)
  PROVE  Safe'
<1> DEFINE released == Released(w, S)
<1>1. /\ meta' = [t \in Tasks |->
                    IF t \in released
                    THEN [meta[t] EXCEPT !.status = "Pending"]
                    ELSE meta[t]]
      /\ signal' \in BOOLEAN
      /\ workers' = workers
  BY DEF ReleaseLeases, Safe, TypeOK
<1>2. GivenBack(released)
  BY ReleaseLeasesGivesBack
<1> HIDE DEF released
<1>3. meta' \in [Tasks -> MetaFields]
  <2>1. \A t \in Tasks :
          [meta[t] EXCEPT !.status = "Pending"] \in MetaFields
    BY DEF Safe, TypeOK, MetaFields, Statuses
  <2> QED
    BY <1>1, <2>1 DEF Safe, TypeOK
<1>4. TypeOK'
  BY <1>1, <1>2, <1>3 DEF Safe, TypeOK, GivenBack
<1>5. Recoverable'
  BY <1>1, <1>2 DEF Safe, TypeOK, GivenBack, Recoverable, Registered
<1> QED
  BY <1>2, <1>4, <1>5, GivenBackPlaces DEF Safe

(***************************************************************************)
(* What HandleResults applies: results for distinct tasks of one worker.   *)
(***************************************************************************)
LEMMA AppliedResults ==
  ASSUME TypeOK, NEW w \in Workers, NEW acks \in AckBatches, NEW n \in 1..Len(acks),
         Removable(w, acks, n)
  PROVE  LET B == Range(SubSeq(acks, 1, n)) IN
         /\ B \subseteq Range(acks) /\ B \subseteq Acks
         /\ \A a \in B : a.task \in inflight[w]
         /\ \A a, b \in B : a.task = b.task => a = b
<1> DEFINE s == SubSeq(acks, 1, n)
<1>1. acks \in Seq(Acks)
  BY ConstantsAssumption, SeqDef DEF AckBatches, BoundedSeq, SeqOf
<1>2. /\ Len(acks) \in Nat /\ n \in Nat
      /\ \A i \in 1..n : acks[i] \in Acks
  <2>1. Len(acks) \in Nat /\ n \in Nat /\ \A i \in 1..n : i \in 1..Len(acks)
    BY <1>1, LenProperties
  <2> QED
    BY <1>1, <2>1, ElementOfSeq
<1>3. /\ s \in Seq(Acks)
      /\ Len(s) = IF 1 <= n THEN n - 1 + 1 ELSE 0
      /\ \A i \in 1..(n - 1 + 1) : s[i] = acks[1 + i - 1]
  BY <1>2, SubSeqProperties
<1> HIDE DEF s
<1>4. DOMAIN s = 1..n /\ \A i \in 1..n : s[i] = acks[i]
  <2>1. Len(s) = n /\ n - 1 + 1 = n /\ \A i \in 1..n : 1 + i - 1 = i
    BY <1>2, <1>3
  <2> QED
    BY <1>3, <2>1, LenProperties
<1>5. Range(s) = {acks[i] : i \in 1..n}
  BY <1>4 DEF Range
<1>6. \A i, j \in 1..n : acks[i].task = acks[j].task => i = j
  <2> SUFFICES ASSUME NEW i \in 1..n, NEW j \in 1..n, j < i
               PROVE  acks[j].task # acks[i].task
    BY <1>2
  <2>1. j \in 1..(i - 1)
    BY <1>2
  <2> QED
    BY <2>1 DEF Removable
<1>7. Range(s) \subseteq Range(acks)
  BY <1>1, <1>2, <1>5, LenProperties DEF Range
<1> QED
  BY <1>2, <1>5, <1>6, <1>7 DEF Removable, s

(***************************************************************************)
(* Each result moves its task out of the reporting worker's inflight set   *)
(* and into exactly one of done, dead and scheduled.                       *)
(***************************************************************************)
LEMMA SettleSafe ==
  ASSUME Safe, NEW w \in Workers, NEW now \in Times, NEW B \in SUBSET Acks,
         \A a \in B : a.task \in inflight[w],
         \A a, b \in B : a.task = b.task => a = b,
         Settle(w, B, now)
  PROVE  Safe'
<1> USE DEF Safe
<1> DEFINE AckOf(t) == CHOOSE ack \in B : ack.task = t
           TasksOf(A) == {ack.task : ack \in A}
           succeeded == {ack \in B : ack.status = "Done"}
           retried == {ack \in B : Retryable(ack)}
           givenUp == (B \ succeeded) \ retried
           reported == TasksOf(B)
           D == TasksOf(succeeded)
           R == TasksOf(retried)
           K == TasksOf(givenUp)
<1>1. /\ inflight' = [inflight EXCEPT ![w] = @ \ reported]
      /\ done' = done \cup D
      /\ dead' = dead \cup K
      /\ scheduled' = [t \in Tasks |-> IF t \in R THEN Backoff(now, AckOf(t))
                                       ELSE scheduled[t]]
      /\ UNCHANGED <<data, active, signal, workers, idempotency, issued>>
  BY DEF Settle
<1>2. meta' = [t \in Tasks |->
                 IF t \in reported
                 THEN [meta[t] EXCEPT !.status = AckOf(t).status,
                                      !.attempts = AckOf(t).attempt,
                                      !.result = IF AckOf(t) \in succeeded
                                                 THEN "Ok" ELSE "Err",
                                      !.doneAt = now]
                 ELSE meta[t]]
  BY DEF Settle
<1>3. \A t \in reported : AckOf(t) \in B /\ AckOf(t).task = t
  OBVIOUS
<1>4. \A a \in B : /\ a.task \in Tasks /\ a.status \in Statuses
                   /\ a.attempt \in Attempts /\ a.attempt \in Nat
  BY ConstantsAssumption DEF Acks
<1>5. /\ reported \subseteq inflight[w] /\ reported \subseteq Tasks
      /\ reported = D \cup R \cup K
      /\ D \cap R = {} /\ D \cap K = {} /\ R \cap K = {}
  <2>1. reported \subseteq inflight[w] /\ reported \subseteq Tasks
    BY <1>4
  <2>2. succeeded \cap retried = {}
    BY DEF Retryable
  <2>3. reported = D \cup R \cup K
    OBVIOUS
  <2> QED
    BY <2>1, <2>2, <2>3
<1>6. \A t \in R : Backoff(now, AckOf(t)) \in Nat
  BY <1>3, <1>4, ConstantsAssumption DEF Backoff
<1>7. meta' \in [Tasks -> MetaFields]
  <2> HIDE DEF AckOf, succeeded, reported
  <2>1. \A t \in reported : AckOf(t).status \in Statuses /\ AckOf(t).attempt \in Attempts
    BY <1>3, <1>4
  <2>2. ASSUME NEW t \in reported, t \in Tasks
        PROVE  [meta[t] EXCEPT !.status = AckOf(t).status,
                               !.attempts = AckOf(t).attempt,
                               !.result = IF AckOf(t) \in succeeded THEN "Ok" ELSE "Err",
                               !.doneAt = now] \in MetaFields
    <3> DEFINE result == IF AckOf(t) \in succeeded THEN "Ok" ELSE "Err"
    <3>1. result \in {"Ok", "Err", None}
      OBVIOUS
    <3>2. meta[t] \in MetaFields /\ AckOf(t).status \in Statuses \cup {None}
          /\ AckOf(t).attempt \in Attempts \cup FirstAttempts \cup {None}
          /\ now \in Times \cup {None}
      BY <2>1, <2>2 DEF TypeOK
    <3> HIDE DEF result
    <3>3. \A m \in MetaFields, st \in Statuses \cup {None},
             at \in Attempts \cup FirstAttempts \cup {None} :
            [m EXCEPT !.status = st, !.attempts = at, !.result = result, !.doneAt = now]
              \in MetaFields
      BY <3>1, <3>2 DEF MetaFields
    <3>4. [meta[t] EXCEPT !.status = AckOf(t).status, !.attempts = AckOf(t).attempt,
                          !.result = result, !.doneAt = now] \in MetaFields
      BY <3>2, <3>3
    <3> QED
      BY <3>4 DEF result
  <2> QED
    BY <1>2, <2>2 DEF TypeOK
<1> HIDE DEF AckOf, succeeded, reported, D, R, K
<1>8. TypeOK'
  <2>1. scheduled' \in [Tasks -> Nat \cup {None}]
    BY <1>1, <1>6 DEF TypeOK
  <2>2. inflight' \in [Workers -> SUBSET Tasks] /\ done' \subseteq Tasks /\ dead' \subseteq Tasks
    BY <1>1, <1>5 DEF TypeOK
  <2> QED
    BY <1>1, <1>7, <2>1, <2>2 DEF TypeOK
<1>9. \A t \in reported : Held(t) /\ ~Scheduled(t) /\ ~Queued(t) /\ ~Settled(t)
  BY <1>5 DEF Held, OnePlace
<1>10. \A t \in Tasks : Held(t)' <=> Held(t) /\ t \notin reported
  BY <1>1, <1>5 DEF TypeOK, Held, OnePlace
<1>11. \A t \in Tasks : Scheduled(t)' <=> Scheduled(t) \/ t \in R
  BY <1>1, <1>6, NoneIsNew DEF TypeOK, Scheduled
<1>12. \A t \in Tasks : Settled(t)' <=> Settled(t) \/ t \in D \/ t \in K
  BY <1>1 DEF Settled
<1>13. \A t \in Tasks : Queued(t)' <=> Queued(t)
  BY <1>1 DEF Queued
<1>14. OnePlace'
  <2>1. \A u, v \in Workers : u # v => inflight'[u] \cap inflight'[v] = {}
    BY <1>1 DEF TypeOK, OnePlace
  <2>2. done' \cap dead' = {}
    BY <1>1, <1>5, <1>9 DEF OnePlace, Settled
  <2>3. IsInjective(active')
    BY <1>1 DEF OnePlace
  <2>4. \A t \in Tasks :
          /\ Scheduled(t)' => ~Queued(t)' /\ ~Held(t)' /\ ~Settled(t)'
          /\ Queued(t)' => ~Held(t)' /\ ~Settled(t)'
          /\ Held(t)' => ~Settled(t)'
    BY <1>5, <1>9, <1>10, <1>11, <1>12, <1>13 DEF OnePlace
  <2> QED
    BY <2>1, <2>2, <2>3, <2>4 DEF OnePlace
<1>15. NeverLost'
  BY <1>1, <1>5, <1>9, <1>10, <1>11, <1>12, <1>13 DEF NeverLost
<1>16. Recoverable'
  BY <1>1 DEF TypeOK, Recoverable, Registered
<1> QED
  BY <1>8, <1>14, <1>15, <1>16

LEMMA HandleResultsSafe ==
  ASSUME Safe, NEW w \in Workers, NEW acks \in AckBatches, NEW now \in Times,
         HandleResults(w, acks, now)
  PROVE  Safe'
<1>1. PICK n \in 1..Len(acks) : /\ Removable(w, acks, n)
                                /\ Settle(w, Range(SubSeq(acks, 1, n)), now)
  BY DEF HandleResults
<1>2. TypeOK
  BY DEF Safe
<1> QED
  BY <1>1, <1>2, AppliedResults, SettleSafe

-----------------------------------------------------------------------------
(***************************************************************************)
(* Safe is inductive.                                                      *)
(***************************************************************************)
LEMMA NextSafe == Safe /\ [Next]_vars => Safe'
<1> SUFFICES ASSUME Safe, [Next]_vars PROVE Safe'
  OBVIOUS
<1>1. CASE Push
  BY <1>1, PushSafe
<1>2. ASSUME NEW k \in Keys, IdempotencyExpire(k) PROVE Safe'
  BY <1>2, IdempotencyExpireSafe
<1>3. ASSUME NEW w \in Workers, NEW now \in Times,
             RegisterWorker(w, now) \/ KeepAlive(w, now)
      PROVE  Safe'
  BY <1>3, WorkerSetSafe
<1>4. ASSUME NEW w \in Workers, CloseWorker(w) PROVE Safe'
  BY <1>4, InflightKeysAreNoNames
     DEF CloseWorker, ZRem, InflightKey, Safe, TypeOK, OnePlace, NeverLost, Recoverable,
       Scheduled, Queued, Held, Settled, Registered
<1>5. ASSUME NEW only \in Workers \cup {None}, NEW cutoff \in Times,
             ReenqueueOrphaned(only, cutoff)
      PROVE  Safe'
  BY <1>5, ReenqueueOrphanedSafe
<1>6. ASSUME NEW w \in Workers, NEW now \in Times, FetchNext(w, now) PROVE Safe'
  BY <1>6, FetchNextSafe
<1>7. ASSUME NEW w \in Workers, NEW S \in SUBSET Tasks,
             AcquireLeases(w, S) \/ ReleaseLeases(w, S)
      PROVE  Safe'
  BY <1>7, AcquireLeasesSafe, ReleaseLeasesSafe
<1>8. ASSUME NEW w \in Workers, NEW acks \in AckBatches, NEW now \in Times,
             HandleResults(w, acks, now)
      PROVE  Safe'
  BY <1>8, HandleResultsSafe
<1>9. ASSUME NEW S \in SUBSET data, Forget(S) PROVE Safe'
  BY <1>9, ForgetSafe
<1>10. CASE Vacuum
  BY <1>9, <1>10 DEF Vacuum, Vacuumed
<1>11. ASSUME NEW cutoff \in Times, VacuumBefore(cutoff) PROVE Safe'
  BY <1>9, <1>11 DEF VacuumBefore, VacuumedBefore, Vacuumed
<1>12. CASE UNCHANGED vars
  BY <1>12 DEF vars, Safe, TypeOK, OnePlace, NeverLost, Recoverable, Scheduled, Queued,
    Held, Settled, Registered
<1> QED
  BY <1>1, <1>2, <1>3, <1>4, <1>5, <1>6, <1>7, <1>8, <1>10, <1>11, <1>12 DEF Next

(***************************************************************************)
(* Every reachable state of a queue is well typed, has every accepted id   *)
(* in exactly one place and every holder of tasks registered.              *)
(***************************************************************************)
THEOREM Safety == Spec => []Safe
  BY InitSafe, NextSafe, PTL DEF Spec

(***************************************************************************)
(* Every variable keeps its type.                                          *)
(***************************************************************************)
THEOREM TypeCorrect == Spec => []TypeOK
  BY Safety, PTL DEF Safe

(***************************************************************************)
(* No call of any client puts a task in two places.                        *)
(***************************************************************************)
THEOREM NoTaskTwice == Spec => []OnePlace
  BY Safety, PTL DEF Safe

(***************************************************************************)
(* No call of any client loses a task that was accepted.                   *)
(***************************************************************************)
THEOREM NoTaskLost == Spec => []NeverLost
  BY Safety, PTL DEF Safe

(***************************************************************************)
(* Whatever a worker holds can be swept when it dies.                      *)
(***************************************************************************)
THEOREM HoldersAreRegistered == Spec => []Recoverable
  BY Safety, PTL DEF Safe
=============================================================================
