------------------------ MODULE RedisQueueRefinement ------------------------
(***************************************************************************)
(* Proof that RedisQueue implements TaskQueue under the mapping phaseOf,   *)
(* holderOf.  Safe makes the mapping a function of the place of a task:    *)
(* the tests of Phase exclude each other and at most one worker holds a    *)
(* task, so each action has only to say which tasks change place.          *)
(***************************************************************************)
EXTENDS RedisQueueProofs

Waiting(t) == Scheduled(t) \/ Queued(t)

\* What the mapping says of the place of a task.
PhaseIsPlace ==
  \A t \in Tasks :
    /\ Phase(t) = "done" <=> t \in done
    /\ Phase(t) = "dead" <=> t \in dead
    /\ Phase(t) = "held" <=> Held(t)
    /\ Phase(t) = "waiting" <=> Waiting(t)
    /\ Phase(t) = "absent" <=> t \notin issued
    /\ Phase(t) \in {"done", "dead", "held", "waiting", "absent"}

HolderIsPlace ==
  \A t \in Tasks :
    /\ \A w \in Workers : Holder(t) = w <=> t \in inflight[w]
    /\ Holder(t) = None <=> ~Held(t)
    /\ Holder(t) \in Workers \cup {None}

LEMMA PhaseOfPlace == Safe => PhaseIsPlace
  BY DEF Safe, OnePlace, NeverLost, PhaseIsPlace, Phase, Waiting, Settled

LEMMA HolderOfPlace == Safe => HolderIsPlace
<1> SUFFICES ASSUME Safe, NEW t \in Tasks
             PROVE  /\ \A w \in Workers : Holder(t) = w <=> t \in inflight[w]
                    /\ Holder(t) = None <=> ~Held(t)
                    /\ Holder(t) \in Workers \cup {None}
  BY DEF HolderIsPlace
<1>1. ASSUME NEW v \in Workers, t \in inflight[v] PROVE Holder(t) = v
  <2>1. \A w \in Workers : t \in inflight[w] => w = v
    BY <1>1 DEF Safe, OnePlace
  <2>2. Held(t)
    BY <1>1 DEF Held
  <2>3. Holder(t) \in Workers /\ t \in inflight[Holder(t)]
    BY <1>1, <2>2 DEF Holder
  <2> QED
    BY <2>1, <2>3
<1>2. ~Held(t) => Holder(t) = None
  BY DEF Holder
<1>3. \A w \in Workers : w # None
  BY NoneIsNew
<1> QED
  BY <1>1, <1>2, <1>3 DEF Held

(***************************************************************************)
(* When the places of all tasks change as given, the mapped state changes  *)
(* accordingly: the tasks of S go to phase p of holder h, the others stay. *)
(***************************************************************************)
LEMMA MappedStep ==
  ASSUME Safe, Safe', NEW F \in [Tasks -> {"done", "dead", "held", "waiting", "absent"}],
         \A t \in Tasks : /\ F[t] = "done" => t \in done'
                          /\ F[t] = "dead" => t \in dead'
                          /\ F[t] = "held" => Held(t)'
                          /\ F[t] = "waiting" => Waiting(t)'
                          /\ F[t] = "absent" => t \notin issued'
  PROVE  phaseOf' = F
<1>1. PhaseIsPlace'
  BY PhaseOfPlace, PTL
<1>2. \A t \in Tasks : Phase(t)' = F[t]
  BY <1>1 DEF PhaseIsPlace
<1> QED
  BY <1>2 DEF phaseOf

LEMMA MappedHolder ==
  ASSUME Safe, Safe', NEW G \in [Tasks -> Workers \cup {None}],
         \A t \in Tasks : \A w \in Workers : G[t] = w <=> t \in inflight'[w]
  PROVE  holderOf' = G
<1>1. HolderIsPlace'
  BY HolderOfPlace, PTL
<1>2. ASSUME NEW t \in Tasks PROVE Holder(t)' = G[t]
  <2>1. CASE Held(t)'
    <3>1. PICK w \in Workers : t \in inflight'[w]
      BY <2>1 DEF Held
    <3> QED
      BY <1>1, <3>1 DEF HolderIsPlace
  <2>2. CASE ~Held(t)'
    <3>1. \A w \in Workers : t \notin inflight'[w]
      BY <2>2 DEF Held
    <3> QED
      BY <1>1, <2>2, <3>1 DEF HolderIsPlace
  <2> QED
    BY <2>1, <2>2
<1> QED
  BY <1>2 DEF holderOf

(***************************************************************************)
(* The mapped state depends on the places only.                            *)
(***************************************************************************)
LEMMA SamePlaces ==
  ASSUME Safe, Safe',
         \A t \in Tasks : Waiting(t)' <=> Waiting(t),
         UNCHANGED <<inflight, done, dead, issued>>
  PROVE  UNCHANGED <<phaseOf, holderOf>>
<1>1. \A t \in Tasks : Held(t)' <=> Held(t)
  BY DEF Held
<1>2. PhaseIsPlace /\ HolderIsPlace
  BY PhaseOfPlace, HolderOfPlace
<1>3. phaseOf \in [Tasks -> {"done", "dead", "held", "waiting", "absent"}]
  BY <1>2 DEF phaseOf, PhaseIsPlace
<1>4. holderOf \in [Tasks -> Workers \cup {None}]
  BY <1>2 DEF holderOf, HolderIsPlace
<1>5. \A t \in Tasks : /\ phaseOf[t] = "done" => t \in done'
                       /\ phaseOf[t] = "dead" => t \in dead'
                       /\ phaseOf[t] = "held" => Held(t)'
                       /\ phaseOf[t] = "waiting" => Waiting(t)'
                       /\ phaseOf[t] = "absent" => t \notin issued'
  BY <1>1, <1>2 DEF phaseOf, PhaseIsPlace
<1>6. \A t \in Tasks : \A w \in Workers : holderOf[t] = w <=> t \in inflight'[w]
  BY <1>2 DEF holderOf, HolderIsPlace
<1> QED
  BY <1>3, <1>4, <1>5, <1>6, MappedStep, MappedHolder

LEMMA MappingType ==
  ASSUME Safe
  PROVE  /\ phaseOf \in [Tasks -> {"done", "dead", "held", "waiting", "absent"}]
         /\ holderOf \in [Tasks -> Workers \cup {None}]
         /\ \A t \in Tasks : /\ phaseOf[t] = "done" <=> t \in done
                             /\ phaseOf[t] = "dead" <=> t \in dead
                             /\ phaseOf[t] = "held" <=> Held(t)
                             /\ phaseOf[t] = "waiting" <=> Waiting(t)
                             /\ phaseOf[t] = "absent" <=> t \notin issued
                             /\ \A w \in Workers : holderOf[t] = w <=> t \in inflight[w]
                             /\ holderOf[t] = None <=> ~Held(t)
<1>1. PhaseIsPlace /\ HolderIsPlace
  BY PhaseOfPlace, HolderOfPlace
<1> QED
  BY <1>1 DEF phaseOf, holderOf, PhaseIsPlace, HolderIsPlace

LEMMA InitRefines == Init => Abstract!Init
<1> SUFFICES ASSUME Init PROVE Abstract!Init
  OBVIOUS
<1>1. Range(active) = {}
  BY DEF Init, Range
<1>2. \A t \in Tasks : Phase(t) = "absent" /\ Holder(t) = None
  BY <1>1 DEF Init, Phase, Holder, Held, Scheduled, Queued
<1> QED
  BY <1>2 DEF Abstract!Init, phaseOf, holderOf

(***************************************************************************)
(* A push that is accepted submits its task.                               *)
(***************************************************************************)
LEMMA PushRefines ==
  ASSUME Safe, Safe', Push
  PROVE  [Abstract!Next]_<<phaseOf, holderOf>>
<1>1. PICK t \in Tasks, runAt \in Times, now \in Times :
        (t \in issued => t \in data) /\ BatchPush(t, runAt, now)
  BY DEF Push
<1>2. UNCHANGED <<inflight, done, dead>>
  BY <1>1 DEF BatchPush
<1>3. CASE UNCHANGED <<scheduled, active, issued>>
  <2>1. \A u \in Tasks : Waiting(u)' <=> Waiting(u)
    BY <1>3 DEF Waiting, Scheduled, Queued
  <2> QED
    BY <1>2, <1>3, <2>1, SamePlaces
<1>4. ASSUME t \notin data, NEW key \in Keys \cup {None}, NEW attempts \in FirstAttempts,
             Enqueue(t, key, attempts, ScheduleTime(runAt, now))
      PROVE  [Abstract!Next]_<<phaseOf, holderOf>>
  <2>1. t \notin issued /\ ~Held(t)
    BY <1>1, <1>4 DEF Safe, NeverLost
  <2>2. \A u \in Tasks : Waiting(u)' <=> Waiting(u) \/ u = t
    <3>1. CASE ScheduleTime(runAt, now) > 0 /\ UNCHANGED <<active, signal>>
               /\ scheduled' = [scheduled EXCEPT ![t] = ScheduleTime(runAt, now)]
      <4>1. ScheduleTime(runAt, now) # None
        BY ConstantsAssumption, NoneIsNew DEF ScheduleTime
      <4> QED
        BY <3>1, <4>1 DEF Safe, TypeOK, Waiting, Scheduled, Queued
    <3>2. CASE active' = Append(active, t) /\ UNCHANGED scheduled
      <4>1. Range(active') = Range(active) \cup {t}
        BY <3>2, AppendOne DEF Safe, TypeOK
      <4> QED
        BY <3>2, <4>1 DEF Waiting, Scheduled, Queued
    <3> QED
      BY <1>4, <3>1, <3>2 DEF Enqueue
  <2>3. issued' = issued \cup {t}
    BY <1>4 DEF Enqueue
  <2> DEFINE F == [u \in Tasks |-> IF u \in {t} THEN "waiting" ELSE phaseOf[u]]
  <2>4. phaseOf' = F
    <3>1. F \in [Tasks -> {"done", "dead", "held", "waiting", "absent"}]
      BY MappingType
    <3>2. \A u \in Tasks : /\ F[u] = "done" => u \in done'
                           /\ F[u] = "dead" => u \in dead'
                           /\ F[u] = "held" => Held(u)'
                           /\ F[u] = "waiting" => Waiting(u)'
                           /\ F[u] = "absent" => u \notin issued'
      BY <1>2, <2>2, <2>3, MappingType DEF Held
    <3> QED
      BY <3>1, <3>2, MappedStep
  <2>5. holderOf' = holderOf
    BY <1>2, MappingType, MappedHolder
  <2>6. phaseOf[t] = "absent"
    BY <2>1, MappingType
  <2>7. Abstract!Submit(t)
    BY <2>4, <2>5, <2>6 DEF Abstract!Submit, Abstract!MoveTo
  <2> QED
    BY <2>7 DEF Abstract!Next
<1> QED
  BY <1>1, <1>3, <1>4, PushCases

(***************************************************************************)
(* A fetch leases what it takes from the list; a promotion stutters.       *)
(***************************************************************************)
LEMMA FetchNextRefines ==
  ASSUME Safe, Safe', NEW w \in Workers, NEW now \in Times, FetchNext(w, now)
  PROVE  Abstract!Next
<1>1. scheduled' = WithoutDue(now) /\ UNCHANGED <<done, dead, issued>>
  BY DEF FetchNext
<1>2. PICK S \in SUBSET Tasks :
        /\ Range(active') \cup S = Range(active) \cup Due(now)
        /\ Range(active') \cap S = {}
        /\ inflight' = [inflight EXCEPT ![w] = @ \cup S]
  BY FetchNextMoves
<1>3. \A t \in Due(now) : t \in Tasks /\ Scheduled(t)
  BY DEF Due
<1>4. \A t \in S : Waiting(t)
  BY <1>2, <1>3 DEF Waiting, Queued
<1>5. \A t \in Tasks : Waiting(t) /\ t \notin S => Waiting(t)'
  BY <1>1, <1>2 DEF Waiting, Scheduled, Queued, WithoutDue
<1>6. \A t \in Tasks : Held(t)' <=> Held(t) \/ t \in S
  BY <1>2 DEF Held, Safe, TypeOK
<1>7. \A t \in S : phaseOf[t] = "waiting" /\ ~Held(t)
  BY <1>4, MappingType
<1> DEFINE F == [t \in Tasks |-> IF t \in S THEN "held" ELSE phaseOf[t]]
           G == [t \in Tasks |-> IF t \in S THEN w ELSE holderOf[t]]
<1>8. phaseOf' = F
  <2>1. F \in [Tasks -> {"done", "dead", "held", "waiting", "absent"}]
    BY MappingType
  <2>2. \A t \in Tasks : /\ F[t] = "done" => t \in done'
                         /\ F[t] = "dead" => t \in dead'
                         /\ F[t] = "held" => Held(t)'
                         /\ F[t] = "waiting" => Waiting(t)'
                         /\ F[t] = "absent" => t \notin issued'
    BY <1>1, <1>5, <1>6, MappingType
  <2> QED
    BY <2>1, <2>2, MappedStep
<1>9. holderOf' = G
  <2>1. G \in [Tasks -> Workers \cup {None}]
    BY MappingType
  <2>2. \A t \in Tasks : \A v \in Workers : G[t] = v <=> t \in inflight'[v]
    BY <1>2, <1>7, MappingType DEF Safe, TypeOK, Held
  <2> QED
    BY <2>1, <2>2, MappedHolder
<1>10. Abstract!Lease(w, S)
  BY <1>7, <1>8, <1>9 DEF Abstract!Lease, Abstract!MoveTo
<1> QED
  BY <1>10 DEF Abstract!Next

(***************************************************************************)
(* Sweeps and releases return tasks.                                       *)
(***************************************************************************)
LEMMA GivenBackRefines ==
  ASSUME Safe, Safe', NEW S \in SUBSET Tasks, GivenBack(S)
  PROVE  Abstract!Next
<1> USE DEF GivenBack
<1>1. \A t \in Tasks : Held(t)' <=> Held(t) /\ t \notin S
  BY DEF Held
<1>2. \A t \in Tasks : Waiting(t)' <=> Waiting(t) \/ t \in S
  BY DEF Waiting, Scheduled, Queued
<1> DEFINE F == [t \in Tasks |-> IF t \in S THEN "waiting" ELSE phaseOf[t]]
           G == [t \in Tasks |-> IF t \in S THEN None ELSE holderOf[t]]
<1>3. phaseOf' = F
  <2>1. F \in [Tasks -> {"done", "dead", "held", "waiting", "absent"}]
    BY MappingType
  <2>2. \A t \in Tasks : /\ F[t] = "done" => t \in done'
                         /\ F[t] = "dead" => t \in dead'
                         /\ F[t] = "held" => Held(t)'
                         /\ F[t] = "waiting" => Waiting(t)'
                         /\ F[t] = "absent" => t \notin issued'
    BY <1>1, <1>2, MappingType
  <2> QED
    BY <2>1, <2>2, MappedStep
<1>4. holderOf' = G
  <2>1. G \in [Tasks -> Workers \cup {None}]
    BY MappingType
  <2>2. \A t \in Tasks : \A v \in Workers : G[t] = v <=> t \in inflight'[v]
    BY MappingType, NoneIsNew
  <2> QED
    BY <2>1, <2>2, MappedHolder
<1>5. \A t \in S : phaseOf[t] = "held"
  BY MappingType
<1>6. Abstract!Return(S)
  BY <1>3, <1>4, <1>5 DEF Abstract!Return, Abstract!MoveTo, Abstract!LetGo
<1> QED
  BY <1>6 DEF Abstract!Next

(***************************************************************************)
(* Results settle tasks of one worker: done, dead or waiting again.        *)
(***************************************************************************)
SettledAs(w, D, K, R) ==
  /\ D \cap K = {} /\ R \cap (D \cup K) = {}
  /\ D \cup K \cup R \subseteq inflight[w]
  /\ inflight' = [inflight EXCEPT ![w] = @ \ (D \cup K \cup R)]
  /\ done' = done \cup D
  /\ dead' = dead \cup K
  /\ \A t \in Tasks : Scheduled(t)' <=> Scheduled(t) \/ t \in R
  /\ UNCHANGED <<active, issued>>

LEMMA SettleMoves ==
  ASSUME Safe, NEW w \in Workers, NEW now \in Times, NEW B \in SUBSET Acks,
         \A a \in B : a.task \in inflight[w],
         \A a, b \in B : a.task = b.task => a = b,
         Settle(w, B, now)
  PROVE  \E D, K, R \in SUBSET Tasks : SettledAs(w, D, K, R)
<1> DEFINE AckOf(t) == CHOOSE ack \in B : ack.task = t
           TasksOf(A) == {ack.task : ack \in A}
           succeeded == {ack \in B : ack.status = "Done"}
           retried == {ack \in B : Retryable(ack)}
           givenUp == (B \ succeeded) \ retried
           D == TasksOf(succeeded)
           R == TasksOf(retried)
           K == TasksOf(givenUp)
<1>1. /\ inflight' = [inflight EXCEPT ![w] = @ \ TasksOf(B)]
      /\ done' = done \cup D
      /\ dead' = dead \cup K
      /\ scheduled' = [t \in Tasks |-> IF t \in R THEN Backoff(now, AckOf(t))
                                       ELSE scheduled[t]]
      /\ UNCHANGED <<active, issued>>
  BY DEF Settle
<1>2. \A t \in R : AckOf(t) \in B
  OBVIOUS
<1>3. \A a \in B : a.task \in Tasks /\ a.attempt \in Nat
  BY ConstantsAssumption DEF Acks
<1>4. \A t \in R : Backoff(now, AckOf(t)) # None
  BY <1>2, <1>3, ConstantsAssumption, NoneIsNew DEF Backoff
<1>5. /\ TasksOf(B) = D \cup K \cup R
      /\ TasksOf(B) \subseteq inflight[w]
      /\ D \in SUBSET Tasks /\ K \in SUBSET Tasks /\ R \in SUBSET Tasks
  BY <1>3
<1>6. D \cap K = {} /\ R \cap (D \cup K) = {}
  <2>1. succeeded \cap retried = {}
    BY DEF Retryable
  <2> QED
    BY <2>1
<1>7. \A t \in Tasks : Scheduled(t)' <=> Scheduled(t) \/ t \in R
  <2> HIDE DEF R, AckOf
  <2> QED
    BY <1>1, <1>4 DEF Scheduled
<1> HIDE DEF D, K, R
<1>8. inflight' = [inflight EXCEPT ![w] = @ \ (D \cup K \cup R)]
  BY <1>1, <1>5
<1>9. SettledAs(w, D, K, R)
  BY <1>1, <1>5, <1>6, <1>7, <1>8 DEF SettledAs
<1> QED
  BY <1>5, <1>9

LEMMA SettleRefines ==
  ASSUME Safe, Safe', NEW w \in Workers, NEW now \in Times, NEW B \in SUBSET Acks,
         \A a \in B : a.task \in inflight[w],
         \A a, b \in B : a.task = b.task => a = b,
         Settle(w, B, now)
  PROVE  Abstract!Next
<1>1. PICK D \in SUBSET Tasks, K \in SUBSET Tasks, R \in SUBSET Tasks : SettledAs(w, D, K, R)
  BY SettleMoves
<1> USE DEF SettledAs
<1> DEFINE reported == D \cup K \cup R
           F == [t \in Tasks |-> CASE t \in D -> "done"
                                   [] t \in K -> "dead"
                                   [] t \in R -> "waiting"
                                   [] OTHER -> phaseOf[t]]
           G == [t \in Tasks |-> IF t \in reported THEN None ELSE holderOf[t]]
<1>2. \A t \in Tasks : Held(t)' <=> Held(t) /\ t \notin reported
  BY <1>1 DEF Safe, TypeOK, OnePlace, Held
<1>3. \A t \in Tasks : Waiting(t)' <=> Waiting(t) \/ t \in R
  BY <1>1 DEF Waiting, Queued
<1>4. phaseOf' = F
  <2>1. \A t \in Tasks : /\ t \in D => F[t] = "done"
                         /\ t \in K => F[t] = "dead"
                         /\ t \in R => F[t] = "waiting"
                         /\ t \notin reported => F[t] = phaseOf[t]
    BY <1>1
  <2>2. F = [t \in Tasks |-> F[t]]
    OBVIOUS
  <2> HIDE DEF F
  <2>3. F \in [Tasks -> {"done", "dead", "held", "waiting", "absent"}]
    <3>1. \A t \in Tasks : F[t] \in {"done", "dead", "held", "waiting", "absent"}
      BY <2>1, MappingType
    <3> QED
      BY <2>2, <3>1
  <2>4. \A t \in Tasks : /\ F[t] = "done" => t \in done'
                         /\ F[t] = "dead" => t \in dead'
                         /\ F[t] = "held" => Held(t)'
                         /\ F[t] = "waiting" => Waiting(t)'
                         /\ F[t] = "absent" => t \notin issued'
    BY <1>1, <1>2, <1>3, <2>1, MappingType
  <2> QED
    BY <2>3, <2>4, MappedStep
<1>5. holderOf' = G
  <2>1. G \in [Tasks -> Workers \cup {None}]
    BY MappingType
  <2>2. \A t \in reported : \A v \in Workers : t \notin inflight'[v]
    BY <1>1, <1>2 DEF Held
  <2>3. \A t \in Tasks \ reported : \A v \in Workers : t \in inflight'[v] <=> t \in inflight[v]
    BY <1>1 DEF Safe, TypeOK
  <2>4. \A t \in Tasks : \A v \in Workers : G[t] = v <=> t \in inflight'[v]
    BY <2>2, <2>3, MappingType, NoneIsNew
  <2> QED
    BY <2>1, <2>4, MappedHolder
<1>6. reported \subseteq {t \in Tasks : phaseOf[t] = "held" /\ holderOf[t] = w}
  BY <1>1, MappingType DEF Held
<1>7. Abstract!Settle(w, D, K, R)
  BY <1>1, <1>4, <1>5, <1>6 DEF Abstract!Settle, Abstract!HeldBy, Abstract!LetGo
<1> QED
  BY <1>7 DEF Abstract!Next

-----------------------------------------------------------------------------
LEMMA NextRefines ==
  ASSUME Safe, Safe', [Next]_vars
  PROVE  [Abstract!Next]_<<phaseOf, holderOf>>
<1> DEFINE Goal == [Abstract!Next]_<<phaseOf, holderOf>>
<1>1. CASE Push
  BY <1>1, PushRefines
<1>2. ASSUME UNCHANGED <<scheduled, active, inflight, done, dead, issued>> PROVE Goal
  <2>1. \A t \in Tasks : Waiting(t)' <=> Waiting(t)
    BY <1>2 DEF Waiting, Scheduled, Queued
  <2> QED
    BY <1>2, <2>1, SamePlaces
<1>3. ASSUME NEW k \in Keys, IdempotencyExpire(k) PROVE Goal
  BY <1>2, <1>3 DEF IdempotencyExpire
<1>4. ASSUME NEW w \in Workers, NEW now \in Times,
             RegisterWorker(w, now) \/ KeepAlive(w, now)
      PROVE  Goal
  BY <1>2, <1>4 DEF RegisterWorker, KeepAlive
<1>5. ASSUME NEW w \in Workers, CloseWorker(w) PROVE Goal
  BY <1>2, <1>5 DEF CloseWorker
<1>6. ASSUME NEW only \in Workers \cup {None}, NEW cutoff \in Times,
             ReenqueueOrphaned(only, cutoff)
      PROVE  Goal
  BY <1>6, ReenqueueOrphanedGivesBack, GivenBackRefines
<1>7. ASSUME NEW w \in Workers, NEW now \in Times, FetchNext(w, now) PROVE Goal
  BY <1>7, FetchNextRefines
<1>8. ASSUME NEW w \in Workers, NEW S \in SUBSET Tasks, AcquireLeases(w, S) PROVE Goal
  <2>1. S \subseteq inflight[w] /\ \A t \in S : Held(t)
    BY <1>8 DEF AcquireLeases, AllHeldBy, Held
  <2>2. Range(active) \cap S = {}
    BY <2>1 DEF Safe, OnePlace, Queued
  <2>3. active' = active /\ inflight' = inflight
    BY <1>8, <2>1, <2>2 DEF AcquireLeases, LRem, Safe, TypeOK
  <2> QED
    BY <1>2, <1>8, <2>3 DEF AcquireLeases
<1>9. ASSUME NEW w \in Workers, NEW S \in SUBSET Tasks, ReleaseLeases(w, S) PROVE Goal
  <2>1. Released(w, S) \in SUBSET Tasks
    BY DEF Released, Safe, TypeOK
  <2> QED
    BY <1>9, <2>1, ReleaseLeasesGivesBack, GivenBackRefines
<1>10. ASSUME NEW w \in Workers, NEW acks \in AckBatches, NEW now \in Times,
              HandleResults(w, acks, now)
       PROVE  Goal
  <2>1. PICK n \in 1..Len(acks) : /\ Removable(w, acks, n)
                                  /\ Settle(w, Range(SubSeq(acks, 1, n)), now)
    BY <1>10 DEF HandleResults
  <2>2. TypeOK
    BY DEF Safe
  <2> QED
    BY <2>1, <2>2, AppliedResults, SettleRefines
<1>11. CASE Vacuum
  BY <1>2, <1>11 DEF Vacuum, Forget
<1>12. ASSUME NEW cutoff \in Times, VacuumBefore(cutoff) PROVE Goal
  BY <1>2, <1>12 DEF VacuumBefore, Forget
<1>13. CASE UNCHANGED vars
  BY <1>2, <1>13 DEF vars
<1> QED
  BY <1>1, <1>3, <1>4, <1>5, <1>6, <1>7, <1>8, <1>9, <1>10, <1>11, <1>12, <1>13 DEF Next

(***************************************************************************)
(* The scripts implement the abstract queue, whatever calls are made: a    *)
(* task has one holder at a time, is settled once and by its holder, and   *)
(* goes back to wait in every other case.                                  *)
(***************************************************************************)
THEOREM Refinement == Spec => ImplementsTaskQueue
<1>1. Init => Abstract!Init
  BY InitRefines
<1>2. Safe /\ Safe' /\ [Next]_vars => [Abstract!Next]_(Abstract!abstractVars)
  BY NextRefines DEF Abstract!abstractVars
<1> QED
  BY <1>1, <1>2, Safety, PTL DEF Spec, ImplementsTaskQueue, Abstract!Spec
=============================================================================
