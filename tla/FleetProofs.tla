---------------------------- MODULE FleetProofs ----------------------------
(***************************************************************************)
(* Proofs, for any number of workers, tasks and faults, that the processes *)
(* of WorkerFleet make only calls that RedisQueue allows, and that what a  *)
(* process works on stays leased to it as long as its name is in the       *)
(* worker set.                                                             *)
(*                                                                         *)
(* Both rest on one inductive invariant.  That a call is allowed needs the *)
(* types of what the processes send: an attempt number is within bounds    *)
(* because a fetch returns tasks that are not settled, which have made     *)
(* fewer than RetryLimit attempts or none since they were pushed, and a    *)
(* report is no longer than the number of tasks because a process never    *)
(* has two results for one task.  That in turn needs the leases: a fetch   *)
(* returns no task that the process works on already because those are in  *)
(* its inflight set.                                                       *)
(***************************************************************************)
EXTENDS WorkerFleet, QueueStatusProofs

\* The attempts of a task that is not settled.
OpenAttempts == {a \in Attempts : a < RetryLimit} \cup FirstAttempts

\* The attempts of a task are counted up to RetryLimit, where it is given up.
AttemptsOK(t) ==
  /\ ~Settled(t) /\ meta[t].attempts # None => meta[t].attempts \in OpenAttempts
  /\ ~Settled(t) /\ meta[t].doneAt # None => meta[t].attempts < RetryLimit
  /\ t \in dead /\ meta[t].status \in {"Failed", "Pending"} =>
       meta[t].attempts \in LastAttempts

AttemptsInv == \A t \in Tasks : AttemptsOK(t)

\* A result counts one attempt on top of those of a task that was not settled.
ResultsInBounds(A) == \A a \in A : \E n \in OpenAttempts : a.attempt = n + 1

ProcessInv(w) ==
  /\ ~Up(w) => Working(w) = {} /\ results[w] = {} /\ acking[w] = {}
  /\ Working(w) \subseteq issued
  /\ Registered(w) => Working(w) \subseteq inflight[w]
  /\ ready[w] \cap running[w] = {}
  /\ (ready[w] \cup running[w]) \cap TasksIn(results[w] \cup acking[w]) = {}
  /\ \A a, b \in results[w] \cup acking[w] : a.task = b.task => a = b
  /\ results[w] \cap acking[w] = {}
  /\ \A t \in ready[w] \cup running[w] : fetched[w][t] \in OpenAttempts
  /\ ResultsInBounds(results[w] \cup acking[w])

MemoryOK ==
  /\ clock \in OrphanedDuration..MaxTime
  /\ pc \in [Workers -> {"down", "refused", "starting", "up", "closing"}]
  /\ beating \in [Workers -> {"none", "renew", "sweep"}]
  /\ ready \in [Workers -> SUBSET Tasks]
  /\ running \in [Workers -> SUBSET Tasks]
  /\ fetched \in [Workers -> [Tasks -> Attempts \cup FirstAttempts \cup {None}]]
  /\ locks \in [Workers -> SUBSET Tasks]
  /\ results \in [Workers -> SUBSET Acks]
  /\ acking \in [Workers -> SUBSET Acks]

QueueInv == StatusInv /\ issued \subseteq data /\ AttemptsInv

FleetInv == QueueInv /\ MemoryOK /\ \A w \in Workers : ProcessInv(w)

-----------------------------------------------------------------------------
(***************************************************************************)
(* Every reading of the clock, and every cutoff taken from it, is a time   *)
(* that RedisQueue allows.                                                 *)
(***************************************************************************)
LEMMA ClockReadings ==
  ASSUME MemoryOK
  PROVE  /\ clock \in Times /\ clock + 1 \in Times /\ 0 \in Times
         /\ OwnCutoff \in Times /\ SweepCutoff \in Times
<1>1. /\ HeartbeatInterval \in Nat /\ MissedHeartbeats \in Nat /\ MissedHeartbeats > 0
      /\ MaxTime \in Nat /\ 0..(MaxTime + 1) \subseteq Times
  BY ConstantsAssumption, FleetAssumption
<1>2. OrphanedDuration \in Nat /\ HeartbeatInterval <= OrphanedDuration
  BY <1>1 DEF OrphanedDuration
<1>3. clock \in Nat /\ OrphanedDuration <= clock /\ clock <= MaxTime
  BY <1>1, <1>2 DEF MemoryOK
<1>4. clock - HeartbeatInterval \in 0..MaxTime /\ clock - OrphanedDuration \in 0..MaxTime
  BY <1>1, <1>2, <1>3
<1> QED
  BY <1>1, <1>3, <1>4 DEF OwnCutoff, SweepCutoff

(***************************************************************************)
(* A report of distinct tasks is a batch that RedisQueue allows.           *)
(***************************************************************************)
LEMMA ReportsAreBatches ==
  ASSUME NEW A \in SUBSET Acks, \A a, b \in A : a.task = b.task => a = b,
         NEW acks \in SetToSeqs(A)
  PROVE  acks \in AckBatches /\ Range(acks) = A
<1> DEFINE T == {t \in Tasks : \E a \in A : a.task = t}
           ackOf == [t \in T |-> CHOOSE a \in A : a.task = t]
<1>1. IsFiniteSet(Tasks) /\ AckLimit \in Nat /\ AckLimit >= Cardinality(Tasks)
  BY ConstantsAssumption, FleetAssumption
<1>2. /\ IsFiniteSet(T) /\ Cardinality(T) \in Nat /\ Cardinality(Tasks) \in Nat
      /\ Cardinality(T) <= Cardinality(Tasks)
  BY <1>1, FS_Subset, FS_CardinalityType
<1>3. ackOf \in Surjection(T, A)
  <2>1. ASSUME NEW a \in A PROVE a.task \in T /\ ackOf[a.task] = a
    BY DEF Acks
  <2>2. ackOf \in [T -> A]
    OBVIOUS
  <2> QED
    BY <2>1, <2>2 DEF Surjection
<1>4. IsFiniteSet(A) /\ Cardinality(A) <= Cardinality(T)
  BY <1>2, <1>3, FS_Surjection
<1> DEFINE n == Cardinality(A)
<1>5. n \in Nat /\ n <= AckLimit
  BY <1>1, <1>2, <1>4, FS_CardinalityType
<1>6. acks \in [1..n -> A]
  BY DEF SetToSeqs
<1>7. acks \in [1..n -> Acks] /\ n \in 0..AckLimit
  BY <1>1, <1>5, <1>6
<1> HIDE DEF n
<1>8. acks \in AckBatches
  BY <1>7 DEF AckBatches, BoundedSeq, SeqOf
<1> QED
  BY <1>4, <1>8, OrderOfSet

(***************************************************************************)
(* The tasks of two sets of results.                                       *)
(***************************************************************************)
LEMMA TasksOfResults ==
  ASSUME NEW A, NEW B
  PROVE  /\ \A a \in A : a.task \in TasksIn(A)
         /\ TasksIn(A \cup B) = TasksIn(A) \cup TasksIn(B)
  BY DEF TasksIn

-----------------------------------------------------------------------------
(* What a step of one process does to the queue and to the others.         *)

\* The step is one that RedisQueue allows, it deletes no payload, and the
\* results that it applies are those of A.
QueueStep(A) ==
  /\ [Next]_vars
  /\ issued' \subseteq data'
  /\ MetaSteps(A)

\* v loses no lease, unless it is no longer registered.
Keeps(v) == Registered(v)' => Registered(v) /\ inflight[v] \subseteq inflight'[v]

SameMemory(v) ==
  /\ Up(v)' <=> Up(v)
  /\ ready'[v] = ready[v] /\ running'[v] = running[v] /\ fetched'[v] = fetched[v]
  /\ results'[v] = results[v] /\ acking'[v] = acking[v]

(***************************************************************************)
(* The attempts that one report writes.                                    *)
(***************************************************************************)
LEMMA ReportedAttempts ==
  ASSUME NEW t \in Tasks, meta[t] \in MetaFields, NEW ack \in Acks, NEW now \in Times,
         ResultsInBounds({ack}), Reported(t, ack, now)
  PROVE  AttemptsOK(t)'
<1>1. meta'[t].attempts = ack.attempt /\ meta'[t].status = ack.status
  BY DEF Reported, MetaFields
<1>2. ack.attempt \in Attempts /\ Attempts \subseteq Nat /\ RetryLimit \in Nat
  BY ConstantsAssumption DEF Acks
<1>3. ~Settled(t)' => ack.attempt < RetryLimit
  BY DEF Reported, Settled, Retryable
<1>4. ASSUME t \in dead', ack.status \in {"Failed", "Pending"}
      PROVE  ack.attempt \in LastAttempts
  <2>1. ~(ack.attempt < RetryLimit)
    BY <1>4 DEF Reported, Retryable
  <2>2. PICK n \in OpenAttempts : ack.attempt = n + 1
    BY DEF ResultsInBounds
  <2>3. n \in Nat
    BY ConstantsAssumption DEF OpenAttempts
  <2>4. CASE n < RetryLimit
    BY <1>2, <2>1, <2>2, <2>3, <2>4 DEF LastAttempts
  <2>5. CASE ~(n < RetryLimit)
    BY <1>2, <2>2, <2>3, <2>5 DEF LastAttempts, OpenAttempts
  <2> QED
    BY <2>4, <2>5
<1> QED
  BY <1>1, <1>2, <1>3, <1>4 DEF AttemptsOK, OpenAttempts

LEMMA QueueStepKeeps ==
  ASSUME QueueInv, NEW A \in SUBSET Acks, QueueStep(A), ResultsInBounds(A)
  PROVE  QueueInv' /\ issued \subseteq issued'
<1>1. StatusInv' /\ issued' \subseteq data' /\ issued \subseteq issued'
  BY NextStatus DEF QueueInv, QueueStep, MetaSteps
<1>2. ASSUME NEW t \in Tasks PROVE AttemptsOK(t)'
  <2>1. meta[t] \in MetaFields /\ AttemptsOK(t)
    BY DEF QueueInv, StatusInv, Safe, TypeOK, AttemptsInv
  <2>2. ASSUME meta'[t].attempts = meta[t].attempts, meta'[t].doneAt = meta[t].doneAt,
               meta'[t].status = meta[t].status \/ ~Settled(t), SamePlace(t)
        PROVE  AttemptsOK(t)'
    BY <2>1, <2>2 DEF AttemptsOK, SamePlace, Settled
  <2>3. CASE Untouched(t) \/ HalfStored(t)
    BY <2>2, <2>3 DEF Untouched, HalfStored
  <2>4. CASE Stored(t)
    <3>1. t \notin issued /\ SamePlace(t)
      BY <2>4 DEF Stored
    <3>2. meta[t] = NoMeta /\ ~Settled(t)
      BY <3>1 DEF QueueInv, StatusInv, MetaInv, MetaOK, Safe, NeverLost
    <3>3. PICK key \in Keys \cup {None}, attempts \in FirstAttempts :
            meta'[t] = [meta[t] EXCEPT !.status = "Pending", !.attempts = attempts,
                                       !.maxAttempts = TRUE, !.key = key]
      BY <2>4 DEF Stored
    <3>4. meta'[t].attempts \in FirstAttempts /\ meta'[t].doneAt = None
      BY <3>2, <3>3 DEF NoMeta
    <3> QED
      BY <3>1, <3>2, <3>4 DEF AttemptsOK, OpenAttempts, SamePlace, Settled
  <2>5. CASE Leased(t)
    BY <2>1, <2>2, <2>5 DEF Leased, MetaFields
  <2>6. ASSUME NEW ack \in A, NEW now \in Times, ack.task = t, Reported(t, ack, now)
        PROVE  AttemptsOK(t)'
    <3>1. ack \in Acks /\ ResultsInBounds({ack})
      BY <2>6 DEF ResultsInBounds
    <3> QED
      BY <2>1, <2>6, <3>1, ReportedAttempts
  <2>7. CASE Forgotten(t)
    <3>1. /\ meta'[t].attempts = None /\ meta'[t].doneAt = None
          /\ meta'[t].status \notin Statuses
      BY <2>7, ConstantsAssumption DEF Forgotten, NoMeta
    <3> QED
      BY <3>1 DEF AttemptsOK, Statuses
  <2> QED
    BY <2>3, <2>4, <2>5, <2>6, <2>7 DEF QueueStep, MetaSteps, MetaStep
<1> QED
  BY <1>1, <1>2 DEF QueueInv, AttemptsInv

(***************************************************************************)
(* A step of one process leaves the invariant of another one alone.        *)
(***************************************************************************)
LEMMA OthersKeep ==
  ASSUME MemoryOK, NEW v \in Workers, ProcessInv(v), SameMemory(v), Keeps(v),
         issued \subseteq issued'
  PROVE  ProcessInv(v)'
<1>1. Working(v)' = Working(v)
  BY DEF Working, SameMemory
<1>2. Registered(v)' => Working(v)' \subseteq inflight'[v]
  BY <1>1 DEF Keeps, ProcessInv
<1>3. ResultsInBounds(results[v] \cup acking[v])'
  BY DEF SameMemory, ProcessInv, ResultsInBounds
<1> QED
  BY <1>1, <1>2, <1>3 DEF ProcessInv, SameMemory

(***************************************************************************)
(* A process that has ended, or has not begun, has nothing in memory.      *)
(***************************************************************************)
LEMMA EmptyMemory ==
  ASSUME NEW w \in Workers,
         ready'[w] = {}, running'[w] = {}, results'[w] = {}, acking'[w] = {}
  PROVE  ProcessInv(w)'
  BY DEF ProcessInv, Working, TasksIn, ResultsInBounds

LEMMA StopEmpties ==
  ASSUME MemoryOK, NEW w \in Workers, Stop(w)
  PROVE  /\ ProcessInv(w)'
         /\ \A v \in Workers : v # w => SameMemory(v)
<1>1. /\ ready'[w] = {} /\ running'[w] = {} /\ results'[w] = {} /\ acking'[w] = {}
      /\ \A v \in Workers : v # w => SameMemory(v)
  BY DEF Stop, MemoryOK, SameMemory, Up
<1> QED
  BY <1>1, EmptyMemory

(***************************************************************************)
(* What remains to be shown of a step of process w.                        *)
(***************************************************************************)
LEMMA StepOfOne ==
  ASSUME FleetInv, NEW A \in SUBSET Acks, QueueStep(A), ResultsInBounds(A), MemoryOK',
         NEW w \in Workers, ProcessInv(w)',
         \A v \in Workers : v # w => SameMemory(v) /\ Keeps(v)
  PROVE  FleetInv'
<1>1. QueueInv' /\ issued \subseteq issued'
  BY QueueStepKeeps DEF FleetInv
<1>2. \A v \in Workers : v # w => ProcessInv(v)'
  BY <1>1, OthersKeep DEF FleetInv
<1> QED
  BY <1>1, <1>2 DEF FleetInv

\* A step that reports nothing and changes the memory of no process.
LEMMA StepOfNone ==
  ASSUME FleetInv, QueueStep({}), MemoryOK',
         \A v \in Workers : SameMemory(v) /\ Keeps(v)
  PROVE  FleetInv'
<1>1. ResultsInBounds({})
  BY DEF ResultsInBounds
<1>2. QueueInv' /\ issued \subseteq issued'
  BY <1>1, QueueStepKeeps DEF FleetInv
<1>3. \A v \in Workers : ProcessInv(v)'
  BY <1>2, OthersKeep DEF FleetInv
<1> QED
  BY <1>2, <1>3 DEF FleetInv

LEMMA NothingReported == {} \in SUBSET Acks /\ ResultsInBounds({})
  BY DEF ResultsInBounds

-----------------------------------------------------------------------------
(* The calls that processes make.                                          *)

LEMMA NoCall ==
  ASSUME FleetInv, UNCHANGED vars
  PROVE  QueueStep({}) /\ \A v \in Workers : Keeps(v)
<1>1. MetaSteps({})
  BY QuietSteps DEF vars
<1> QED
  BY <1>1 DEF QueueStep, Keeps, Registered, vars, FleetInv, QueueInv

LEMMA WorkerSetCalls ==
  ASSUME FleetInv, NEW w \in Workers,
         RegisterWorker(w, clock) \/ KeepAlive(w, clock) \/ CloseWorker(w)
  PROVE  /\ QueueStep({})
         /\ \A v \in Workers : v # w \/ ~RegisterWorker(w, clock) => Keeps(v)
<1>1. clock \in Times
  BY ClockReadings DEF FleetInv
<1>2. Next
  BY <1>1 DEF Next
<1>3. UNCHANGED <<data, meta, inflight, done, dead, issued>>
  BY DEF RegisterWorker, KeepAlive, CloseWorker
<1>4. QueueStep({})
  BY <1>2, <1>3, QuietSteps DEF QueueStep, FleetInv, QueueInv
<1>5. workers \in [Workers -> Times \cup {None}]
  BY DEF FleetInv, QueueInv, StatusInv, Safe, TypeOK
<1>6. ASSUME NEW v \in Workers, v # w \/ ~RegisterWorker(w, clock)
      PROVE  Keeps(v)
  <2>1. CASE RegisterWorker(w, clock)
    BY <1>3, <1>5, <1>6, <2>1 DEF RegisterWorker, Keeps, Registered
  <2>2. CASE KeepAlive(w, clock)
    BY <1>3, <1>5, <2>2 DEF KeepAlive, Keeps, Registered
  <2>3. CASE CloseWorker(w)
    BY <1>3, <1>5, <2>3, InflightKeysAreNoNames DEF CloseWorker, ZRem, Keeps, Registered
  <2> QED
    BY <2>1, <2>2, <2>3
<1> QED
  BY <1>4, <1>6

LEMMA SweepCall ==
  ASSUME FleetInv, NEW only \in Workers \cup {None}, NEW cutoff \in Times,
         ReenqueueOrphaned(only, cutoff)
  PROVE  QueueStep({}) /\ \A v \in Workers : Keeps(v)
<1>1. Next
  BY DEF Next
<1>2. UNCHANGED <<data, meta, done, dead, issued>>
  BY DEF ReenqueueOrphaned
<1>3. QueueStep({})
  BY <1>1, <1>2, QuietSteps DEF QueueStep, FleetInv, QueueInv
<1>4. PICK swept \in SUBSET Expired(only, cutoff) :
        /\ inflight' = [w \in Workers |-> IF w \in swept THEN {} ELSE inflight[w]]
        /\ workers' = [w \in Workers |-> IF w \in swept THEN None ELSE workers[w]]
  BY DEF ReenqueueOrphaned
<1>5. \A v \in Workers : Keeps(v)
  BY <1>4 DEF Keeps, Registered
<1> QED
  BY <1>3, <1>5

LEMMA FetchCall ==
  ASSUME FleetInv, NEW w \in Workers, FetchNext(w, clock)
  PROVE  QueueStep({}) /\ \A v \in Workers : Keeps(v)
<1>1. clock \in Times /\ Safe
  BY ClockReadings DEF FleetInv, QueueInv, StatusInv
<1>2. Next
  BY <1>1 DEF Next
<1>3. UNCHANGED <<data, meta, workers, done, dead, issued>>
  BY DEF FetchNext
<1>4. QueueStep({})
  BY <1>2, <1>3, QuietSteps DEF QueueStep, FleetInv, QueueInv
<1>5. PICK taken \in SUBSET Tasks : inflight' = [inflight EXCEPT ![w] = @ \cup taken]
  BY <1>1, FetchNextMoves
<1>6. \A v \in Workers : Keeps(v)
  BY <1>1, <1>3, <1>5 DEF Safe, TypeOK, Keeps, Registered
<1> QED
  BY <1>4, <1>6

LEMMA AcquireCall ==
  ASSUME FleetInv, NEW w \in Workers, AcquireLeases(w, locks[w])
  PROVE  QueueStep({}) /\ \A v \in Workers : Keeps(v)
<1>1. locks[w] \in SUBSET Tasks /\ Safe
  BY DEF FleetInv, MemoryOK, QueueInv, StatusInv
<1>2. Next
  BY <1>1 DEF Next
<1>3. UNCHANGED <<data, issued, workers>>
  BY DEF AcquireLeases
<1>4. QueueStep({})
  BY <1>1, <1>2, <1>3, AcquireLeasesMeta DEF QueueStep, FleetInv, QueueInv
<1>5. \A v \in Workers : Keeps(v)
  BY <1>1, <1>3 DEF AcquireLeases, Safe, TypeOK, Keeps, Registered
<1> QED
  BY <1>4, <1>5

LEMMA ReleaseCall ==
  ASSUME FleetInv, NEW w \in Workers, ReleaseLeases(w, ready[w])
  PROVE  QueueStep({}) /\ \A v \in Workers : v # w => Keeps(v)
<1>1. ready[w] \in SUBSET Tasks /\ Safe
  BY DEF FleetInv, MemoryOK, QueueInv, StatusInv
<1>2. Next
  BY <1>1 DEF Next
<1>3. UNCHANGED <<data, issued, workers>>
  BY DEF ReleaseLeases
<1>4. QueueStep({})
  BY <1>1, <1>2, <1>3, ReleaseLeasesMeta DEF QueueStep, FleetInv, QueueInv
<1>5. \A v \in Workers : v # w => Keeps(v)
  BY <1>1, <1>3 DEF ReleaseLeases, Safe, TypeOK, Keeps, Registered
<1> QED
  BY <1>4, <1>5

LEMMA ReportCall ==
  ASSUME FleetInv, NEW w \in Workers, NEW acks \in SetToSeqs(acking[w]),
         HandleResults(w, acks, clock)
  PROVE  /\ QueueStep(acking[w])
         /\ \A v \in Workers : v # w => Keeps(v)
         /\ UNCHANGED workers
         /\ inflight[w] \ TasksIn(acking[w]) \subseteq inflight'[w]
<1>1. /\ clock \in Times /\ Safe
      /\ acking[w] \in SUBSET Acks
      /\ \A a, b \in acking[w] : a.task = b.task => a = b
  BY ClockReadings DEF FleetInv, MemoryOK, QueueInv, StatusInv, ProcessInv
<1>2. acks \in AckBatches /\ Range(acks) = acking[w]
  BY <1>1, ReportsAreBatches
<1>3. Next
  BY <1>1, <1>2 DEF Next
<1>4. PICK n \in 1..Len(acks) : /\ Removable(w, acks, n)
                                /\ Settle(w, Range(SubSeq(acks, 1, n)), clock)
  BY DEF HandleResults
<1> DEFINE B == Range(SubSeq(acks, 1, n))
<1>5. B \subseteq acking[w]
  BY <1>1, <1>2, <1>4, AppliedResults DEF Safe
<1>6. /\ UNCHANGED <<data, issued, workers>>
      /\ inflight' = [inflight EXCEPT ![w] = @ \ {ack.task : ack \in B}]
  BY <1>4 DEF Settle
<1> HIDE DEF B
<1>7. QueueStep(acking[w])
  BY <1>1, <1>2, <1>3, <1>6, HandleResultsMeta DEF QueueStep, FleetInv, QueueInv
<1>8. \A v \in Workers : v # w => Keeps(v)
  BY <1>1, <1>6 DEF Safe, TypeOK, Keeps, Registered
<1>9. inflight[w] \ TasksIn(acking[w]) \subseteq inflight'[w]
  BY <1>1, <1>5, <1>6 DEF Safe, TypeOK, TasksIn
<1> QED
  BY <1>6, <1>7, <1>8, <1>9

LEMMA SubmitCall ==
  ASSUME FleetInv, NEW t \in Tasks, NEW runAt \in {0, clock + 1}, Submit(t, runAt)
  PROVE  QueueStep({}) /\ \A v \in Workers : Keeps(v)
<1>1. clock \in Times /\ runAt \in Times /\ Safe
  BY ClockReadings DEF FleetInv, QueueInv, StatusInv
<1>2. Push
  BY <1>1 DEF Submit, Push
<1>3. issued' \subseteq data' /\ UNCHANGED <<inflight, workers>>
  BY <1>1, PushCases DEF Submit, Enqueue, FleetInv, QueueInv
<1>4. QueueStep({})
  BY <1>1, <1>2, <1>3, PushMeta DEF QueueStep, Next
<1> QED
  BY <1>3, <1>4 DEF Keeps, Registered

-----------------------------------------------------------------------------
(* What the steps of a process do to its memory.                           *)

LEMMA StopSteps ==
  ASSUME FleetInv, NEW w \in Workers, Stop(w), clock' = clock,
         \/ UNCHANGED vars
         \/ CloseWorker(w)
         \/ ReenqueueOrphaned(None, SweepCutoff)
         \/ FetchNext(w, clock)
         \/ ReleaseLeases(w, ready[w])
         \/ \E acks \in SetToSeqs(acking[w]) : HandleResults(w, acks, clock)
  PROVE  FleetInv' /\ [Next]_vars
<1>1. MemoryOK'
  BY DEF FleetInv, MemoryOK, Stop, NothingFetched
<1>2. ProcessInv(w)' /\ \A v \in Workers : v # w => SameMemory(v)
  BY StopEmpties DEF FleetInv
<1>3. ASSUME NEW A \in SUBSET Acks, ResultsInBounds(A), QueueStep(A),
             \A v \in Workers : v # w => Keeps(v)
      PROVE  FleetInv' /\ [Next]_vars
  BY <1>1, <1>2, <1>3, StepOfOne DEF QueueStep
<1>4. CASE UNCHANGED vars
  BY <1>3, <1>4, NoCall, NothingReported
<1>5. CASE CloseWorker(w)
  BY <1>3, <1>5, WorkerSetCalls, NothingReported
<1>6. CASE ReleaseLeases(w, ready[w])
  BY <1>3, <1>6, ReleaseCall, NothingReported
<1>7. CASE ReenqueueOrphaned(None, SweepCutoff)
  <2>1. SweepCutoff \in Times
    BY ClockReadings DEF FleetInv
  <2> QED
    BY <1>3, <1>7, <2>1, SweepCall, NothingReported
<1>8. CASE FetchNext(w, clock)
  BY <1>3, <1>8, FetchCall, NothingReported
<1>9. ASSUME NEW acks \in SetToSeqs(acking[w]), HandleResults(w, acks, clock)
      PROVE  FleetInv' /\ [Next]_vars
  <2>1. acking[w] \in SUBSET Acks /\ ResultsInBounds(acking[w])
    BY DEF FleetInv, MemoryOK, ProcessInv, ResultsInBounds
  <2> QED
    BY <1>3, <1>9, <2>1, ReportCall
<1> QED
  BY <1>4, <1>5, <1>6, <1>7, <1>8, <1>9

\* Steps that change no process's buffers, running tasks or results.
LEMMA LifeSteps ==
  ASSUME FleetInv, NEW w \in Workers,
         \/ Start(w) \/ StartFails(w) \/ RegisterRefused(w) \/ Beat(w) \/ Renew(w)
         \/ Sweep(w)
  PROVE  FleetInv' /\ [Next]_vars
<1>1. OwnCutoff \in Times /\ SweepCutoff \in Times
  BY ClockReadings DEF FleetInv
<1>2. QueueStep({}) /\ \A v \in Workers : Keeps(v)
  <2>1. CASE Start(w) \/ StartFails(w)
    BY <1>1, <2>1, SweepCall DEF Start, StartFails
  <2>2. CASE Beat(w)
    <3>1. KeepAlive(w, clock) /\ Registered(w)
      BY <2>2 DEF Beat, KeepAlive
    <3>2. \A v \in Workers : Keeps(v)
      BY <3>1 DEF KeepAlive, Keeps, Registered, FleetInv, QueueInv, StatusInv, Safe, TypeOK
    <3> QED
      BY <3>1, <3>2, WorkerSetCalls
  <2>3. CASE Sweep(w)
    BY <1>1, <2>3, SweepCall DEF Sweep
  <2>4. CASE RegisterRefused(w) \/ Renew(w)
    BY <2>4, NoCall DEF RegisterRefused, Renew, queueVars
  <2> QED
    BY <2>1, <2>2, <2>3, <2>4
<1>3. /\ clock' = clock
      /\ UNCHANGED <<ready, running, fetched, locks, results, acking>>
  BY DEF Start, StartFails, RegisterRefused, Beat, Renew, Sweep
<1>4. pc' \in [Workers -> {"down", "refused", "starting", "up", "closing"}]
      /\ \A v \in Workers : Up(v)' <=> Up(v)
  BY DEF Start, StartFails, RegisterRefused, Beat, Renew, Sweep, FleetInv, MemoryOK, Up
<1>5. beating' \in [Workers -> {"none", "renew", "sweep"}]
  BY DEF Start, StartFails, RegisterRefused, Beat, Renew, Sweep, FleetInv, MemoryOK
<1>6. MemoryOK'
  BY <1>3, <1>4, <1>5 DEF FleetInv, MemoryOK
<1>7. \A v \in Workers : SameMemory(v)
  BY <1>3, <1>4 DEF SameMemory
<1> QED
  BY <1>2, <1>6, <1>7, StepOfNone DEF QueueStep

LEMMA RegisterStep ==
  ASSUME FleetInv, NEW w \in Workers, Register(w)
  PROVE  FleetInv' /\ [Next]_vars
<1>1. QueueStep({}) /\ \A v \in Workers : v # w => Keeps(v)
  BY WorkerSetCalls DEF Register
<1>2. /\ ready[w] = {} /\ running[w] = {} /\ results[w] = {} /\ acking[w] = {}
  BY DEF FleetInv, ProcessInv, Working, Register, Up
<1>3. UNCHANGED <<ready, running, fetched, locks, results, acking>>
  BY DEF Register
<1>4. ProcessInv(w)'
  BY <1>2, <1>3, EmptyMemory
<1>5. MemoryOK'
  BY DEF Register, FleetInv, MemoryOK
<1>6. \A v \in Workers : v # w => SameMemory(v)
  BY <1>3 DEF Register, FleetInv, MemoryOK, SameMemory, Up
<1> QED
  BY <1>1, <1>4, <1>5, <1>6, StepOfOne, NothingReported DEF QueueStep

(***************************************************************************)
(* A fetch fills an empty buffer with tasks that the process did not hold, *)
(* and so did not work on.                                                 *)
(***************************************************************************)
LEMMA FetchStep ==
  ASSUME FleetInv, NEW w \in Workers, Fetch(w)
  PROVE  FleetInv' /\ [Next]_vars
<1>1. /\ QueueStep({}) /\ \A v \in Workers : Keeps(v)
  BY FetchCall DEF Fetch
<1>2. QueueInv' /\ issued \subseteq issued'
  BY <1>1, QueueStepKeeps, NothingReported DEF FleetInv
<1>3. /\ inflight'[w] \subseteq Tasks
      /\ inflight'[w] \subseteq issued'
  BY <1>2 DEF QueueInv, StatusInv, Safe, TypeOK, NeverLost, Held
<1> DEFINE new == inflight'[w] \ inflight[w]
<1>4. /\ ready' = [ready EXCEPT ![w] = new]
      /\ UNCHANGED <<clock, pc, beating, running, locks, results, acking>>
      /\ Up(w) /\ Registered(w) /\ UNCHANGED <<workers, meta>>
      /\ ready[w] = {}
  BY DEF Fetch, FetchNext
<1>5. /\ ready'[w] = new
      /\ fetched' = [fetched EXCEPT ![w] =
                       [t \in Tasks |-> IF t \in new THEN meta[t].attempts ELSE @[t]]]
  BY <1>4 DEF FleetInv, MemoryOK, Fetch
<1>6. MemoryOK'
  <2>1. \A t \in Tasks : meta[t].attempts \in Attempts \cup FirstAttempts \cup {None}
    BY DEF FleetInv, QueueInv, StatusInv, Safe, TypeOK, MetaFields
  <2>2. fetched' \in [Workers -> [Tasks -> Attempts \cup FirstAttempts \cup {None}]]
    BY <1>5, <2>1 DEF FleetInv, MemoryOK
  <2>3. ready' \in [Workers -> SUBSET Tasks]
    BY <1>3, <1>4 DEF FleetInv, MemoryOK
  <2> QED
    BY <1>4, <2>2, <2>3 DEF FleetInv, MemoryOK
<1>7. Working(w) \subseteq inflight[w] /\ Working(w) \subseteq issued
  BY <1>4 DEF FleetInv, ProcessInv
<1>8. inflight[w] \subseteq inflight'[w]
  BY <1>1, <1>4 DEF Keeps, Registered
<1>9. Working(w)' = Working(w) \cup new
  BY <1>4, <1>5 DEF Working
<1>10. new \cap Working(w) = {}
  BY <1>7
<1>11. \A t \in new : meta[t].attempts \in OpenAttempts
  <2> SUFFICES ASSUME NEW t \in new PROVE meta[t].attempts \in OpenAttempts
    OBVIOUS
  <2>1. t \in Tasks /\ t \in issued' /\ ~Settled(t)'
    BY <1>2, <1>3 DEF QueueInv, StatusInv, Safe, OnePlace, Held
  <2>2. Complete(t)' /\ AttemptsOK(t)'
    BY <1>2, <2>1 DEF QueueInv, StatusInv, MetaInv, MetaOK, AttemptsInv
  <2> QED
    BY <1>4, <2>1, <2>2 DEF Complete, AttemptsOK
<1>12. /\ \A t \in ready'[w] \cup running'[w] : fetched'[w][t] \in OpenAttempts
       /\ ResultsInBounds(results[w] \cup acking[w])'
  <2>1. \A t \in new : t \in Tasks /\ fetched'[w][t] = meta[t].attempts
    BY <1>3, <1>5 DEF FleetInv, MemoryOK
  <2>2. \A t \in running[w] : t \in Tasks /\ t \notin new /\ fetched'[w][t] = fetched[w][t]
    BY <1>5, <1>10 DEF FleetInv, MemoryOK, Working
  <2> QED
    BY <1>4, <1>5, <1>11, <2>1, <2>2 DEF FleetInv, ProcessInv, ResultsInBounds
<1> HIDE DEF new
<1>13. ProcessInv(w)'
  <2>1. Up(w)'
    BY <1>4 DEF Up
  <2>2. Working(w)' \subseteq issued'
    BY <1>2, <1>3, <1>7, <1>9 DEF new
  <2>3. Working(w)' \subseteq inflight'[w]
    BY <1>7, <1>8, <1>9 DEF new
  <2>4. /\ new \cap running[w] = {}
        /\ new \cap TasksIn(results[w] \cup acking[w]) = {}
    BY <1>10 DEF Working
  <2> QED
    BY <1>4, <1>5, <1>12, <2>1, <2>2, <2>3, <2>4 DEF FleetInv, ProcessInv
<1>14. \A v \in Workers : v # w => SameMemory(v)
  BY <1>4, <1>5 DEF FleetInv, MemoryOK, SameMemory, Up
<1> QED
  BY <1>1, <1>6, <1>13, <1>14, StepOfOne, NothingReported DEF QueueStep

LEMMA RunStep ==
  ASSUME FleetInv, NEW w \in Workers, NEW t \in Tasks, Run(w, t)
  PROVE  FleetInv' /\ [Next]_vars
<1>1. QueueStep({}) /\ \A v \in Workers : Keeps(v)
  BY NoCall DEF Run, queueVars
<1>2. /\ Up(w) /\ t \in ready[w]
      /\ ready' = [ready EXCEPT ![w] = @ \ {t}]
      /\ running' = [running EXCEPT ![w] = @ \cup {t}]
      /\ locks' \in {locks, [locks EXCEPT ![w] = @ \cup {t}]}
      /\ UNCHANGED <<vars, clock, pc, beating, fetched, results, acking>>
  BY DEF Run, queueVars
<1>3. MemoryOK'
  BY <1>2 DEF FleetInv, MemoryOK
<1>4. ready'[w] = ready[w] \ {t} /\ running'[w] = running[w] \cup {t}
  BY <1>2 DEF FleetInv, MemoryOK
<1>5. Working(w)' = Working(w)
  BY <1>2, <1>4 DEF Working
<1>6. ResultsInBounds(results[w] \cup acking[w])'
  BY <1>2 DEF FleetInv, ProcessInv, ResultsInBounds
<1>7. ProcessInv(w)'
  BY <1>2, <1>4, <1>5, <1>6 DEF FleetInv, ProcessInv, Up, Registered, vars
<1>8. \A v \in Workers : v # w => SameMemory(v)
  BY <1>2 DEF FleetInv, MemoryOK, SameMemory, Up
<1> QED
  BY <1>1, <1>3, <1>7, <1>8, StepOfOne, NothingReported DEF QueueStep

(***************************************************************************)
(* A result is one more attempt than the task was fetched with.            *)
(***************************************************************************)
LEMMA ResultIsAck ==
  ASSUME FleetInv, NEW w \in Workers, NEW t \in running[w], NEW status \in AckStatuses
  PROVE  Result(w, t, status) \in Acks /\ ResultsInBounds({Result(w, t, status)})
<1> DEFINE n == fetched[w][t]
<1>1. t \in Tasks /\ n \in OpenAttempts
  BY DEF FleetInv, MemoryOK, ProcessInv
<1>2. Result(w, t, status) = [task |-> t, status |-> status, attempt |-> n + 1]
  BY DEF Result
<1> HIDE DEF n
<1>3. n + 1 \in Attempts
  BY <1>1, FleetAssumption DEF OpenAttempts
<1> QED
  BY <1>1, <1>2, <1>3 DEF Acks, ResultsInBounds

LEMMA FinishStep ==
  ASSUME FleetInv, NEW w \in Workers, NEW t \in Tasks, NEW status \in AckStatuses,
         Finish(w, t, status)
  PROVE  FleetInv' /\ [Next]_vars
<1> DEFINE result == Result(w, t, status)
<1>1. QueueStep({}) /\ \A v \in Workers : Keeps(v)
  BY NoCall DEF Finish, queueVars
<1>2. /\ Up(w) /\ t \in running[w]
      /\ running' = [running EXCEPT ![w] = @ \ {t}]
      /\ fetched' = [fetched EXCEPT ![w][t] = None]
      /\ results' = [results EXCEPT ![w] = @ \cup {result}]
      /\ UNCHANGED <<vars, clock, pc, beating, ready, locks, acking>>
  BY DEF Finish, queueVars
<1>3. result \in Acks /\ ResultsInBounds({result})
  BY <1>2, ResultIsAck
<1>4. result.task = t
  BY DEF Result
<1> HIDE DEF result
<1>5. MemoryOK'
  BY <1>2, <1>3 DEF FleetInv, MemoryOK
<1>6. /\ running'[w] = running[w] \ {t} /\ results'[w] = results[w] \cup {result}
      /\ \A u \in Tasks : u # t => fetched'[w][u] = fetched[w][u]
  BY <1>2 DEF FleetInv, MemoryOK
<1>7. Working(w)' = Working(w)
  BY <1>2, <1>4, <1>6 DEF Working, TasksIn
<1>8. \A a \in results[w] \cup acking[w] : a.task # t
  BY <1>2, TasksOfResults DEF FleetInv, ProcessInv
<1>9. t \notin ready[w]
  BY <1>2 DEF FleetInv, ProcessInv
<1>10. /\ \A u \in (ready[w] \cup running[w])' : fetched'[w][u] \in OpenAttempts
       /\ ResultsInBounds(results[w] \cup acking[w])'
  <2>1. ASSUME NEW u \in (ready[w] \cup running[w])' PROVE fetched'[w][u] \in OpenAttempts
    <3>1. u \in ready[w] \cup running[w] /\ u # t
      BY <1>2, <1>6, <1>9
    <3>2. fetched[w][u] \in OpenAttempts /\ u \in Tasks
      BY <3>1 DEF FleetInv, MemoryOK, ProcessInv
    <3> QED
      BY <1>6, <3>1, <3>2
  <2>2. ResultsInBounds(results[w] \cup acking[w])'
    BY <1>2, <1>3, <1>6 DEF FleetInv, ProcessInv, ResultsInBounds
  <2> QED
    BY <2>1, <2>2
<1>11. ProcessInv(w)'
  <2>1. Up(w)' /\ Working(w)' \subseteq issued'
    BY <1>2, <1>7 DEF FleetInv, ProcessInv, Up, vars
  <2>2. Registered(w)' => Working(w)' \subseteq inflight'[w]
    BY <1>2, <1>7 DEF FleetInv, ProcessInv, Registered, vars
  <2>3. (ready[w] \cup running[w])' \cap TasksIn(results[w] \cup acking[w])' = {}
    <3>1. TasksIn(results[w] \cup acking[w])'
            \subseteq TasksIn(results[w] \cup acking[w]) \cup {t}
      BY <1>2, <1>4, <1>6 DEF TasksIn
    <3> QED
      BY <1>2, <1>6, <1>9, <3>1 DEF FleetInv, ProcessInv
  <2>4. \A a, b \in (results[w] \cup acking[w])' : a.task = b.task => a = b
    BY <1>2, <1>4, <1>6, <1>8 DEF FleetInv, ProcessInv
  <2>5. ready'[w] \cap running'[w] = {} /\ results'[w] \cap acking'[w] = {}
    BY <1>2, <1>4, <1>6, <1>8 DEF FleetInv, ProcessInv
  <2> QED
    BY <1>10, <2>1, <2>2, <2>3, <2>4, <2>5 DEF ProcessInv
<1>12. \A v \in Workers : v # w => SameMemory(v)
  BY <1>2 DEF FleetInv, MemoryOK, SameMemory, Up
<1> QED
  BY <1>1, <1>5, <1>11, <1>12, StepOfOne, NothingReported DEF QueueStep

LEMMA BatchStep ==
  ASSUME FleetInv, NEW w \in Workers, HandleLocks(w) \/ NoLocks(w)
  PROVE  FleetInv' /\ [Next]_vars
<1>1. QueueStep({}) /\ \A v \in Workers : Keeps(v)
  BY NoCall, AcquireCall DEF HandleLocks, NoLocks, queueVars
<1>2. /\ Up(w) /\ acking[w] = {}
      /\ locks' = [locks EXCEPT ![w] = {}]
      /\ results' = [results EXCEPT ![w] = {}]
      /\ acking' = [acking EXCEPT ![w] = results[w]]
      /\ UNCHANGED <<clock, pc, beating, ready, running, fetched>>
  BY DEF HandleLocks, NoLocks, Batch
<1>3. QueueInv' /\ issued \subseteq issued'
  BY <1>1, QueueStepKeeps, NothingReported DEF FleetInv
<1>4. MemoryOK'
  BY <1>2 DEF FleetInv, MemoryOK
<1>5. results'[w] = {} /\ acking'[w] = results[w]
  BY <1>2 DEF FleetInv, MemoryOK
<1>6. Working(w)' = Working(w)
  BY <1>2, <1>5 DEF Working
<1>7. ResultsInBounds(results[w] \cup acking[w])'
  BY <1>5 DEF FleetInv, ProcessInv, ResultsInBounds
<1>8. Registered(w)' => Working(w)' \subseteq inflight'[w]
  BY <1>1, <1>6 DEF Keeps, FleetInv, ProcessInv
<1>9. ProcessInv(w)'
  BY <1>2, <1>3, <1>5, <1>6, <1>7, <1>8 DEF FleetInv, ProcessInv, Up
<1>10. \A v \in Workers : v # w => SameMemory(v)
  BY <1>2 DEF FleetInv, MemoryOK, SameMemory, Up
<1> QED
  BY <1>1, <1>4, <1>9, <1>10, StepOfOne, NothingReported DEF QueueStep

(***************************************************************************)
(* A report gives up the leases of the tasks that it settles, and no other *)
(* buffer of the process has these tasks.                                  *)
(***************************************************************************)
LEMMA AckStep ==
  ASSUME FleetInv, NEW w \in Workers, HandleAcks(w)
  PROVE  FleetInv' /\ [Next]_vars
<1>1. /\ Up(w)
      /\ acking' = [acking EXCEPT ![w] = {}]
      /\ UNCHANGED <<clock, pc, beating, ready, running, fetched, locks, results>>
  BY DEF HandleAcks
<1>2. PICK acks \in SetToSeqs(acking[w]) : HandleResults(w, acks, clock)
  BY DEF HandleAcks
<1>3. /\ QueueStep(acking[w])
      /\ \A v \in Workers : v # w => Keeps(v)
      /\ UNCHANGED workers
      /\ inflight[w] \ TasksIn(acking[w]) \subseteq inflight'[w]
  BY <1>2, ReportCall
<1>4. acking[w] \in SUBSET Acks /\ ResultsInBounds(acking[w])
  BY DEF FleetInv, MemoryOK, ProcessInv, ResultsInBounds
<1>5. QueueInv' /\ issued \subseteq issued'
  BY <1>3, <1>4, QueueStepKeeps DEF FleetInv
<1>6. MemoryOK'
  BY <1>1 DEF FleetInv, MemoryOK
<1>7. acking'[w] = {}
  BY <1>1 DEF FleetInv, MemoryOK
<1>8. Working(w)' \subseteq Working(w) /\ Working(w)' \cap TasksIn(acking[w]) = {}
  <2>1. Working(w) = ready[w] \cup running[w] \cup TasksIn(results[w]) \cup TasksIn(acking[w])
    BY TasksOfResults DEF Working
  <2>2. Working(w)' = ready[w] \cup running[w] \cup TasksIn(results[w])
    BY <1>1, <1>7 DEF Working
  <2>3. (ready[w] \cup running[w]) \cap TasksIn(acking[w]) = {}
    <3>1. TasksIn(acking[w]) \subseteq TasksIn(results[w] \cup acking[w])
      BY DEF TasksIn
    <3> QED
      BY <3>1 DEF FleetInv, ProcessInv
  <2>4. TasksIn(results[w]) \cap TasksIn(acking[w]) = {}
    <3> SUFFICES ASSUME NEW a \in results[w], NEW b \in acking[w], a.task = b.task
                 PROVE  FALSE
      BY DEF TasksIn
    <3> QED
      BY DEF FleetInv, ProcessInv
  <2> QED
    BY <2>1, <2>2, <2>3, <2>4
<1>9. Registered(w)' => Working(w)' \subseteq inflight'[w]
  BY <1>3, <1>8 DEF FleetInv, ProcessInv, Registered
<1>10. ResultsInBounds(results[w] \cup acking[w])'
  BY <1>1, <1>7 DEF FleetInv, ProcessInv, ResultsInBounds
<1>11. ProcessInv(w)'
  <2>1. TasksIn(results[w] \cup acking[w])' \subseteq TasksIn(results[w] \cup acking[w])
    BY <1>1, <1>7 DEF TasksIn
  <2> QED
    BY <1>1, <1>5, <1>7, <1>8, <1>9, <1>10, <2>1 DEF FleetInv, ProcessInv, Up
<1>12. \A v \in Workers : v # w => SameMemory(v)
  BY <1>1 DEF FleetInv, MemoryOK, SameMemory, Up
<1> QED
  BY <1>3, <1>4, <1>6, <1>11, <1>12, StepOfOne DEF QueueStep

LEMMA CloseStep ==
  ASSUME FleetInv, NEW w \in Workers, Close(w)
  PROVE  FleetInv' /\ [Next]_vars
<1>1. QueueStep({}) /\ \A v \in Workers : v # w => Keeps(v)
  BY ReleaseCall DEF Close, Abandon
<1>2. /\ ready' = [ready EXCEPT ![w] = {}]
      /\ fetched' = [fetched EXCEPT ![w] = NothingFetched]
      /\ pc' = [pc EXCEPT ![w] = "closing"]
      /\ UNCHANGED <<clock, beating, running, locks, results, acking>>
      /\ running[w] = {} /\ results[w] = {} /\ acking[w] = {}
  BY DEF Close, MayClose, Idle
<1>3. MemoryOK'
  BY <1>2 DEF FleetInv, MemoryOK, NothingFetched
<1>4. ProcessInv(w)'
  BY <1>2, EmptyMemory DEF FleetInv, MemoryOK
<1>5. \A v \in Workers : v # w => SameMemory(v)
  BY <1>2 DEF FleetInv, MemoryOK, SameMemory, Up
<1> QED
  BY <1>1, <1>3, <1>4, <1>5, StepOfOne, NothingReported DEF QueueStep

LEMMA EnvironmentSteps ==
  ASSUME FleetInv,
         \/ \E t \in Tasks, runAt \in {0, clock + 1} : Submit(t, runAt)
         \/ Tick
         \/ UNCHANGED fleetVars
  PROVE  FleetInv' /\ [Next]_vars
<1>1. QueueStep({}) /\ \A v \in Workers : Keeps(v)
  BY NoCall, SubmitCall DEF Tick, fleetVars, queueVars
<1>2. /\ UNCHANGED <<beating, ready, running, fetched, locks, results, acking>>
      /\ clock' = clock \/ (clock < MaxTime /\ clock' = clock + 1)
      /\ pc' \in {pc, [w \in Workers |-> IF pc[w] = "refused" THEN "down" ELSE pc[w]]}
  BY DEF Submit, Tick, fleetVars, processVars
<1>3. OrphanedDuration \in Nat /\ MaxTime \in Nat
  BY ConstantsAssumption, FleetAssumption DEF OrphanedDuration
<1>4. clock' \in OrphanedDuration..MaxTime
  BY <1>2, <1>3 DEF FleetInv, MemoryOK
<1>5. MemoryOK'
  BY <1>2, <1>4 DEF FleetInv, MemoryOK
<1>6. \A v \in Workers : SameMemory(v)
  BY <1>2 DEF FleetInv, MemoryOK, SameMemory, Up
<1> QED
  BY <1>1, <1>5, <1>6, StepOfNone DEF QueueStep

-----------------------------------------------------------------------------
(***************************************************************************)
(* The invariant holds at first and every step of a fleet keeps it.        *)
(***************************************************************************)
LEMMA InitFleet == FleetInit => FleetInv
<1> SUFFICES ASSUME FleetInit PROVE FleetInv
  OBVIOUS
<1>1. StatusInv
  BY InitStatus DEF FleetInit
<1>2. issued \subseteq data /\ AttemptsInv
  BY DEF FleetInit, Init, AttemptsInv, AttemptsOK, NoMeta
<1>3. OrphanedDuration \in Nat /\ MaxTime \in Nat /\ OrphanedDuration <= MaxTime
  BY ConstantsAssumption, FleetAssumption DEF OrphanedDuration
<1>4. MemoryOK
  BY <1>3 DEF FleetInit, MemoryOK, NothingFetched
<1>5. \A w \in Workers : ProcessInv(w)
  BY DEF FleetInit, ProcessInv, Working, TasksIn, ResultsInBounds
<1> QED
  BY <1>1, <1>2, <1>4, <1>5 DEF FleetInv, QueueInv

LEMMA NextFleet == FleetInv /\ [FleetNext]_fleetVars => FleetInv' /\ [Next]_vars
<1> SUFFICES ASSUME FleetInv, [FleetNext]_fleetVars PROVE FleetInv' /\ [Next]_vars
  OBVIOUS
<1>1. ASSUME NEW w \in Workers, Process(w) PROVE FleetInv' /\ [Next]_vars
  <2>1. CASE \/ Start(w) \/ StartFails(w) \/ RegisterRefused(w) \/ Beat(w) \/ Renew(w)
             \/ Sweep(w)
    BY <2>1, LifeSteps
  <2>2. CASE \/ BeatFails(w) \/ RenewRefused(w) \/ FetchRefused(w) \/ LocksRefused(w)
             \/ Crash(w)
    BY <2>2, StopSteps DEF BeatFails, RenewRefused, FetchRefused, LocksRefused, Crash,
      queueVars
  <2>3. CASE AcksRefused(w)
    BY <2>3, StopSteps DEF AcksRefused, queueVars
  <2>4. CASE \/ CloseFails(w) \/ Closed(w) \/ SweepFails(w) \/ FetchFails(w)
             \/ FetchReplyLost(w)
    BY <2>4, StopSteps DEF CloseFails, Abandon, Closed, SweepFails, FetchFails, FetchReplyLost,
      queueVars
  <2>5. CASE Register(w)
    BY <2>5, RegisterStep
  <2>6. CASE Fetch(w)
    BY <2>6, FetchStep
  <2>7. ASSUME NEW t \in Tasks, Run(w, t) PROVE FleetInv' /\ [Next]_vars
    BY <2>7, RunStep
  <2>8. ASSUME NEW t \in Tasks, NEW status \in AckStatuses, Finish(w, t, status)
        PROVE  FleetInv' /\ [Next]_vars
    BY <2>8, FinishStep
  <2>9. CASE HandleLocks(w) \/ NoLocks(w)
    BY <2>9, BatchStep
  <2>10. CASE HandleAcks(w)
    BY <2>10, AckStep
  <2>11. CASE Close(w)
    BY <2>11, CloseStep
  <2> QED
    BY <1>1, <2>1, <2>2, <2>3, <2>4, <2>5, <2>6, <2>7, <2>8, <2>9, <2>10, <2>11
       DEF Process
<1> QED
  BY <1>1, EnvironmentSteps DEF FleetNext

LEMMA FleetInvariant == FleetSpec => []FleetInv
<1>1. FleetInv /\ [FleetNext]_fleetVars => FleetInv'
  BY NextFleet
<1> QED
  BY <1>1, InitFleet, PTL DEF FleetSpec

(***************************************************************************)
(* Every variable of the processes keeps its type: no attempt number is    *)
(* out of bounds, no list of results too long.                             *)
(***************************************************************************)
THEOREM FleetTypes == FleetSpec => []FleetTypeOK
<1>1. FleetInv => FleetTypeOK
  BY DEF FleetInv, MemoryOK, QueueInv, StatusInv, Safe, FleetTypeOK
<1> QED
  BY <1>1, FleetInvariant, PTL

(***************************************************************************)
(* Whatever the processes of a fleet do, the queue sees only calls that    *)
(* RedisQueue allows: its theorems hold of every fleet.                    *)
(***************************************************************************)
THEOREM FleetUsesQueue == FleetSpec => Spec
<1>1. FleetInit => Init
  BY DEF FleetInit
<1>2. FleetInv /\ [FleetNext]_fleetVars => [Next]_vars
  BY NextFleet
<1> QED
  BY <1>1, <1>2, FleetInvariant, PTL DEF FleetSpec, Spec

(***************************************************************************)
(* A process loses the leases of what it works on only together with its   *)
(* registration, however late its heartbeats are.                          *)
(***************************************************************************)
THEOREM LeasesGoWithName == FleetSpec => []LeaseUnlessSwept
<1>1. FleetInv => LeaseUnlessSwept
  BY DEF FleetInv, ProcessInv, LeaseUnlessSwept
<1> QED
  BY <1>1, FleetInvariant, PTL

(***************************************************************************)
(* A process never has two executions of one task.                         *)
(***************************************************************************)
THEOREM NoSecondExecution == FleetSpec => []OneExecution
<1>1. FleetInv => OneExecution
  BY DEF FleetInv, ProcessInv, OneExecution
<1> QED
  BY <1>1, FleetInvariant, PTL

-----------------------------------------------------------------------------
(* A fleet whose heartbeats are on time.                                   *)

\* A process that runs was seen at most one interval ago.
OnTime(w) == Up(w) => Registered(w) /\ clock - workers[w] <= HeartbeatInterval

\* No process stalls, and an orphan has missed more than one heartbeat.
HeartbeatsOnTime ==
  "stall" \notin Faults /\ HeartbeatInterval > 0 /\ MissedHeartbeats > 1

\* w is no younger than before, and runs only if it ran before.
Same(w) == clock' = clock /\ workers'[w] = workers[w] /\ (Up(w)' => Up(w))

LEMMA SameOnTime ==
  ASSUME NEW w \in Workers, OnTime(w), Same(w)
  PROVE  OnTime(w)'
  BY DEF OnTime, Same, Registered

(***************************************************************************)
(* The sweeps of a fleet leave alone who is on time: that of register      *)
(* looks at one name, whose process does not run, that of heartbeat at     *)
(* names that have missed all their heartbeats.                            *)
(***************************************************************************)
LEMMA SweepsSpareLive ==
  ASSUME FleetInv, HeartbeatsOnTime, NEW w \in Workers,
         Start(w) \/ StartFails(w) \/ Sweep(w) \/ SweepFails(w),
         NEW v \in Workers, OnTime(v)
  PROVE  OnTime(v)'
<1>1. clock' = clock /\ clock \in Int /\ (Up(v)' => Up(v))
  <2>1. OrphanedDuration \in Nat /\ MaxTime \in Nat
    BY ConstantsAssumption, FleetAssumption DEF OrphanedDuration
  <2> QED
    BY <2>1 DEF Start, StartFails, Sweep, SweepFails, Stop, FleetInv, MemoryOK, Up
<1>2. CASE ~Up(v)
  BY <1>1, <1>2 DEF OnTime
<1>3. CASE (Start(w) \/ StartFails(w)) /\ Up(v)
  <2>1. v # w
    BY <1>3 DEF Start, StartFails, Up
  <2>2. v \notin Expired(w, OwnCutoff)
    BY <2>1, NoneIsNew DEF Expired
  <2>3. workers'[v] = workers[v]
    BY <1>3, <2>2 DEF Start, StartFails, ReenqueueOrphaned
  <2> QED
    BY <1>1, <2>3, SameOnTime DEF Same
<1>4. CASE (Sweep(w) \/ SweepFails(w)) /\ Up(v)
  <2>1. Registered(v) /\ clock - workers[v] <= HeartbeatInterval
    BY <1>4 DEF OnTime
  <2>2. workers[v] \in Nat
    <3>1. workers[v] \in Times \cup {None} /\ Times \subseteq Nat
      BY ConstantsAssumption DEF FleetInv, QueueInv, StatusInv, Safe, TypeOK
    <3> QED
      BY <2>1, <3>1 DEF Registered
  <2>3. HeartbeatInterval < OrphanedDuration /\ OrphanedDuration \in Nat
    <3>1. HeartbeatInterval \in Nat /\ MissedHeartbeats \in Nat
      BY ConstantsAssumption
    <3>2. \A n, k \in Nat : n > 0 /\ k > 1 => n < n * k /\ n * k \in Nat
      OBVIOUS
    <3> QED
      BY <3>1, <3>2 DEF HeartbeatsOnTime, OrphanedDuration
  <2>4. HeartbeatInterval \in Nat
    BY ConstantsAssumption
  <2>5. ~(workers[v] <= SweepCutoff)
    BY <1>1, <2>1, <2>2, <2>3, <2>4 DEF SweepCutoff
  <2>6. v \notin Expired(None, SweepCutoff)
    BY <2>5 DEF Expired
  <2>7. workers'[v] = workers[v]
    BY <1>4, <2>6 DEF Sweep, SweepFails, ReenqueueOrphaned
  <2> QED
    BY <1>1, <2>7, SameOnTime DEF Same
<1> QED
  BY <1>2, <1>3, <1>4

LEMMA TickOnTime ==
  ASSUME FleetInv, HeartbeatsOnTime, Tick, NEW v \in Workers, OnTime(v)
  PROVE  OnTime(v)'
<1>1. clock' = clock + 1 /\ (Up(v)' <=> Up(v)) /\ workers' = workers
  BY DEF Tick, FleetInv, MemoryOK, Up, queueVars, vars
<1>2. clock \in Int
  <2>1. OrphanedDuration \in Nat /\ MaxTime \in Nat
    BY ConstantsAssumption, FleetAssumption DEF OrphanedDuration
  <2> QED
    BY <2>1 DEF FleetInv, MemoryOK
<1>3. ASSUME Up(v) PROVE OnTime(v)'
  <2>1. Registered(v) /\ ~(clock - workers[v] >= HeartbeatInterval)
    BY <1>3 DEF Tick, Fault, HeartbeatsOnTime, BeatDue
  <2>2. workers[v] \in Nat
    <3>1. workers[v] \in Times \cup {None} /\ Times \subseteq Nat
      BY ConstantsAssumption DEF FleetInv, QueueInv, StatusInv, Safe, TypeOK
    <3> QED
      BY <2>1, <3>1 DEF Registered
  <2>3. HeartbeatInterval \in Nat
    BY ConstantsAssumption
  <2>4. clock + 1 - workers[v] <= HeartbeatInterval
    BY <1>2, <2>1, <2>2, <2>3
  <2>5. Registered(v)'
    BY <1>1, <2>1 DEF Registered
  <2>6. clock' - workers'[v] <= HeartbeatInterval
    <3>1. clock' = clock + 1 /\ workers'[v] = workers[v]
      BY <1>1
    <3> QED
      BY <1>2, <2>2, <2>3, <2>4, <3>1
  <2> QED
    BY <2>5, <2>6 DEF OnTime
<1> QED
  BY <1>1, <1>3 DEF OnTime

LEMMA NextOnTime ==
  ASSUME FleetInv, HeartbeatsOnTime, [FleetNext]_fleetVars,
         NEW v \in Workers, OnTime(v)
  PROVE  OnTime(v)'
<1>1. workers \in [Workers -> Times \cup {None}] /\ MemoryOK
  BY DEF FleetInv, QueueInv, StatusInv, Safe, TypeOK
<1>2. ASSUME NEW w \in Workers, Process(w) PROVE OnTime(v)'
  <2>1. CASE Start(w) \/ StartFails(w) \/ Sweep(w) \/ SweepFails(w)
    BY <2>1, SweepsSpareLive
  <2>2. CASE Register(w) \/ Beat(w)
    <3>1. /\ workers' = [workers EXCEPT ![w] = clock]
          /\ clock' = clock
          /\ v # w => (Up(v)' <=> Up(v))
      BY <1>1, <2>2 DEF Register, Beat, RegisterWorker, KeepAlive, MemoryOK, Up
    <3>2. clock \in Nat /\ clock - clock <= HeartbeatInterval
      <4>1. clock \in Times
        BY <1>1, ClockReadings
      <4>2. Times \subseteq Nat /\ HeartbeatInterval \in Nat
        BY ConstantsAssumption
      <4> QED
        BY <4>1, <4>2
    <3>3. CASE v = w
      <4>1. workers'[v] = clock /\ clock # None
        BY <1>1, <3>1, <3>2, <3>3, NoneIsNew
      <4> QED
        BY <3>1, <3>2, <4>1 DEF OnTime, Registered
    <3>4. CASE v # w
      BY <1>1, <3>1, <3>4, SameOnTime DEF Same
    <3> QED
      BY <3>3, <3>4
  <2>3. CASE Closed(w)
    <3>1. workers'[v] = workers[v] /\ clock' = clock
      BY <2>3, InflightKeysAreNoNames DEF Closed, CloseWorker, ZRem
    <3>2. Up(v)' => Up(v)
      BY <1>1, <2>3 DEF Closed, Stop, MemoryOK, Up
    <3> QED
      BY <3>1, <3>2, SameOnTime DEF Same
  <2>4. CASE \/ BeatFails(w) \/ RenewRefused(w) \/ FetchRefused(w) \/ LocksRefused(w)
             \/ Crash(w) \/ AcksRefused(w) \/ CloseFails(w) \/ FetchFails(w)
             \/ FetchReplyLost(w)
    <3>1. Stop(w) /\ clock' = clock /\ workers' = workers
      BY <2>4 DEF BeatFails, RenewRefused, FetchRefused, LocksRefused, Crash, AcksRefused,
        CloseFails, Abandon, ReleaseLeases, FetchFails, FetchReplyLost, FetchNext,
        HandleResults, Settle, queueVars, vars
    <3>2. Up(v)' => Up(v)
      BY <1>1, <3>1 DEF Stop, MemoryOK, Up
    <3> QED
      BY <3>1, <3>2, SameOnTime DEF Same
  <2>5. CASE RegisterRefused(w) \/ Close(w)
    <3>1. clock' = clock /\ workers' = workers
      BY <2>5 DEF RegisterRefused, Close, Abandon, ReleaseLeases, queueVars, vars
    <3>2. Up(v)' => Up(v)
      BY <1>1, <2>5 DEF RegisterRefused, Close, MemoryOK, Up
    <3> QED
      BY <3>1, <3>2, SameOnTime DEF Same
  <2>6. CASE \/ Renew(w) \/ Fetch(w) \/ HandleLocks(w) \/ NoLocks(w) \/ HandleAcks(w)
             \/ \E t \in Tasks : Run(w, t)
             \/ \E t \in Tasks, status \in AckStatuses : Finish(w, t, status)
    <3>1. clock' = clock /\ workers' = workers /\ pc' = pc
      BY <2>6 DEF Renew, Fetch, FetchNext, HandleLocks, AcquireLeases, NoLocks, Batch,
        HandleAcks, HandleResults, Settle, Run, Finish, queueVars, vars
    <3> QED
      BY <3>1, SameOnTime DEF Same, Up
  <2> QED
    BY <1>2, <2>1, <2>2, <2>3, <2>4, <2>5, <2>6 DEF Process
<1>3. CASE Tick
  BY <1>3, TickOnTime
<1>4. CASE \/ \E t \in Tasks, runAt \in {0, clock + 1} : Submit(t, runAt)
           \/ UNCHANGED fleetVars
  <2>1. clock' = clock /\ workers' = workers /\ pc' = pc
    BY <1>4 DEF Submit, BatchPush, processVars, fleetVars, vars
  <2> QED
    BY <2>1, SameOnTime DEF Same, Up
<1> QED
  BY <1>2, <1>3, <1>4 DEF FleetNext

(***************************************************************************)
(* As long as heartbeats are on time, whatever a live process works on is  *)
(* leased to it: no other worker runs it too, no result is refused.        *)
(***************************************************************************)
THEOREM LeasesAreKept ==
  ASSUME HeartbeatsOnTime
  PROVE  FleetSpec => []LeaseIsHeld
<1> DEFINE AllOnTime == \A w \in Workers : OnTime(w)
<1>1. FleetInit => AllOnTime
  BY DEF FleetInit, OnTime, Up
<1>2. FleetInv /\ AllOnTime /\ [FleetNext]_fleetVars => AllOnTime'
  BY NextOnTime
<1>3. FleetInv /\ AllOnTime => LeaseIsHeld
  BY DEF FleetInv, ProcessInv, OnTime, LeaseIsHeld
<1> HIDE DEF AllOnTime
<1> QED
  BY <1>1, <1>2, <1>3, FleetInvariant, PTL DEF FleetSpec
=============================================================================
