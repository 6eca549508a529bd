------------------------- MODULE FleetOutcomeProofs -------------------------
(***************************************************************************)
(* What the leases are for: proofs that no live process is left with a     *)
(* lease it does not know of, that no two of them execute the same task,   *)
(* that every execution that is reported counts as one attempt, and that a *)
(* fleet as a whole is the task queue of TaskQueue.                        *)
(***************************************************************************)
EXTENDS FleetProofs, RedisQueueRefinement

-----------------------------------------------------------------------------
(* The calls of a process, and what they do to the leases of the others.   *)

LEMMA CallsOfProcess ==
  ASSUME NEW w \in Workers, Process(w)
  PROVE  \/ UNCHANGED vars
         \/ \E only \in Workers \cup {None}, cutoff \in {OwnCutoff, SweepCutoff} :
              ReenqueueOrphaned(only, cutoff)
         \/ RegisterWorker(w, clock) \/ KeepAlive(w, clock) \/ CloseWorker(w)
         \/ FetchNext(w, clock)
         \/ AcquireLeases(w, locks[w])
         \/ ReleaseLeases(w, ready[w])
         \/ /\ HandleAcks(w) \/ AcksRefused(w)
            /\ \E acks \in SetToSeqs(acking[w]) : HandleResults(w, acks, clock)
<1>1. CASE Start(w) \/ StartFails(w) \/ Sweep(w) \/ SweepFails(w)
  BY <1>1 DEF Start, StartFails, Sweep, SweepFails
<1>2. CASE Register(w) \/ Beat(w) \/ Closed(w)
  BY <1>2 DEF Register, Beat, Closed
<1>3. CASE Fetch(w) \/ FetchFails(w) \/ FetchReplyLost(w)
  BY <1>3 DEF Fetch, FetchFails, FetchReplyLost, queueVars
<1>4. CASE HandleLocks(w) \/ HandleAcks(w) \/ AcksRefused(w)
  BY <1>4 DEF HandleLocks, HandleAcks, AcksRefused, queueVars
<1>5. CASE Close(w) \/ CloseFails(w)
  BY <1>5 DEF Close, CloseFails, Abandon, queueVars
<1>6. CASE \/ RegisterRefused(w) \/ BeatFails(w) \/ Renew(w) \/ RenewRefused(w)
           \/ FetchRefused(w) \/ LocksRefused(w) \/ NoLocks(w) \/ Crash(w)
  BY <1>6 DEF RegisterRefused, BeatFails, Renew, RenewRefused, FetchRefused, LocksRefused,
     NoLocks, Crash, queueVars
<1>7. CASE \/ \E t \in Tasks : Run(w, t)
           \/ \E t \in Tasks, status \in AckStatuses : Finish(w, t, status)
  BY <1>7 DEF Run, Finish, queueVars
<1> QED
  BY <1>1, <1>2, <1>3, <1>4, <1>5, <1>6, <1>7 DEF Process

\* The lease set of v does not grow, and v is seen no later than before.
NothingGained(v) ==
  inflight'[v] \subseteq inflight[v] /\ workers'[v] \in {workers[v], None}

LEMMA SweepsGainNothing ==
  ASSUME NEW only, NEW cutoff, ReenqueueOrphaned(only, cutoff), NEW v \in Workers
  PROVE  NothingGained(v)
  BY DEF ReenqueueOrphaned, NothingGained

(***************************************************************************)
(* No call of a process gives another one a lease or renews its place in   *)
(* the worker set.                                                         *)
(***************************************************************************)
LEMMA OthersGainNothing ==
  ASSUME FleetInv, NEW w \in Workers, Process(w), NEW v \in Workers, v # w
  PROVE  NothingGained(v)
<1>1. /\ inflight \in [Workers -> SUBSET Tasks] /\ Safe
      /\ workers \in [Workers -> Times \cup {None}]
  BY DEF FleetInv, QueueInv, StatusInv, Safe, TypeOK
<1>2. CASE UNCHANGED vars
  BY <1>2 DEF NothingGained, vars
<1>3. ASSUME NEW only, NEW cutoff, ReenqueueOrphaned(only, cutoff)
      PROVE  NothingGained(v)
  BY <1>3, SweepsGainNothing
<1>4. CASE RegisterWorker(w, clock) \/ KeepAlive(w, clock)
  BY <1>1, <1>4 DEF RegisterWorker, KeepAlive, NothingGained
<1>5. CASE CloseWorker(w)
  BY <1>5 DEF CloseWorker, ZRem, NothingGained
<1>6. CASE FetchNext(w, clock)
  <2>1. clock \in Times
    BY ClockReadings DEF FleetInv
  <2>2. PICK taken \in SUBSET Tasks : inflight' = [inflight EXCEPT ![w] = @ \cup taken]
    BY <1>1, <1>6, <2>1, FetchNextMoves
  <2>3. workers' = workers
    BY <1>6 DEF FetchNext
  <2> QED
    BY <1>1, <2>2, <2>3 DEF NothingGained
<1>7. CASE AcquireLeases(w, locks[w])
  BY <1>1, <1>7 DEF AcquireLeases, NothingGained
<1>8. CASE ReleaseLeases(w, ready[w])
  BY <1>1, <1>8 DEF ReleaseLeases, NothingGained
<1>9. ASSUME NEW acks \in SetToSeqs(acking[w]), HandleResults(w, acks, clock)
      PROVE  NothingGained(v)
  BY <1>1, <1>9 DEF HandleResults, Settle, NothingGained
<1> QED
  BY <1>2, <1>3, <1>4, <1>5, <1>6, <1>7, <1>8, <1>9, CallsOfProcess

(***************************************************************************)
(* The memory of a process is its own.                                     *)
(***************************************************************************)
LEMMA OwnMemory ==
  ASSUME MemoryOK, NEW w \in Workers, Process(w)
  PROVE  /\ clock' = clock
         /\ \A v \in Workers : v # w =>
              /\ pc'[v] = pc[v] /\ Working(v)' = Working(v)
              /\ ready'[v] = ready[v] /\ running'[v] = running[v]
              /\ fetched'[v] = fetched[v]
              /\ results'[v] = results[v] /\ acking'[v] = acking[v]
<1> DEFINE Alone(v) == /\ pc'[v] = pc[v] /\ ready'[v] = ready[v] /\ running'[v] = running[v]
                       /\ fetched'[v] = fetched[v]
                       /\ results'[v] = results[v] /\ acking'[v] = acking[v]
<1>1. ASSUME NEW v \in Workers, v # w PROVE clock' = clock /\ Alone(v)
  <2>1. CASE Start(w) \/ StartFails(w) \/ Register(w) \/ RegisterRefused(w)
    BY <1>1, <2>1 DEF MemoryOK, Start, StartFails, Register, RegisterRefused
  <2>2. CASE Beat(w) \/ Renew(w) \/ Sweep(w)
    BY <1>1, <2>2 DEF MemoryOK, Beat, Renew, Sweep
  <2>3. CASE \/ BeatFails(w) \/ RenewRefused(w) \/ SweepFails(w) \/ FetchRefused(w)
             \/ FetchFails(w) \/ FetchReplyLost(w) \/ LocksRefused(w) \/ AcksRefused(w)
             \/ CloseFails(w) \/ Closed(w) \/ Crash(w)
    <3>1. Stop(w) /\ clock' = clock
      BY <2>3 DEF BeatFails, RenewRefused, SweepFails, FetchRefused, FetchFails,
         FetchReplyLost, LocksRefused, AcksRefused, CloseFails, Closed, Crash
    <3> QED
      BY <1>1, <3>1 DEF MemoryOK, Stop
  <2>4. CASE Fetch(w) \/ Close(w)
    BY <1>1, <2>4 DEF MemoryOK, Fetch, Close
  <2>5. CASE HandleLocks(w) \/ NoLocks(w) \/ HandleAcks(w)
    BY <1>1, <2>5 DEF MemoryOK, HandleLocks, NoLocks, Batch, HandleAcks
  <2>6. CASE \/ \E t \in Tasks : Run(w, t)
             \/ \E t \in Tasks, status \in AckStatuses : Finish(w, t, status)
    BY <1>1, <2>6 DEF MemoryOK, Run, Finish
  <2> QED
    BY <2>1, <2>2, <2>3, <2>4, <2>5, <2>6 DEF Process
<1>2. clock' = clock
  BY DEF Process, Start, StartFails, Register, RegisterRefused, Beat, BeatFails, Renew,
     RenewRefused, Sweep, SweepFails, Fetch, FetchRefused, FetchFails, FetchReplyLost, Run,
     Finish, HandleLocks, LocksRefused, NoLocks, Batch, HandleAcks, AcksRefused, Close,
     CloseFails, Closed, Crash
<1> QED
  BY <1>1, <1>2 DEF Working

-----------------------------------------------------------------------------
(* No live process has a lease that it does not know of.                   *)

\* register is not interrupted: its two calls read the clock within one second.
NoPause == "pause" \notin Faults

\* A name that is still in the worker set between the two calls of register was
\* seen within the last interval, or the first call had swept it.
Known(w) ==
  /\ Up(w) => inflight[w] \subseteq Working(w)
  /\ pc[w] = "starting" /\ Registered(w) => clock - workers[w] < HeartbeatInterval

LEMMA KnownUndisturbed ==
  ASSUME NEW w \in Workers, Known(w), NothingGained(w), clock' = clock,
         pc'[w] = pc[w], Working(w)' = Working(w)
  PROVE  Known(w)'
  BY DEF Known, NothingGained, Up, Registered

\* What a process that runs does to its own leases and to its memory.
LEMMA KnownRunning ==
  ASSUME NEW w \in Workers, Known(w), Up(w),
         pc' = pc, inflight'[w] \ Working(w)' \subseteq inflight[w] \ Working(w)
  PROVE  Known(w)'
  BY DEF Known, Up

(***************************************************************************)
(* The second call of register finds the name gone, and with it whatever   *)
(* was leased to the last process of that name, or refuses.                *)
(***************************************************************************)
LEMMA KnownAtStart ==
  ASSUME FleetInv, NEW w \in Workers, Known(w), Start(w) \/ Register(w)
  PROVE  Known(w)'
<1>1. /\ HeartbeatInterval \in Nat /\ MissedHeartbeats \in Nat /\ MissedHeartbeats > 0
      /\ clock \in Nat /\ MemoryOK
      /\ \A v \in Workers : Registered(v) => workers[v] \in Nat
  <2>1. clock \in Times
    BY ClockReadings DEF FleetInv
  <2>2. workers \in [Workers -> Times \cup {None}]
    BY DEF FleetInv, QueueInv, StatusInv, Safe, TypeOK
  <2> QED
    BY <2>1, <2>2, ConstantsAssumption, FleetAssumption DEF FleetInv, Registered
<1>2. HeartbeatInterval <= OrphanedDuration /\ OrphanedDuration \in Nat
  <2>1. \A n, k \in Nat : k > 0 => n <= n * k /\ n * k \in Nat
    OBVIOUS
  <2> QED
    BY <1>1, <2>1 DEF OrphanedDuration
<1>3. CASE Start(w)
  <2>1. pc'[w] = "starting" /\ clock' = clock
    BY <1>1, <1>3 DEF Start, MemoryOK
  <2>2. PICK swept \in SUBSET Expired(w, OwnCutoff) :
          /\ swept = Expired(w, OwnCutoff) \/ SweepStopsAt(Expired(w, OwnCutoff), swept)
          /\ workers' = [v \in Workers |-> IF v \in swept THEN None ELSE workers[v]]
    BY <1>3 DEF Start, ReenqueueOrphaned
  <2>3. swept = Expired(w, OwnCutoff)
    BY <1>3, <2>2 DEF Start, SweepCompletes, SweepStopsAt
  <2>4. Registered(w)' => workers'[w] = workers[w] /\ Registered(w) /\ w \notin swept
    BY <2>2 DEF Registered
  <2>5. Registered(w)' => clock - workers[w] < HeartbeatInterval
    BY <1>1, <2>3, <2>4 DEF Expired, OwnCutoff
  <2> QED
    BY <2>1, <2>4, <2>5 DEF Known, Up
<1>4. CASE Register(w)
  <2>1. pc'[w] = "up" /\ inflight' = inflight
    BY <1>1, <1>4 DEF Register, RegisterWorker, MemoryOK
  <2>2. ~Registered(w)
    <3> SUFFICES ASSUME Registered(w) PROVE FALSE
      OBVIOUS
    <3>1. clock - workers[w] < HeartbeatInterval /\ clock - workers[w] >= OrphanedDuration
      BY <1>4 DEF Register, RegisterWorker, Known
    <3> QED
      BY <1>1, <1>2, <3>1
  <2>3. inflight[w] = {}
    BY <2>2 DEF FleetInv, QueueInv, StatusInv, Safe, Recoverable
  <2> QED
    BY <2>1, <2>3 DEF Known, Up
<1> QED
  BY <1>3, <1>4

(***************************************************************************)
(* A fetch puts into the buffer all that it adds to the inflight set.      *)
(***************************************************************************)
LEMMA KnownAtFetch ==
  ASSUME FleetInv, NEW w \in Workers, Known(w), Fetch(w)
  PROVE  Known(w)'
<1>1. /\ Up(w) /\ pc' = pc /\ ready[w] = {}
      /\ ready'[w] = inflight'[w] \ inflight[w]
      /\ UNCHANGED <<running, results, acking>>
  BY DEF Fetch, FleetInv, MemoryOK
<1>2. Working(w)' = Working(w) \cup (inflight'[w] \ inflight[w])
  BY <1>1 DEF Working
<1> QED
  BY <1>1, <1>2, KnownRunning

(***************************************************************************)
(* A report that is not refused is applied to the end.                     *)
(***************************************************************************)
LEMMA ReportsToTheEnd ==
  ASSUME FleetInv, NEW w \in Workers, HandleAcks(w)
  PROVE  inflight'[w] = inflight[w] \ TasksIn(acking[w])
<1>1. PICK acks \in SetToSeqs(acking[w]) : HandleResults(w, acks, clock)
  BY DEF HandleAcks
<1>2. /\ acking[w] \in SUBSET Acks
      /\ \A a, b \in acking[w] : a.task = b.task => a = b
      /\ inflight \in [Workers -> SUBSET Tasks]
  BY DEF FleetInv, MemoryOK, ProcessInv, QueueInv, StatusInv, Safe, TypeOK
<1>3. acks \in AckBatches /\ Range(acks) = acking[w]
  BY <1>2, ReportsAreBatches
<1>4. acks \in Seq(Acks) /\ Len(acks) \in Nat /\ DOMAIN acks = 1..Len(acks)
  BY <1>3 DEF AckBatches, BoundedSeq, SeqOf
<1>5. \A i, j \in 1..Len(acks) : acks[i] = acks[j] => i = j
  BY <1>4 DEF SetToSeqs, IsInjective
<1>6. \A i \in 1..Len(acks) : acks[i] \in acking[w]
  BY <1>3, <1>4 DEF Range
<1>7. PICK n \in 1..Len(acks) :
        /\ n < Len(acks) => ~Removable(w, acks, n + 1)
        /\ Settle(w, Range(SubSeq(acks, 1, n)), clock)
  BY <1>1 DEF HandleResults
<1>8. ASSUME n < Len(acks) PROVE FALSE
  <2>1. \A i \in 1..(n + 1) : i \in 1..Len(acks)
    BY <1>4, <1>8
  <2>2. \A i \in 1..(n + 1) : acks[i].task \in inflight[w]
    BY <1>6, <2>1 DEF HandleAcks, TasksIn
  <2>3. ASSUME NEW i \in 1..(n + 1), NEW j \in 1..(i - 1)
        PROVE  acks[j].task # acks[i].task
    <3>1. i \in 1..Len(acks) /\ j \in 1..Len(acks) /\ i # j
      BY <1>4, <2>1
    <3> QED
      BY <1>2, <1>5, <1>6, <3>1
  <2> QED
    BY <1>7, <1>8, <2>2, <2>3 DEF Removable
<1>9. SubSeq(acks, 1, n) = acks
  <2>1. n \in 1..Len(acks) /\ ~(n < Len(acks))
    BY <1>7, <1>8
  <2>2. \A k \in Nat : \A m \in 1..k : m < k \/ m = k
    OBVIOUS
  <2>3. n = Len(acks)
    BY <1>4, <2>1, <2>2
  <2> QED
    BY <1>4, <2>3
<1>10. inflight' = [inflight EXCEPT ![w] = @ \ {ack.task : ack \in acking[w]}]
  BY <1>3, <1>7, <1>9 DEF Settle
<1> QED
  BY <1>2, <1>10 DEF TasksIn

LEMMA KnownAtReport ==
  ASSUME FleetInv, NEW w \in Workers, Known(w), HandleAcks(w)
  PROVE  Known(w)'
<1>1. /\ Up(w) /\ pc' = pc /\ acking'[w] = {}
      /\ UNCHANGED <<ready, running, results>>
  BY DEF HandleAcks, FleetInv, MemoryOK
<1>2. inflight'[w] = inflight[w] \ TasksIn(acking[w])
  BY ReportsToTheEnd
<1>3. Working(w) = ready[w] \cup running[w] \cup TasksIn(results[w]) \cup TasksIn(acking[w])
  BY TasksOfResults DEF Working
<1>4. Working(w)' = ready[w] \cup running[w] \cup TasksIn(results[w])
  BY <1>1 DEF Working
<1> QED
  BY <1>1, <1>2, <1>3, <1>4, KnownRunning

(***************************************************************************)
(* The other steps of a process keep what it works on.                     *)
(***************************************************************************)
LEMMA KnownAtWork ==
  ASSUME FleetInv, NEW w \in Workers, Known(w),
         \/ Beat(w) \/ HandleLocks(w) \/ NoLocks(w)
         \/ \E t \in Tasks : Run(w, t)
         \/ \E t \in Tasks, status \in AckStatuses : Finish(w, t, status)
  PROVE  Known(w)'
<1>1. /\ MemoryOK
      /\ inflight \in [Workers -> SUBSET Tasks]
  BY DEF FleetInv, QueueInv, StatusInv, Safe, TypeOK
<1>2. CASE Beat(w)
  <2>1. Up(w) /\ pc' = pc /\ inflight' = inflight
    BY <1>2 DEF Beat, KeepAlive
  <2>2. Working(w)' = Working(w)
    BY <1>2 DEF Beat, Working
  <2> QED
    BY <2>1, <2>2, KnownRunning
<1>3. CASE HandleLocks(w) \/ NoLocks(w)
  <2>1. Up(w) /\ pc' = pc /\ acking[w] = {}
    BY <1>3 DEF HandleLocks, NoLocks, Batch
  <2>2. inflight'[w] = inflight[w]
    BY <1>1, <1>3 DEF HandleLocks, AcquireLeases, AllHeldBy, NoLocks, queueVars, vars
  <2>3. results'[w] = {} /\ acking'[w] = results[w] /\ UNCHANGED <<ready, running>>
    BY <1>1, <1>3 DEF HandleLocks, NoLocks, Batch, MemoryOK
  <2>4. Working(w)' = Working(w)
    BY <2>1, <2>3 DEF Working
  <2> QED
    BY <2>1, <2>2, <2>4, KnownRunning
<1>4. ASSUME NEW t \in Tasks, Run(w, t) PROVE Known(w)'
  <2>1. Up(w) /\ pc' = pc /\ inflight' = inflight
    BY <1>4 DEF Run, queueVars, vars
  <2>2. /\ t \in ready[w] /\ UNCHANGED <<results, acking>>
        /\ ready'[w] = ready[w] \ {t} /\ running'[w] = running[w] \cup {t}
    BY <1>1, <1>4 DEF Run, MemoryOK
  <2>3. Working(w)' = Working(w)
    BY <2>2 DEF Working
  <2> QED
    BY <2>1, <2>3, KnownRunning
<1>5. ASSUME NEW t \in Tasks, NEW status \in AckStatuses, Finish(w, t, status)
      PROVE  Known(w)'
  <2>1. Up(w) /\ pc' = pc /\ inflight' = inflight
    BY <1>5 DEF Finish, queueVars, vars
  <2>2. /\ t \in running[w] /\ UNCHANGED <<ready, acking>>
        /\ running'[w] = running[w] \ {t}
        /\ results'[w] = results[w] \cup {Result(w, t, status)}
    BY <1>1, <1>5 DEF Finish, MemoryOK
  <2>3. Result(w, t, status).task = t
    BY DEF Result
  <2>4. Working(w)' = Working(w)
    BY <2>2, <2>3 DEF Working, TasksIn
  <2> QED
    BY <2>1, <2>4, KnownRunning
<1> QED
  BY <1>2, <1>3, <1>4, <1>5

LEMMA NextKnown ==
  ASSUME FleetInv, NoPause, [FleetNext]_fleetVars, NEW v \in Workers, Known(v)
  PROVE  Known(v)'
<1>1. MemoryOK
  BY DEF FleetInv
<1>2. ASSUME NEW w \in Workers, Process(w), v # w PROVE Known(v)'
  BY <1>1, <1>2, OthersGainNothing, OwnMemory, KnownUndisturbed
<1>3. ASSUME Process(v) PROVE Known(v)'
  <2>1. CASE Start(v) \/ Register(v)
    BY <2>1, KnownAtStart
  <2>2. CASE StartFails(v) \/ RegisterRefused(v) \/ Close(v)
    BY <1>1, <2>2 DEF StartFails, RegisterRefused, Close, Known, MemoryOK, Up
  <2>3. CASE \/ BeatFails(v) \/ RenewRefused(v) \/ SweepFails(v) \/ FetchRefused(v)
             \/ FetchFails(v) \/ FetchReplyLost(v) \/ LocksRefused(v) \/ AcksRefused(v)
             \/ CloseFails(v) \/ Closed(v) \/ Crash(v)
    <3>1. Stop(v)
      BY <2>3 DEF BeatFails, RenewRefused, SweepFails, FetchRefused, FetchFails,
         FetchReplyLost, LocksRefused, AcksRefused, CloseFails, Closed, Crash
    <3> QED
      BY <1>1, <3>1 DEF Stop, Known, MemoryOK, Up
  <2>4. CASE Renew(v) \/ Sweep(v)
    <3>1. UNCHANGED <<clock, pc, ready, running, results, acking>>
      BY <2>4 DEF Renew, Sweep
    <3>2. NothingGained(v)
      BY <2>4, SweepsGainNothing DEF Renew, Sweep, NothingGained, queueVars, vars
    <3> QED
      BY <3>1, <3>2, KnownUndisturbed DEF Working
  <2>5. CASE Fetch(v)
    BY <2>5, KnownAtFetch
  <2>6. CASE HandleAcks(v)
    BY <2>6, KnownAtReport
  <2>7. CASE \/ Beat(v) \/ HandleLocks(v) \/ NoLocks(v)
             \/ \E t \in Tasks : Run(v, t)
             \/ \E t \in Tasks, status \in AckStatuses : Finish(v, t, status)
    BY <2>7, KnownAtWork
  <2> QED
    BY <1>3, <2>1, <2>2, <2>3, <2>4, <2>5, <2>6, <2>7 DEF Process
<1>4. CASE Tick
  <2>1. pc[v] # "starting" /\ UNCHANGED <<inflight, ready, running, results, acking>>
    BY <1>4 DEF Tick, Fault, NoPause, queueVars, vars
  <2>2. pc'[v] # "starting" /\ (Up(v)' => Up(v)) /\ Working(v)' = Working(v)
    BY <1>1, <1>4, <2>1 DEF Tick, MemoryOK, Up, Working
  <2> QED
    BY <2>1, <2>2 DEF Known
<1>5. CASE \/ \E t \in Tasks, runAt \in {0, clock + 1} : Submit(t, runAt)
           \/ UNCHANGED fleetVars
  <2>1. UNCHANGED <<clock, pc, inflight, workers, ready, running, results, acking>>
    BY <1>5 DEF Submit, BatchPush, fleetVars, processVars, vars
  <2> QED
    BY <2>1, KnownUndisturbed DEF NothingGained, Working
<1> QED
  BY <1>2, <1>3, <1>4, <1>5 DEF FleetNext

(***************************************************************************)
(* Whatever Redis counts as held by a live process, the process knows of,  *)
(* unless register was held up between its calls; no task is kept from the *)
(* others by a process that will never run it.  That includes fleets that  *)
(* stall, crash, shut down and fail, replies of fetches that are lost, and *)
(* scripts that stop half way because a set is too long to unpack.         *)
(***************************************************************************)
THEOREM NobodyIsStranded ==
  ASSUME NoPause
  PROVE  FleetSpec => []NoStranded
<1> DEFINE AllKnown == \A w \in Workers : Known(w)
<1>1. FleetInit => AllKnown
  BY DEF FleetInit, Known, Up
<1>2. FleetInv /\ AllKnown /\ [FleetNext]_fleetVars => AllKnown'
  BY NextKnown
<1>3. AllKnown => NoStranded
  BY DEF Known, NoStranded
<1> HIDE DEF AllKnown
<1> QED
  BY <1>1, <1>2, <1>3, FleetInvariant, PTL DEF FleetSpec

-----------------------------------------------------------------------------
(* No two live processes have the same task.                               *)

(***************************************************************************)
(* As long as heartbeats are on time, two live processes never have the    *)
(* same task: what each of them works on is leased to it, and a task is    *)
(* leased to one worker at a time.                                         *)
(***************************************************************************)
THEOREM ExecutorsAreAlone ==
  ASSUME HeartbeatsOnTime
  PROVE  FleetSpec => []NoTwoExecutors
<1>1. FleetInv /\ LeaseIsHeld => NoTwoExecutors
  BY DEF FleetInv, QueueInv, StatusInv, Safe, OnePlace, LeaseIsHeld, NoTwoExecutors
<1> QED
  BY <1>1, FleetInvariant, LeasesAreKept, PTL

-----------------------------------------------------------------------------
(* The attempts of a task.                                                 *)

(***************************************************************************)
(* A push puts off no task but the one that is pushed.                     *)
(***************************************************************************)
LEMMA PushSchedules ==
  ASSUME NEW t \in Tasks, NEW runAt \in Times, NEW now \in Times, BatchPush(t, runAt, now)
  PROVE  \/ scheduled' = scheduled
         \/ scheduled' = [scheduled EXCEPT ![t] = ScheduleTime(runAt, now)]
<1>1. ASSUME NEW key, NEW attempts, Enqueue(t, key, attempts, ScheduleTime(runAt, now))
      PROVE  \/ scheduled' = scheduled
             \/ scheduled' = [scheduled EXCEPT ![t] = ScheduleTime(runAt, now)]
  BY <1>1 DEF Enqueue
<1> QED
  BY <1>1, PushCases

\* The scripts that handle no results put no accepted task off.
NothingPutOff == \A t \in issued : Scheduled(t)' => Scheduled(t)

(***************************************************************************)
(* A step of a fleet is a report or it reports nothing and puts off        *)
(* nothing.                                                                *)
(***************************************************************************)
LEMMA ReportsAndOthers ==
  ASSUME FleetInv, [FleetNext]_fleetVars
  PROVE  \/ QueueStep({}) /\ NothingPutOff
         \/ \E w \in Workers : /\ HandleAcks(w) \/ AcksRefused(w)
                              /\ \E acks \in SetToSeqs(acking[w]) :
                                   HandleResults(w, acks, clock)
<1>1. /\ OwnCutoff \in Times /\ SweepCutoff \in Times
      /\ issued \subseteq Tasks
  BY ClockReadings DEF FleetInv, QueueInv, StatusInv, Safe, TypeOK
<1>2. ASSUME NEW w \in Workers, Process(w),
             ~ /\ HandleAcks(w) \/ AcksRefused(w)
               /\ \E acks \in SetToSeqs(acking[w]) : HandleResults(w, acks, clock)
      PROVE  QueueStep({}) /\ NothingPutOff
  <2>1. CASE UNCHANGED vars
    BY <2>1, NoCall DEF NothingPutOff, Scheduled, vars
  <2>2. ASSUME NEW only \in Workers \cup {None}, NEW cutoff \in {OwnCutoff, SweepCutoff},
               ReenqueueOrphaned(only, cutoff)
        PROVE  QueueStep({}) /\ NothingPutOff
    BY <1>1, <2>2, SweepCall DEF ReenqueueOrphaned, NothingPutOff, Scheduled
  <2>3. CASE RegisterWorker(w, clock) \/ KeepAlive(w, clock) \/ CloseWorker(w)
    BY <2>3, WorkerSetCalls DEF RegisterWorker, KeepAlive, CloseWorker, NothingPutOff, Scheduled
  <2>4. CASE FetchNext(w, clock)
    BY <1>1, <2>4, FetchCall DEF FetchNext, WithoutDue, NothingPutOff, Scheduled
  <2>5. CASE AcquireLeases(w, locks[w])
    BY <2>5, AcquireCall DEF AcquireLeases, NothingPutOff, Scheduled
  <2>6. CASE ReleaseLeases(w, ready[w])
    BY <2>6, ReleaseCall DEF ReleaseLeases, NothingPutOff, Scheduled
  <2> QED
    BY <1>2, <2>1, <2>2, <2>3, <2>4, <2>5, <2>6, CallsOfProcess
<1>3. ASSUME NEW t \in Tasks, NEW runAt \in {0, clock + 1}, Submit(t, runAt)
      PROVE  QueueStep({}) /\ NothingPutOff
  <2>1. t \notin issued /\ BatchPush(t, runAt, clock)
    BY <1>3 DEF Submit
  <2>2. scheduled \in [Tasks -> Nat \cup {None}]
    BY DEF FleetInv, QueueInv, StatusInv, Safe, TypeOK
  <2>3. NothingPutOff
    <3>1. clock \in Times /\ runAt \in Times
      BY ClockReadings DEF FleetInv
    <3>2. \/ scheduled' = scheduled
          \/ scheduled' = [scheduled EXCEPT ![t] = ScheduleTime(runAt, clock)]
      BY <2>1, <3>1, PushSchedules
    <3> QED
      BY <1>1, <2>1, <2>2, <3>2 DEF NothingPutOff, Scheduled
  <2> QED
    BY <1>3, <2>3, SubmitCall
<1>4. CASE Tick \/ UNCHANGED fleetVars
  <2>1. UNCHANGED vars
    BY <1>4 DEF Tick, queueVars, fleetVars
  <2> QED
    BY <2>1, NoCall DEF NothingPutOff, Scheduled, vars
<1> QED
  BY <1>2, <1>3, <1>4 DEF FleetNext

(***************************************************************************)
(* What a report does to a task: nothing, or one of its results takes the  *)
(* task out of the inflight set to be tried again, done or dead.           *)
(***************************************************************************)
LEMMA ReportOfTask ==
  ASSUME FleetInv, NEW w \in Workers, NEW acks \in SetToSeqs(acking[w]),
         HandleResults(w, acks, clock), NEW t \in Tasks
  PROVE  \/ Untouched(t) /\ scheduled'[t] = scheduled[t]
         \/ /\ t \in inflight[w] /\ (Scheduled(t)' \/ Settled(t)')
            /\ \E ack \in acking[w] : ack.task = t /\ Reported(t, ack, clock)
<1>1. /\ clock \in Times /\ Safe
      /\ acking[w] \in SUBSET Acks
      /\ \A a, b \in acking[w] : a.task = b.task => a = b
  BY ClockReadings DEF FleetInv, MemoryOK, QueueInv, StatusInv, ProcessInv
<1>2. acks \in AckBatches /\ Range(acks) = acking[w]
  BY <1>1, ReportsAreBatches
<1>3. PICK n \in 1..Len(acks) : /\ Removable(w, acks, n)
                                /\ Settle(w, Range(SubSeq(acks, 1, n)), clock)
  BY DEF HandleResults
<1> DEFINE B == Range(SubSeq(acks, 1, n))
<1>4. /\ B \subseteq acking[w] /\ B \in SUBSET Acks
      /\ \A a \in B : a.task \in inflight[w]
      /\ \A a, b \in B : a.task = b.task => a = b
  BY <1>1, <1>2, <1>3, AppliedResults DEF Safe
<1>5. Settle(w, B, clock)
  BY <1>3
<1> HIDE DEF B
<1> DEFINE AckOf(u) == CHOOSE ack \in B : ack.task = u
           retried == {ack.task : ack \in {b \in B : Retryable(b)}}
<1>6. scheduled' = [u \in Tasks |-> IF u \in retried THEN Backoff(clock, AckOf(u))
                                    ELSE scheduled[u]]
  BY <1>5 DEF Settle
<1>7. ASSUME NEW ack \in B, ack.task = t
      PROVE  t \in inflight[w] /\ Reported(t, ack, clock) /\ (Scheduled(t)' \/ Settled(t)')
  <2>1. t \in inflight[w] /\ Reported(t, ack, clock)
    BY <1>1, <1>4, <1>5, <1>7, SettleMeta
  <2>2. CASE Retryable(ack)
    <3>1. AckOf(t) = ack /\ t \in retried
      BY <1>4, <1>7, <2>2
    <3>2. scheduled'[t] = Backoff(clock, ack)
      BY <1>6, <3>1
    <3>3. clock \in Nat /\ ack.attempt \in Nat
      BY <1>1, <1>4, ConstantsAssumption DEF Acks
    <3>4. Backoff(clock, ack) # None
      BY <3>3, NoneIsNew DEF Backoff
    <3> QED
      BY <2>1, <3>2, <3>4 DEF Scheduled
  <2>3. CASE ~Retryable(ack)
    BY <2>1, <2>3 DEF Reported, Settled
  <2> QED
    BY <2>1, <2>2, <2>3
<1>8. CASE \A ack \in B : ack.task # t
  <2>1. t \notin retried
    BY <1>8
  <2>2. Untouched(t)
    BY <1>1, <1>4, <1>5, <1>8, SettleMeta
  <2> QED
    BY <1>6, <2>1, <2>2
<1> QED
  BY <1>4, <1>7, <1>8

\* What a process has fetched or has to report of every task that it still holds
\* agrees with the attempts in Redis: a report from it would be accepted.
ReportsInv(w) ==
  /\ \A t \in ready[w] \cup running[w] :
       t \in inflight[w] => fetched[w][t] = meta[t].attempts
  /\ \A a \in results[w] \cup acking[w] :
       a.task \in inflight[w] => a.attempt = meta[a.task].attempts + 1

\* The attempts of t are not touched.
SameAttempts(t) == meta'[t].attempts = meta[t].attempts

LEMMA UntouchedAttempts ==
  ASSUME FleetInv, NEW A, QueueStep(A), NEW t \in issued, \A a \in A : a.task # t
  PROVE  SameAttempts(t) /\ (Settled(t)' <=> Settled(t))
<1>1. t \in Tasks /\ t \in data' /\ meta[t] \in MetaFields
  BY DEF FleetInv, QueueInv, StatusInv, Safe, TypeOK, QueueStep, MetaSteps
<1>2. Untouched(t) \/ Leased(t)
  BY <1>1 DEF QueueStep, MetaSteps, MetaStep, Stored, HalfStored, Forgotten
<1> QED
  BY <1>1, <1>2 DEF Untouched, Leased, SamePlace, Settled, SameAttempts, MetaFields

(***************************************************************************)
(* Only the holder of a task reports it, so nobody else's report changes   *)
(* its attempts.                                                           *)
(***************************************************************************)
LEMMA HeldAttemptsAreKept ==
  ASSUME FleetInv, [FleetNext]_fleetVars, NEW v \in Workers, NEW t \in inflight[v],
         ~(HandleAcks(v) /\ t \in TasksIn(acking[v])), ~AcksRefused(v)
  PROVE  SameAttempts(t)
<1>1. t \in Tasks /\ t \in issued /\ Safe
  BY DEF FleetInv, QueueInv, StatusInv, Safe, TypeOK, NeverLost, Held
<1>2. CASE QueueStep({})
  BY <1>1, <1>2, UntouchedAttempts
<1>3. ASSUME NEW w \in Workers, HandleAcks(w) \/ AcksRefused(w),
             NEW acks \in SetToSeqs(acking[w]), HandleResults(w, acks, clock)
      PROVE  SameAttempts(t)
  <2>1. CASE Untouched(t)
    BY <2>1 DEF Untouched, SameAttempts
  <2>2. ASSUME t \in inflight[w], NEW ack \in acking[w], ack.task = t PROVE FALSE
    <3>1. w = v
      BY <1>1, <2>2 DEF Safe, OnePlace
    <3> QED
      BY <1>3, <2>2, <3>1 DEF TasksIn
  <2> QED
    BY <1>1, <1>3, <2>1, <2>2, ReportOfTask
<1> QED
  BY <1>2, <1>3, ReportsAndOthers

(***************************************************************************)
(* A step that gives a process nothing new, and leaves the attempts of     *)
(* what it keeps, keeps what it has true.                                  *)
(***************************************************************************)
LEMMA ReportsKept ==
  ASSUME FleetInv, NEW v \in Workers, ReportsInv(v),
         (ready[v] \cup running[v])' \subseteq ready[v] \cup running[v],
         \A t \in (ready[v] \cup running[v])' : fetched'[v][t] = fetched[v][t],
         (results[v] \cup acking[v])' \subseteq results[v] \cup acking[v],
         \A t \in Working(v)' : t \in inflight'[v] => t \in inflight[v] /\ SameAttempts(t)
  PROVE  ReportsInv(v)'
<1>1. /\ \A t \in (ready[v] \cup running[v])' : t \in Working(v)'
      /\ \A a \in (results[v] \cup acking[v])' : a.task \in Working(v)'
  BY DEF Working, TasksIn
<1> QED
  BY <1>1 DEF ReportsInv, SameAttempts

(***************************************************************************)
(* Nothing but a fetch adds to the inflight set of a process, and a fetch  *)
(* adds no task that it still works on.                                    *)
(***************************************************************************)
LEMMA WorkStaysHeld ==
  ASSUME FleetInv, NEW v \in Workers, Process(v),
         NEW t \in Working(v), t \in inflight'[v]
  PROVE  t \in inflight[v]
<1>1. /\ inflight \in [Workers -> SUBSET Tasks] /\ Safe
      /\ Registered(v) => Working(v) \subseteq inflight[v]
  BY DEF FleetInv, QueueInv, StatusInv, Safe, TypeOK, ProcessInv
<1>2. CASE FetchNext(v, clock) \/ AcquireLeases(v, locks[v])
  BY <1>1, <1>2 DEF FetchNext, AcquireLeases
<1>3. CASE UNCHANGED vars
  BY <1>3 DEF vars
<1>4. ASSUME NEW only, NEW cutoff, ReenqueueOrphaned(only, cutoff)
      PROVE  t \in inflight[v]
  BY <1>4, SweepsGainNothing DEF NothingGained
<1>5. CASE RegisterWorker(v, clock) \/ KeepAlive(v, clock) \/ CloseWorker(v)
  BY <1>5 DEF RegisterWorker, KeepAlive, CloseWorker
<1>6. CASE ReleaseLeases(v, ready[v])
  BY <1>1, <1>6 DEF ReleaseLeases
<1>7. ASSUME NEW acks \in SetToSeqs(acking[v]), HandleResults(v, acks, clock)
      PROVE  t \in inflight[v]
  BY <1>1, <1>7 DEF HandleResults, Settle
<1> QED
  BY <1>2, <1>3, <1>4, <1>5, <1>6, <1>7, CallsOfProcess

(***************************************************************************)
(* A fetch tells the process the attempts of what it fetches.              *)
(***************************************************************************)
LEMMA ReportsAtFetch ==
  ASSUME FleetInv, NEW v \in Workers, ReportsInv(v), Fetch(v)
  PROVE  ReportsInv(v)'
<1> DEFINE new == inflight'[v] \ inflight[v]
<1>1. /\ MemoryOK /\ Working(v) \subseteq inflight[v] /\ Working(v) \subseteq Tasks
      /\ inflight'[v] \subseteq Tasks
  <2>1. Registered(v) /\ QueueStep({})
    BY FetchCall DEF Fetch, FetchNext
  <2>2. inflight'[v] \subseteq Tasks
    BY <2>1, QueueStepKeeps, NothingReported
       DEF FleetInv, QueueInv, StatusInv, Safe, TypeOK
  <2>3. inflight[v] \subseteq Tasks
    BY DEF FleetInv, QueueInv, StatusInv, Safe, TypeOK
  <2> QED
    BY <2>1, <2>2, <2>3 DEF FleetInv, ProcessInv
<1>2. /\ ready'[v] = new
      /\ \A t \in Tasks : fetched'[v][t] = IF t \in new THEN meta[t].attempts
                                           ELSE fetched[v][t]
      /\ UNCHANGED <<meta, running, results, acking>>
  BY <1>1 DEF Fetch, FetchNext, MemoryOK
<1>3. \A t \in new : t \in Tasks /\ fetched'[v][t] = meta'[t].attempts
  BY <1>1, <1>2
<1>4. \A t \in running[v] : t \in Tasks /\ t \in inflight[v] /\ t \notin new
  BY <1>1 DEF Working
<1>5. \A a \in results[v] \cup acking[v] : a.task \in inflight[v]
  BY <1>1 DEF Working, TasksIn
<1> HIDE DEF new
<1> QED
  BY <1>2, <1>3, <1>4, <1>5 DEF ReportsInv

LEMMA ReportsAtFinish ==
  ASSUME FleetInv, NEW v \in Workers, ReportsInv(v),
         NEW t \in Tasks, NEW status \in AckStatuses, Finish(v, t, status)
  PROVE  ReportsInv(v)'
<1> DEFINE result == Result(v, t, status)
<1>1. result.task = t /\ result.attempt = fetched[v][t] + 1
  BY DEF Result
<1> HIDE DEF result
<1>2. /\ t \in running[v] /\ t \notin ready[v]
      /\ results'[v] = results[v] \cup {result} /\ running'[v] = running[v] \ {t}
      /\ \A u \in Tasks : u # t => fetched'[v][u] = fetched[v][u]
      /\ UNCHANGED <<meta, inflight, ready, acking>>
  BY DEF Finish, FleetInv, MemoryOK, ProcessInv, queueVars, vars, result
<1>3. \A u \in (ready[v] \cup running[v])' :
        u \in ready[v] \cup running[v] /\ fetched'[v][u] = fetched[v][u]
  <2>1. \A u \in ready[v] \cup running[v] : u \in Tasks
    BY DEF FleetInv, MemoryOK
  <2> QED
    BY <1>2, <2>1
<1> QED
  BY <1>1, <1>2, <1>3 DEF ReportsInv

LEMMA NextReports ==
  ASSUME FleetInv, [FleetNext]_fleetVars, NEW v \in Workers, ReportsInv(v)
  PROVE  ReportsInv(v)'
<1>1. MemoryOK /\ ProcessInv(v)
  BY DEF FleetInv
<1> DEFINE Less == /\ (ready[v] \cup running[v])' \subseteq ready[v] \cup running[v]
                   /\ \A t \in (ready[v] \cup running[v])' : fetched'[v][t] = fetched[v][t]
                   /\ (results[v] \cup acking[v])' \subseteq results[v] \cup acking[v]
<1>2. ASSUME Less PROVE Working(v)' \subseteq Working(v)
  BY <1>2 DEF Working, TasksIn
<1>3. CASE Process(v)
  <2>1. \A t \in Working(v) : t \in inflight'[v] => t \in inflight[v]
    BY <1>3, WorkStaysHeld
  <2>2. CASE Stop(v)
    BY <1>1, <2>2 DEF Stop, MemoryOK, ReportsInv
  <2>3. CASE HandleAcks(v)
    <3>1. /\ results'[v] \cup acking'[v] = results[v]
          /\ UNCHANGED <<ready, running, fetched>>
      BY <1>1, <2>3 DEF HandleAcks, MemoryOK
    <3>2. \A t \in Working(v)' : t \notin TasksIn(acking[v])
      BY <1>1, <3>1 DEF ProcessInv, Working, TasksIn
    <3>3. Less /\ ~AcksRefused(v)
      BY <2>3, <3>1 DEF HandleAcks, AcksRefused
    <3>4. \A t \in Working(v)' : t \in inflight'[v] => t \in inflight[v] /\ SameAttempts(t)
      BY <1>2, <2>1, <3>2, <3>3, HeldAttemptsAreKept
    <3> QED
      BY <3>3, <3>4, ReportsKept
  <2>4. CASE ~HandleAcks(v) /\ ~AcksRefused(v)
    <3>1. CASE Less
      <4>1. \A t \in Working(v)' : t \in inflight'[v] =>
              t \in inflight[v] /\ SameAttempts(t)
        BY <1>2, <2>1, <2>4, <3>1, HeldAttemptsAreKept
      <4> QED
        BY <3>1, <4>1, ReportsKept
    <3>2. CASE Fetch(v)
      BY <3>2, ReportsAtFetch
    <3>3. ASSUME NEW t \in Tasks, NEW status \in AckStatuses, Finish(v, t, status)
          PROVE  ReportsInv(v)'
      BY <3>3, ReportsAtFinish
    <3>4. CASE HandleLocks(v) \/ NoLocks(v)
      <4>1. Less
        BY <1>1, <3>4 DEF HandleLocks, NoLocks, Batch, MemoryOK
      <4> QED
        BY <3>1, <4>1
    <3>5. CASE Close(v) \/ \E t \in Tasks : Run(v, t)
      <4>1. Less
        BY <1>1, <3>5 DEF Close, MayClose, Idle, Run, MemoryOK
      <4> QED
        BY <3>1, <4>1
    <3>6. CASE \/ Start(v) \/ StartFails(v) \/ Register(v) \/ RegisterRefused(v) \/ Beat(v)
               \/ Renew(v) \/ Sweep(v)
      <4>1. UNCHANGED <<ready, running, fetched, results, acking>>
        BY <3>6 DEF Start, StartFails, Register, RegisterRefused, Beat, Renew, Sweep
      <4> QED
        BY <3>1, <4>1
    <3>7. CASE \/ BeatFails(v) \/ RenewRefused(v) \/ SweepFails(v) \/ FetchRefused(v)
               \/ FetchFails(v) \/ FetchReplyLost(v) \/ LocksRefused(v) \/ CloseFails(v)
               \/ Closed(v) \/ Crash(v)
      BY <2>2, <3>7 DEF BeatFails, RenewRefused, SweepFails, FetchRefused, FetchFails,
         FetchReplyLost, LocksRefused, CloseFails, Closed, Crash
    <3> QED
      BY <1>3, <2>4, <3>2, <3>3, <3>4, <3>5, <3>6, <3>7 DEF Process
  <2> QED
    BY <2>2, <2>3, <2>4 DEF AcksRefused
<1>4. CASE ~Process(v)
  <2>1. \/ UNCHANGED <<ready, running, fetched, results, acking>>
        \/ \E w \in Workers : Process(w) /\ w # v
    BY <1>4 DEF FleetNext, Submit, Tick, fleetVars, processVars
  <2>2. /\ ready'[v] = ready[v] /\ running'[v] = running[v] /\ fetched'[v] = fetched[v]
        /\ results'[v] = results[v] /\ acking'[v] = acking[v]
    BY <1>1, <2>1, OwnMemory
  <2>3. inflight'[v] \subseteq inflight[v]
    BY <1>4, OthersGainNothing DEF FleetNext, NothingGained, Submit, BatchPush, Tick,
       queueVars, vars, fleetVars
  <2>4. ~HandleAcks(v) /\ ~AcksRefused(v)
    BY <1>4 DEF Process
  <2>5. \A t \in Working(v)' : t \in inflight'[v] => t \in inflight[v] /\ SameAttempts(t)
    BY <2>3, <2>4, HeldAttemptsAreKept
  <2> QED
    BY <2>2, <2>5, ReportsKept
<1> QED
  BY <1>3, <1>4

(***************************************************************************)
(* A step counts the attempts of an accepted task by one if it reports the *)
(* task, and not at all otherwise.                                         *)
(***************************************************************************)
LEMMA StepCountsReports ==
  ASSUME FleetInv, \A w \in Workers : ReportsInv(w), [FleetNext]_fleetVars,
         NEW t \in issued
  PROVE  LET reported == Held(t) /\ (Scheduled(t)' \/ Settled(t)')
         IN  meta'[t].attempts = meta[t].attempts + (IF reported THEN 1 ELSE 0)
<1> DEFINE reported == Held(t) /\ (Scheduled(t)' \/ Settled(t)')
<1>1. /\ t \in Tasks /\ Safe
      /\ Held(t) => ~Scheduled(t) /\ ~Settled(t)
      /\ meta[t] \in MetaFields
  BY DEF FleetInv, QueueInv, StatusInv, Safe, TypeOK, OnePlace
<1>2. meta[t].attempts \in Nat
  <2>1. meta[t].attempts # None
    BY <1>1 DEF FleetInv, QueueInv, StatusInv, MetaInv, MetaOK, Complete
  <2>2. /\ meta[t].attempts \in Attempts \cup FirstAttempts \cup {None}
        /\ Attempts \subseteq Nat /\ FirstAttempts \subseteq Nat
    BY <1>1, ConstantsAssumption DEF MetaFields
  <2>3. \A n : /\ n \in Attempts \cup FirstAttempts \cup {None} /\ n # None
              /\ Attempts \subseteq Nat /\ FirstAttempts \subseteq Nat => n \in Nat
    OBVIOUS
  <2> QED
    BY <2>1, <2>2, <2>3, Zenon
<1>3. SUFFICES \/ SameAttempts(t) /\ ~reported
               \/ meta'[t].attempts = meta[t].attempts + 1 /\ reported
  BY <1>2 DEF SameAttempts
<1>4. CASE QueueStep({}) /\ NothingPutOff
  <2>1. SameAttempts(t) /\ (Settled(t)' <=> Settled(t))
    BY <1>4, UntouchedAttempts
  <2>2. Scheduled(t)' => Scheduled(t)
    BY <1>4 DEF NothingPutOff
  <2> QED
    BY <1>1, <2>1, <2>2
<1>5. ASSUME NEW w \in Workers, NEW acks \in SetToSeqs(acking[w]),
             HandleResults(w, acks, clock)
      PROVE  \/ SameAttempts(t) /\ ~reported
             \/ meta'[t].attempts = meta[t].attempts + 1 /\ reported
  <2>1. CASE Untouched(t) /\ scheduled'[t] = scheduled[t]
    BY <1>1, <2>1 DEF Untouched, SamePlace, Scheduled, Settled, SameAttempts
  <2>2. ASSUME t \in inflight[w], Scheduled(t)' \/ Settled(t)',
               NEW ack \in acking[w], ack.task = t, Reported(t, ack, clock)
        PROVE  meta'[t].attempts = meta[t].attempts + 1 /\ reported
    <3>1. ack.attempt = meta[t].attempts + 1
      BY <2>2 DEF ReportsInv
    <3>2. meta'[t].attempts = ack.attempt
      BY <1>1, <2>2 DEF Reported, MetaFields
    <3> QED
      BY <2>2, <3>1, <3>2 DEF Held
  <2> QED
    BY <1>1, <1>5, <2>1, <2>2, ReportOfTask
<1> QED
  BY <1>4, <1>5, ReportsAndOthers

LEMMA ReportsInvariant == FleetSpec => [](\A w \in Workers : ReportsInv(w))
<1> DEFINE AllReports == \A w \in Workers : ReportsInv(w)
<1>1. FleetInit => AllReports
  BY DEF FleetInit, ReportsInv
<1>2. FleetInv /\ AllReports /\ [FleetNext]_fleetVars => AllReports'
  BY NextReports
<1> HIDE DEF AllReports
<1>3. FleetSpec => []AllReports
  BY <1>1, <1>2, FleetInvariant, PTL DEF FleetSpec
<1> QED
  BY <1>3 DEF AllReports

(***************************************************************************)
(* An attempt is counted when a report is accepted, and then exactly one,  *)
(* though the process was told the number that it counts on from when it   *)
(* fetched the task.  Of a task that it still holds that number is the one *)
(* in Redis; of a task that it does not hold any more it may be an old     *)
(* one, and the report is refused.                                         *)
(***************************************************************************)
THEOREM AttemptsAreCounted == FleetSpec => ReportsAreCounted
<1> DEFINE AllReports == \A w \in Workers : ReportsInv(w)
           Counted == \A t \in issued :
             LET reported == Held(t) /\ (Scheduled(t)' \/ Settled(t)')
             IN  meta'[t].attempts = meta[t].attempts + (IF reported THEN 1 ELSE 0)
<1>1. FleetInv /\ AllReports /\ [FleetNext]_fleetVars => Counted
  BY StepCountsReports
<1>2. FleetSpec => []AllReports
  BY ReportsInvariant
<1>3. ReportsAreCounted <=> [][Counted]_fleetVars
  BY DEF ReportsAreCounted
<1> HIDE DEF AllReports, Counted
<1> QED
  BY <1>1, <1>2, <1>3, FleetInvariant, PTL DEF FleetSpec

-----------------------------------------------------------------------------
(* The last attempt.                                                       *)

(***************************************************************************)
(* A task that is dead of a report that asks for another attempt had its   *)
(* last one, and one that was put off has some left: crashes and sweeps    *)
(* neither use up its attempts nor give it further ones.                   *)
(***************************************************************************)
THEOREM DeadAtTheLastAttempt == FleetSpec => []GivenUpAtLimit
<1>1. FleetInv => GivenUpAtLimit
  BY DEF FleetInv, QueueInv, StatusInv, Safe, TypeOK, AttemptsInv, AttemptsOK,
     GivenUpAtLimit
<1> QED
  BY <1>1, FleetInvariant, PTL

-----------------------------------------------------------------------------
(* A queue that no fetch can empty.                                        *)

LEMMA DueStaysDue ==
  ASSUME FleetInv, [FleetNext]_fleetVars, Wedged
  PROVE  Due(clock) \subseteq Due(clock)'
<1>1. /\ Safe /\ MemoryOK /\ clock \in Nat
      /\ scheduled \in [Tasks -> Nat \cup {None}]
      /\ \A t \in Due(clock) : t \in issued /\ ~Held(t)
  BY ClockReadings, ConstantsAssumption
     DEF FleetInv, QueueInv, StatusInv, Safe, TypeOK, OnePlace, NeverLost, Due
<1> DEFINE Kept == \A t \in Due(clock) : scheduled'[t] = scheduled[t]
<1>2. ASSUME NEW w \in Workers, Process(w) PROVE clock' = clock /\ Kept
  <2>1. clock' = clock
    BY <1>1, <1>2, OwnMemory
  <2>2. CASE UNCHANGED vars
    BY <2>1, <2>2 DEF vars
  <2>3. ASSUME NEW only, NEW cutoff, ReenqueueOrphaned(only, cutoff) PROVE Kept
    BY <2>3 DEF ReenqueueOrphaned
  <2>4. CASE \/ RegisterWorker(w, clock) \/ KeepAlive(w, clock) \/ CloseWorker(w)
             \/ AcquireLeases(w, locks[w]) \/ ReleaseLeases(w, ready[w])
    BY <2>1, <2>4 DEF RegisterWorker, KeepAlive, CloseWorker, AcquireLeases, ReleaseLeases
  <2>5. CASE FetchNext(w, clock)
    BY <2>1, <2>5 DEF FetchNext, Wedged
  <2>6. ASSUME NEW acks \in SetToSeqs(acking[w]), HandleResults(w, acks, clock) PROVE Kept
    <3> SUFFICES ASSUME NEW t \in Due(clock) PROVE scheduled'[t] = scheduled[t]
      OBVIOUS
    <3>1. t \in Tasks /\ t \notin inflight[w]
      BY <1>1 DEF Due, Held
    <3> QED
      BY <2>6, <3>1, ReportOfTask
  <2> QED
    BY <1>2, <2>1, <2>2, <2>3, <2>4, <2>5, <2>6, CallsOfProcess
<1>3. ASSUME NEW t \in Tasks, NEW runAt \in {0, clock + 1}, Submit(t, runAt)
      PROVE  clock' = clock /\ Kept
  <2>1. t \notin issued /\ clock' = clock /\ BatchPush(t, runAt, clock)
    BY <1>3 DEF Submit
  <2>2. \/ scheduled' = scheduled
        \/ scheduled' = [scheduled EXCEPT ![t] = ScheduleTime(runAt, clock)]
    <3>1. clock \in Times /\ runAt \in Times
      BY <1>1, ClockReadings
    <3> QED
      BY <2>1, <3>1, PushSchedules
  <2>3. \A u \in Due(clock) : u \in Tasks /\ u # t
    BY <1>1, <2>1 DEF Due
  <2> QED
    BY <1>1, <2>1, <2>2, <2>3
<1>4. CASE Tick \/ UNCHANGED fleetVars
  BY <1>1, <1>4 DEF Tick, queueVars, vars, fleetVars, Due, Scheduled
<1>5. CASE clock' = clock /\ Kept
  BY <1>5 DEF Due, Scheduled
<1> QED
  BY <1>2, <1>3, <1>4, <1>5 DEF FleetNext

(***************************************************************************)
(* Once more tasks are due than unpack returns the queue is wedged for     *)
(* ever, whatever the processes do and however the faults end: only a      *)
(* fetch takes tasks out of the scheduled set, and no fetch gets there.    *)
(***************************************************************************)
THEOREM WedgedForEver == FleetSpec => StaysWedged
<1>1. FleetInv /\ [FleetNext]_fleetVars /\ Wedged => Wedged'
  <2> SUFFICES ASSUME FleetInv, [FleetNext]_fleetVars, Wedged PROVE Wedged'
    OBVIOUS
  <2>1. /\ IsFiniteSet(Due(clock)') /\ Due(clock) \in SUBSET Due(clock)'
        /\ UnpackLimit \in Nat
    BY DueStaysDue, ConstantsAssumption, FS_Subset DEF Due
  <2>2. /\ Cardinality(Due(clock)') \in Nat /\ Cardinality(Due(clock)) \in Nat
        /\ Cardinality(Due(clock)) <= Cardinality(Due(clock)')
    BY <2>1, FS_Subset, FS_CardinalityType
  <2> QED
    BY <2>1, <2>2 DEF Wedged, Unpackable
<1>2. FleetInv /\ [FleetNext]_fleetVars => (Wedged => Wedged')
  BY <1>1
<1> QED
  BY <1>2, FleetInvariant, PTL DEF FleetSpec, StaysWedged

-----------------------------------------------------------------------------
(***************************************************************************)
(* A fleet is a task queue: what its processes and its environment do to a *)
(* task, with all that may go wrong, is what TaskQueue allows.             *)
(***************************************************************************)
THEOREM FleetIsTaskQueue == FleetSpec => ImplementsTaskQueue
  BY FleetUsesQueue, Refinement
=============================================================================
