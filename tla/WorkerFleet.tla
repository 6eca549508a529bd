---------------------------- MODULE WorkerFleet ----------------------------
(***************************************************************************)
(* The client side: processes that run RedisPersistence (persist.rs)       *)
(* against the scripts of RedisQueue, one process per worker name, with    *)
(* one clock.  A method of RedisPersistence is a sequence of script calls  *)
(* with an await between them, so each call is an action of its own, and   *)
(* other processes, the clock and crashes come in between.                 *)
(*                                                                         *)
(* Which method is called when is decided by apalis-core (Persisted and    *)
(* TaskPersistLayer), which is not part of the repository.  It is modelled *)
(* from how lib.rs and persist.rs use it: poll_ready registers and then    *)
(* beats at every heartbeat_interval, poll_next fetches when its buffer is *)
(* empty, the layer emits a Lock event when a task starts (with            *)
(* lock_tasks) and a Complete event when it ends, poll_close gives back    *)
(* what is buffered.  An error of a call stops the worker.                 *)
(***************************************************************************)
EXTENDS RedisQueue

CONSTANTS
  Faults,        \* what may go wrong: a subset of FaultKinds
  LockTasks,     \* Config::lock_tasks
  EmitEvents,    \* Config::emit_events
  TaskTracking,  \* the cargo feature task-tracking
  LastFault,     \* bound: after this time nothing goes wrong and nothing is submitted
  MaxTime        \* bound: the clock stops here

FaultKinds == {"crash",      \* a process dies, its memory is lost, or it is shut down
               "lostReply",  \* a fetch is executed but its reply is lost or does not decode
               "pause",      \* time passes between the two calls of register
               "stall",      \* a process misses heartbeats
               "failure"}    \* a task fails

ASSUME FleetAssumption ==
  /\ Faults \subseteq FaultKinds
  /\ {LockTasks, EmitEvents, TaskTracking} \subseteq BOOLEAN
  /\ LastFault \in Nat /\ MaxTime \in Nat
  /\ MissedHeartbeats > 0 /\ OrphanedDuration <= MaxTime
  /\ 0..(MaxTime + 1) \subseteq Times
  /\ RetryLimit > 0
  /\ \A a \in FirstAttempts \cup {n \in Attempts : n < RetryLimit} : a + 1 \in Attempts
  /\ AckLimit >= Cardinality(Tasks)

VARIABLES
  clock,    \* the time every process reads
  pc,       \* where each process is in its life
  beating,  \* which call of a heartbeat comes next, if one is going on
  ready,    \* Persisted's buffer: fetched tasks that have not started
  running,  \* tasks that are being executed
  fetched,  \* the attempts that the fetch of each of these tasks returned
  locks,    \* Lock events not yet handled
  results,  \* Complete events not yet handled
  acking    \* the results of the event batch whose locks are acquired

processVars == <<pc, beating, ready, running, fetched, locks, results, acking>>
queueVars == vars
fleetVars == <<vars, clock, processVars>>

Fault(kind) == kind \in Faults /\ clock <= LastFault
TasksIn(acks) == {ack.task : ack \in acks}
Working(w) == ready[w] \cup running[w] \cup TasksIn(results[w] \cup acking[w])
Up(w) == pc[w] = "up"

NothingFetched == [t \in Tasks |-> None]

\* The process ends; what it had in memory is gone.
Stop(w) ==
  /\ pc' = [pc EXCEPT ![w] = "down"]
  /\ beating' = [beating EXCEPT ![w] = "none"]
  /\ ready' = [ready EXCEPT ![w] = {}]
  /\ running' = [running EXCEPT ![w] = {}]
  /\ fetched' = [fetched EXCEPT ![w] = NothingFetched]
  /\ locks' = [locks EXCEPT ![w] = {}]
  /\ results' = [results EXCEPT ![w] = {}]
  /\ acking' = [acking EXCEPT ![w] = {}]

-----------------------------------------------------------------------------
(* RedisPersistence::register: sweep the own name, then register.          *)

OwnCutoff == clock - HeartbeatInterval

\* reenqueue_orphaned.lua reaches its end: every set it finds can be unpacked.
SweepCompletes(only, cutoff) == \A v \in Expired(only, cutoff) : Unpackable(inflight[v])

Start(w) ==
  /\ pc[w] = "down"
  /\ SweepCompletes(w, OwnCutoff)
  /\ pc' = [pc EXCEPT ![w] = "starting"]
  /\ ReenqueueOrphaned(w, OwnCutoff)
  /\ UNCHANGED <<clock, beating, ready, running, fetched, locks, results, acking>>

\* The sweep's error is that of register, which is not tried again at once.
StartFails(w) ==
  /\ pc[w] = "down"
  /\ ~SweepCompletes(w, OwnCutoff)
  /\ pc' = [pc EXCEPT ![w] = "refused"]
  /\ ReenqueueOrphaned(w, OwnCutoff)
  /\ UNCHANGED <<clock, beating, ready, running, fetched, locks, results, acking>>

Register(w) ==
  /\ pc[w] = "starting"
  /\ pc' = [pc EXCEPT ![w] = "up"]
  /\ RegisterWorker(w, clock)
  /\ UNCHANGED <<clock, beating, ready, running, fetched, locks, results, acking>>

\* "worker is still active within threshold"
RegisterRefused(w) ==
  /\ pc[w] = "starting"
  /\ Registered(w) /\ clock - workers[w] < OrphanedDuration
  /\ pc' = [pc EXCEPT ![w] = "refused"]
  /\ UNCHANGED <<queueVars, clock, beating, ready, running, fetched, locks, results, acking>>

-----------------------------------------------------------------------------
(* RedisPersistence::heartbeat: keep_alive, renew_leases (with lock_tasks) *)
(* and a sweep of every expired name.                                      *)

BeatDue(w) == Registered(w) => clock - workers[w] >= HeartbeatInterval

Beat(w) ==
  /\ Up(w) /\ beating[w] = "none" /\ BeatDue(w)
  /\ beating' = [beating EXCEPT ![w] = IF LockTasks THEN "renew" ELSE "sweep"]
  /\ KeepAlive(w, clock)
  /\ UNCHANGED <<clock, pc, ready, running, fetched, locks, results, acking>>

\* "Heartbeat failed: worker not registered"
BeatFails(w) ==
  /\ Up(w) /\ beating[w] = "none" /\ ~Registered(w)
  /\ Stop(w)
  /\ UNCHANGED <<queueVars, clock>>

\* The ids are sent only with task-tracking.  The script would publish on the
\* channel of KEYS[4], which is not passed: with emit_events it fails then.
RenewedIds(w) == IF TaskTracking THEN running[w] ELSE {}
Renewable(w) ==
  /\ Registered(w)
  /\ RenewedIds(w) \subseteq inflight[w]
  /\ EmitEvents => RenewedIds(w) = {}

Renew(w) ==
  /\ beating[w] = "renew"
  /\ running[w] = {} \/ Renewable(w)
  /\ beating' = [beating EXCEPT ![w] = "sweep"]
  /\ UNCHANGED <<queueVars, clock, pc, ready, running, fetched, locks, results, acking>>

RenewRefused(w) ==
  /\ beating[w] = "renew"
  /\ running[w] # {} /\ ~Renewable(w)
  /\ Stop(w)
  /\ UNCHANGED <<queueVars, clock>>

\* The filter AllExcept is not looked at: the own name is swept as well.
SweepCutoff == clock - OrphanedDuration

\* Mutant: a heartbeat sweeps nobody.
SweepNobody(w) ==
  /\ beating[w] = "sweep"
  /\ beating' = [beating EXCEPT ![w] = "none"]
  /\ UNCHANGED <<queueVars, clock, pc, ready, running, fetched, locks, results, acking>>

Sweep(w) ==
  /\ beating[w] = "sweep"
  /\ SweepCompletes(None, SweepCutoff)
  /\ beating' = [beating EXCEPT ![w] = "none"]
  /\ ReenqueueOrphaned(None, SweepCutoff)
  /\ UNCHANGED <<clock, pc, ready, running, fetched, locks, results, acking>>

\* The workers before the one that cannot be swept are swept all the same.
SweepFails(w) ==
  /\ beating[w] = "sweep"
  /\ ~SweepCompletes(None, SweepCutoff)
  /\ ReenqueueOrphaned(None, SweepCutoff)
  /\ Stop(w)
  /\ UNCHANGED clock

-----------------------------------------------------------------------------
(* Fetching and executing.                                                 *)

\* fetch_next.lua reaches its end: unpack has room for what is due and for the batch.
FetchCompletes ==
  /\ Unpackable(Due(clock))
  /\ \/ BatchSize <= UnpackLimit
     \/ Len(active) + Cardinality(Due(clock)) <= UnpackLimit

Fetch(w) ==
  /\ Up(w) /\ ready[w] = {} /\ FetchCompletes
  /\ FetchNext(w, clock)
  /\ ready' = [ready EXCEPT ![w] = inflight'[w] \ inflight[w]]
  /\ fetched' = [fetched EXCEPT ![w] =
                   [t \in Tasks |-> IF t \in ready'[w] THEN meta[t].attempts ELSE @[t]]]
  /\ UNCHANGED <<clock, pc, beating, running, locks, results, acking>>

\* "Cant fetch next: worker not registered"
FetchRefused(w) ==
  /\ Up(w) /\ ready[w] = {} /\ ~Registered(w)
  /\ Stop(w)
  /\ UNCHANGED <<queueVars, clock>>

\* Mutant: what is due leaves the scheduled set before it is pushed.
FetchDropsDue(w) ==
  /\ Up(w) /\ ready[w] = {} /\ Registered(w) /\ ~FetchCompletes
  /\ scheduled' = WithoutDue(clock)
  /\ Stop(w)
  /\ UNCHANGED <<data, meta, active, signal, inflight, workers, done, dead, idempotency,
                 issued, clock>>

\* What is due has been promoted when it is the batch that is too long.
FetchFails(w) ==
  /\ Up(w) /\ ready[w] = {} /\ Registered(w) /\ ~FetchCompletes
  /\ \/ FetchNext(w, clock)
     \/ ~Unpackable(Due(clock)) /\ UNCHANGED queueVars
  /\ Stop(w)
  /\ UNCHANGED clock

\* The script has run when the reply is lost or fails to decode: the tasks are
\* in the inflight set of a process that stops without knowing them.
FetchReplyLost(w) ==
  /\ Fault("lostReply")
  /\ Up(w) /\ ready[w] = {} /\ FetchCompletes
  /\ FetchNext(w, clock)
  /\ Stop(w)
  /\ UNCHANGED clock

Run(w, t) ==
  /\ Up(w) /\ t \in ready[w]
  /\ ready' = [ready EXCEPT ![w] = @ \ {t}]
  /\ running' = [running EXCEPT ![w] = @ \cup {t}]
  /\ locks' = IF LockTasks THEN [locks EXCEPT ![w] = @ \cup {t}] ELSE locks
  /\ UNCHANGED <<queueVars, clock, pc, beating, fetched, results, acking>>

\* Mutant: the execution is not counted as an attempt.
ResultNotCounted(w, t, status) ==
  [task |-> t, status |-> status, attempt |-> fetched[w][t]]

\* apalis-core counts the execution on top of the attempts that the task was
\* fetched with, whatever has happened to the metadata since then.
Result(w, t, status) == [task |-> t, status |-> status, attempt |-> fetched[w][t] + 1]

Finish(w, t, status) ==
  /\ Up(w) /\ t \in running[w]
  /\ status # "Done" => Fault("failure")
  /\ running' = [running EXCEPT ![w] = @ \ {t}]
  /\ fetched' = [fetched EXCEPT ![w][t] = None]
  /\ results' = [results EXCEPT ![w] = @ \cup {Result(w, t, status)}]
  /\ UNCHANGED <<queueVars, clock, pc, beating, ready, locks, acking>>

-----------------------------------------------------------------------------
(* RedisPersistence::handle_events: the leases of the batch first, then    *)
(* its results.  A refusal of either stops the worker.                     *)

Batch(w) ==
  /\ locks' = [locks EXCEPT ![w] = {}]
  /\ results' = [results EXCEPT ![w] = {}]
  /\ acking' = [acking EXCEPT ![w] = results[w]]
  /\ UNCHANGED <<clock, pc, beating, ready, running, fetched>>

HandleLocks(w) ==
  /\ Up(w) /\ acking[w] = {} /\ locks[w] # {}
  /\ AcquireLeases(w, locks[w])
  /\ Batch(w)

LocksRefused(w) ==
  /\ Up(w) /\ acking[w] = {} /\ locks[w] # {}
  /\ ~Registered(w) \/ ~AllHeldBy(w, locks[w])
  /\ Stop(w)
  /\ UNCHANGED <<queueVars, clock>>

NoLocks(w) ==
  /\ Up(w) /\ acking[w] = {} /\ locks[w] = {} /\ results[w] # {}
  /\ Batch(w)
  /\ UNCHANGED queueVars

HandleAcks(w) ==
  /\ Up(w) /\ acking[w] # {}
  /\ TasksIn(acking[w]) \subseteq inflight[w]
  /\ \E acks \in SetToSeqs(acking[w]) : HandleResults(w, acks, clock)
  /\ acking' = [acking EXCEPT ![w] = {}]
  /\ UNCHANGED <<clock, pc, beating, ready, running, fetched, locks, results>>

\* "task not executed by worker": what came before it in the batch is applied.
AcksRefused(w) ==
  /\ Up(w) /\ ~(TasksIn(acking[w]) \subseteq inflight[w])
  /\ \E acks \in SetToSeqs(acking[w]) :
       \/ HandleResults(w, acks, clock)
       \/ ~Removable(w, acks, 1) /\ UNCHANGED queueVars
  /\ Stop(w)
  /\ UNCHANGED clock

-----------------------------------------------------------------------------
(* RedisStorage::poll_close: reenqueue_abandoned for what was not started, *)
(* once what was started has been handled, then the ZREM.                  *)

Idle(w) == running[w] = {} /\ locks[w] = {} /\ results[w] = {} /\ acking[w] = {}

MayClose(w) == Fault("crash") /\ Up(w) /\ Idle(w) /\ beating[w] = "none"

\* With nothing in the buffer no id is passed, and everything held is released.
Abandon(w) == ReleaseLeases(w, ready[w])

\* release_leases.lua cannot unpack everything held, and has changed nothing.
AbandonStuck(w) == ready[w] = {} /\ ~Unpackable(inflight[w])

\* ReenqueueMismatch: the leases have been released when it is noticed.
Mismatch(w) ==
  LockTasks /\ Cardinality(Released(w, ready[w])) # Cardinality(ready[w])

Close(w) ==
  /\ MayClose(w) /\ ~Mismatch(w)
  /\ Abandon(w)
  /\ pc' = [pc EXCEPT ![w] = "closing"]
  /\ ready' = [ready EXCEPT ![w] = {}]
  /\ fetched' = [fetched EXCEPT ![w] = NothingFetched]
  /\ UNCHANGED <<clock, beating, running, locks, results, acking>>

CloseFails(w) ==
  /\ MayClose(w)
  /\ \/ Mismatch(w) /\ Abandon(w)
     \/ AbandonStuck(w) /\ UNCHANGED queueVars
  /\ Stop(w)
  /\ UNCHANGED clock

Closed(w) ==
  /\ pc[w] = "closing"
  /\ CloseWorker(w)
  /\ Stop(w)
  /\ UNCHANGED clock

Crash(w) ==
  /\ Fault("crash")
  /\ pc[w] \notin {"down", "refused"}
  /\ Stop(w)
  /\ UNCHANGED <<queueVars, clock>>

-----------------------------------------------------------------------------
(* The environment.                                                        *)

Submit(t, runAt) ==
  /\ t \notin issued /\ clock <= LastFault
  /\ BatchPush(t, runAt, clock)
  /\ UNCHANGED <<clock, processVars>>

\* Bound: after LastFault some process runs and events are handled within the
\* second, or they could be put off until the clock has stopped.
Quiet ==
  /\ \E w \in Workers : pc[w] \in {"up", "refused"}
  /\ \A w \in Workers : pc[w] \notin {"starting", "closing"}
  /\ \A w \in Workers : results[w] \cup acking[w] = {}

\* Unless a process may stall, no second heartbeat falls due before the first
\* is done.  Unless register may pause, its two calls happen at one reading.
\* A process that was refused is started again after a second at the earliest.
Tick ==
  /\ clock < MaxTime
  /\ \/ Fault("stall")
     \/ \A w \in Workers : Up(w) => beating[w] = "none" /\ ~BeatDue(w)
  /\ Fault("pause") \/ \A w \in Workers : pc[w] # "starting"
  /\ clock > LastFault => Quiet
  /\ clock' = clock + 1
  /\ pc' = [w \in Workers |-> IF pc[w] = "refused" THEN "down" ELSE pc[w]]
  /\ UNCHANGED <<queueVars, beating, ready, running, fetched, locks, results, acking>>

FleetInit ==
  /\ Init
  /\ clock = OrphanedDuration
  /\ pc = [w \in Workers |-> "down"]
  /\ beating = [w \in Workers |-> "none"]
  /\ ready = [w \in Workers |-> {}]
  /\ running = [w \in Workers |-> {}]
  /\ fetched = [w \in Workers |-> NothingFetched]
  /\ locks = [w \in Workers |-> {}]
  /\ results = [w \in Workers |-> {}]
  /\ acking = [w \in Workers |-> {}]

Process(w) ==
  \/ Start(w)
  \/ StartFails(w)
  \/ Register(w)
  \/ RegisterRefused(w)
  \/ Beat(w)
  \/ BeatFails(w)
  \/ Renew(w)
  \/ RenewRefused(w)
  \/ Sweep(w)
  \/ SweepFails(w)
  \/ Fetch(w)
  \/ FetchRefused(w)
  \/ FetchFails(w)
  \/ FetchReplyLost(w)
  \/ \E t \in Tasks : Run(w, t)
  \/ \E t \in Tasks, status \in AckStatuses : Finish(w, t, status)
  \/ HandleLocks(w)
  \/ LocksRefused(w)
  \/ NoLocks(w)
  \/ HandleAcks(w)
  \/ AcksRefused(w)
  \/ Close(w)
  \/ CloseFails(w)
  \/ Closed(w)
  \/ Crash(w)

FleetNext ==
  \/ \E w \in Workers : Process(w)
  \/ \E t \in Tasks, runAt \in {0, clock + 1} : Submit(t, runAt)
  \/ Tick

FleetSpec == FleetInit /\ [][FleetNext]_fleetVars

\* The supervisor's duty: when no process runs, start one.
StartOne ==
  /\ \A v \in Workers : pc[v] \in {"down", "refused"}
  /\ \E w \in Workers : Start(w) \/ StartFails(w)

\* The clock goes on, the runtime polls every future of a process that runs, and
\* one process at least is started: the others may stay dead for ever.  Strong
\* fairness where a process could otherwise be killed over and over at its start.
Fairness ==
  /\ WF_fleetVars(Tick) /\ WF_fleetVars(StartOne)
  /\ \A w \in Workers :
       /\ SF_fleetVars(Register(w) \/ RegisterRefused(w))
       /\ WF_fleetVars(Beat(w) \/ BeatFails(w))
       /\ WF_fleetVars(Renew(w) \/ RenewRefused(w)) /\ WF_fleetVars(Sweep(w) \/ SweepFails(w))
       /\ WF_fleetVars(Fetch(w) \/ FetchRefused(w) \/ FetchFails(w))
       /\ \A t \in Tasks : WF_fleetVars(Run(w, t)) /\ WF_fleetVars(Finish(w, t, "Done"))
       /\ WF_fleetVars(HandleLocks(w) \/ LocksRefused(w) \/ NoLocks(w))
       /\ WF_fleetVars(HandleAcks(w) \/ AcksRefused(w))
       /\ WF_fleetVars(Closed(w))

FairSpec == FleetSpec /\ Fairness

-----------------------------------------------------------------------------
(* Properties.                                                             *)

(***************************************************************************)
(* Every variable of the processes has its type.                           *)
(***************************************************************************)
FleetTypeOK ==
  /\ TypeOK
  /\ clock \in OrphanedDuration..MaxTime
  /\ pc \in [Workers -> {"down", "refused", "starting", "up", "closing"}]
  /\ beating \in [Workers -> {"none", "renew", "sweep"}]
  /\ ready \in [Workers -> SUBSET Tasks]
  /\ running \in [Workers -> SUBSET Tasks]
  /\ fetched \in [Workers -> [Tasks -> Attempts \cup FirstAttempts \cup {None}]]
  /\ locks \in [Workers -> SUBSET Tasks]
  /\ results \in [Workers -> SUBSET Acks]
  /\ acking \in [Workers -> SUBSET Acks]

(***************************************************************************)
(* Whatever a live process works on, Redis still counts as held by it, so  *)
(* no other worker runs it at the same time and none of its results are    *)
(* refused.  It holds while heartbeats are on time.                        *)
(***************************************************************************)
LeaseIsHeld == \A w \in Workers : Up(w) => Working(w) \subseteq inflight[w]

(***************************************************************************)
(* Two live processes never have the same task, be it buffered, running or *)
(* still to be reported.  It holds while heartbeats are on time.           *)
(***************************************************************************)
NoTwoExecutors ==
  \A v, w \in Workers : v # w /\ Up(v) /\ Up(w) => Working(v) \cap Working(w) = {}

(***************************************************************************)
(* A task whose last report asks for a retry is given up for dead at the   *)
(* RetryLimit-th attempt, neither before nor after, whatever crashes and   *)
(* sweeps come in between; one that was pushed beyond the limit is given   *)
(* up at its first failure.  A task reported as Killed dies at once.       *)
(***************************************************************************)
LastAttempts == {RetryLimit} \cup {a + 1 : a \in FirstAttempts \ 0..(RetryLimit - 1)}

GivenUpAtLimit ==
  \A t \in data :
    /\ t \in dead /\ meta[t].status \in {"Failed", "Pending"} =>
         meta[t].attempts \in LastAttempts
    /\ ~Settled(t) /\ meta[t].doneAt # None => meta[t].attempts < RetryLimit

(***************************************************************************)
(* Whatever Redis counts as held by a live process, the process knows of.  *)
(* A task that it does not know is run by nobody: the heartbeats of the    *)
(* process keep it from being swept.                                       *)
(***************************************************************************)
NoStranded == \A w \in Workers : Up(w) => inflight[w] \subseteq Working(w)

(***************************************************************************)
(* A process loses the leases of what it works on only together with its   *)
(* registration, however late its heartbeats are: as long as its name is   *)
(* in the worker set, Redis counts as held by it whatever it works on.  So *)
(* the next heartbeat or fetch of a process that was swept stops it.       *)
(***************************************************************************)
LeaseUnlessSwept ==
  \A w \in Workers : Up(w) /\ Registered(w) => Working(w) \subseteq inflight[w]

(***************************************************************************)
(* Even when leases are lost to a sweep, a process never has two           *)
(* executions of one task: it gets the task again only after it has        *)
(* registered anew, and that takes a new process.                          *)
(***************************************************************************)
OneExecution ==
  \A w \in Workers :
    /\ ready[w] \cap running[w] = {}
    /\ (ready[w] \cup running[w]) \cap TasksIn(results[w] \cup acking[w]) = {}
    /\ \A a, b \in results[w] \cup acking[w] : a.task = b.task => a = b

(***************************************************************************)
(* An attempt is counted when the report of an execution is accepted, and  *)
(* then exactly one: a lost, refused, swept or repeated execution counts   *)
(* none.  The number that is written is the one that the process was given *)
(* when it fetched the task, plus one, however much later that was; it is  *)
(* right because no report is accepted from a process that lost the task.  *)
(***************************************************************************)
ReportsAreCounted ==
  [][\A t \in issued :
       LET reported == Held(t) /\ (Scheduled(t)' \/ Settled(t)')
       IN  meta'[t].attempts = meta[t].attempts + (IF reported THEN 1 ELSE 0)]_fleetVars

(***************************************************************************)
(* A queue with more due tasks than unpack returns never recovers: every   *)
(* fetch fails at that, and neither a failing fetch nor any other call of  *)
(* a process makes the due tasks fewer.                                    *)
(***************************************************************************)
Wedged == ~Unpackable(Due(clock))
StaysWedged == [][Wedged => Wedged']_fleetVars

(***************************************************************************)
(* A worker leaves the worker set only after orphaned_duration without a   *)
(* heartbeat.                                                              *)
(***************************************************************************)
OrphanedOnlyAfterDuration ==
  [][\A w \in Workers : Registered(w) /\ ~Registered(w)' =>
       clock - workers[w] >= OrphanedDuration]_fleetVars

(***************************************************************************)
(* Once nothing goes wrong any more, every accepted task is settled, even  *)
(* if only one worker is left: what dead workers held is recovered by its  *)
(* heartbeats, what failed is retried.                                     *)
(***************************************************************************)
EverySettles == \A t \in Tasks : t \in issued ~> Settled(t)

=============================================================================
