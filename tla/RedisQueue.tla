----------------------------- MODULE RedisQueue -----------------------------
(***************************************************************************)
(* The Redis keys of one apalis-redis queue and the Lua scripts that are   *)
(* the only code that writes them.  Redis runs a script without            *)
(* interleaving, so a script is one action; a script that raises an error  *)
(* is not rolled back, so where a script can fail after it has written the *)
(* action keeps what was written.  A call that fails before its first      *)
(* write changes nothing and is simply not enabled here.                   *)
(*                                                                         *)
(* The specification is open: any client may call any script at any time,  *)
(* with any task ids, any worker name and any clock reading.  What is      *)
(* shown of it therefore holds however workers are scheduled, delayed,     *)
(* crashed, restarted or given skewed clocks.  WorkerFleet restricts the   *)
(* calls to those that the Rust client makes.                              *)
(***************************************************************************)
EXTENDS Integers, Sequences, FiniteSets, SequencesExt

CONSTANTS
  Tasks,              \* task ids (ULIDs)
  Workers,            \* worker names
  Keys,               \* idempotency keys
  None,               \* an absent field, member or key
  Times,              \* the readings of a client's clock, in seconds
  Attempts,           \* the attempt numbers a client may report
  FirstAttempts,      \* the attempt numbers that tasks are pushed with
  AckStatuses,        \* the statuses a client may report (TaskResult::status)
  LongMetadata,       \* whether a push may bring metadata too long for unpack
  BatchSize,          \* Config::batch_size
  HeartbeatInterval,  \* Config::heartbeat_interval, in whole seconds
  MissedHeartbeats,   \* Config::missed_heartbeats
  IdempotencyTtl,     \* Config::idempotency_ttl: whole seconds, or None
  MaxTtl,             \* the longest TTL that EXPIRE takes (about 2^63 / 1000)
  RetryLimit,         \* the 25 that handle_results.lua hard-codes
  AckLimit,           \* bound: how many results one call reports
  UnpackLimit         \* how many values Lua's unpack can return (about 8000)

VARIABLES
  data,         \* {queue}:data, the ids that have a payload
  meta,         \* {queue}:meta:<id>, the fields that other code reads
  scheduled,    \* {queue}:scheduled, each member's score (None: not a member)
  active,       \* {queue}:active, the list of ids that are ready to run
  signal,       \* {queue}:signal holds an element
  inflight,     \* {queue}:inflight:<worker>, the ids a worker has fetched
  workers,      \* {queue}:workers, each name's last heartbeat (None: not a member)
  done,         \* {queue}:done
  dead,         \* {queue}:dead
  idempotency,  \* {queue}:idempotency:<key>, the task that claimed the key
  issued        \* history: the ids that were ever accepted by a push

vars == <<data, meta, scheduled, active, signal, inflight, workers, done, dead,
          idempotency, issued>>

Statuses == {"Pending", "Running", "Done", "Failed", "Killed"}

\* One task's group of five arguments to handle_results.lua.  The timestamp is
\* the same for the whole call, and apalis-core is taken to report a result of
\* Ok with the status Done and an error with any other status.
Acks == [task : Tasks, status : AckStatuses, attempt : Attempts]
AckBatches == BoundedSeq(Acks, AckLimit)

\* Of max_attempts only whether the field is there is kept.  key is the field
\* idempotency_key.
NoMeta == [status |-> None, attempts |-> None, maxAttempts |-> FALSE, key |-> None,
           result |-> None, doneAt |-> None]

ASSUME ConstantsAssumption ==
  /\ IsFiniteSet(Tasks)
  /\ None \notin Tasks \cup Workers \cup Keys \cup Statuses \cup {"Ok", "Err"} \cup Int
  /\ Times \subseteq Nat
  /\ Attempts \subseteq Nat
  /\ FirstAttempts \subseteq Nat
  /\ AckStatuses \subseteq Statuses
  /\ LongMetadata \in BOOLEAN
  /\ BatchSize \in Nat \ {0}
  /\ HeartbeatInterval \in Nat
  /\ MissedHeartbeats \in Nat
  /\ IdempotencyTtl \in Nat \cup {None}
  /\ MaxTtl \in Nat
  /\ RetryLimit \in Nat
  /\ AckLimit \in Nat
  /\ UnpackLimit \in Nat

-----------------------------------------------------------------------------
(* Where a task id can be.                                                 *)

Scheduled(t) == scheduled[t] # None
Queued(t) == t \in Range(active)
Held(t) == \E w \in Workers : t \in inflight[w]
Settled(t) == t \in done \cup dead
Registered(w) == workers[w] # None

\* Mutant: one missed heartbeat is enough.
OneHeartbeat == HeartbeatInterval

\* Config::orphaned_duration, truncated to seconds by its callers.
OrphanedDuration == HeartbeatInterval * MissedHeartbeats

\* Lua's unpack raises an error on a longer table, and the script with it.
Unpackable(S) == Cardinality(S) <= UnpackLimit

-----------------------------------------------------------------------------
(* Pushing: batch_push.lua, called for one task at a time.  No item of the *)
(* script's loop looks at another one of the same call, but an item that   *)
(* raises an error ends the call: what came before it stays, without the   *)
(* signal that the end of the call gives.                                  *)

\* A run time in the past becomes the present; it is never zero unless the
\* clock itself reads zero.
ScheduleTime(runAt, now) == IF runAt > now THEN runAt ELSE now

\* The TTL that is sent, and what EXPIRE leaves of a key just claimed by t: a
\* TTL of zero deletes it.  One that is out of range raises an error, and the
\* claim stays without a TTL.
TtlArgument == IF IdempotencyTtl = None THEN 0 ELSE IdempotencyTtl
ClaimAfterExpire(t) == IF TtlArgument = 0 THEN None ELSE t
ExpireRaises == TtlArgument > MaxTtl
PushMayRaise == ExpireRaises \/ LongMetadata

\* SETNX on the key that a task is pushed with, if any.
Claims(key) == key # None /\ idempotency[key] = None
Allowed(key) == key # None => Claims(key)

Enqueue(t, key, attempts, time) ==
  /\ data' = data \cup {t}
  /\ meta' = [meta EXCEPT ![t] = [@ EXCEPT !.status = "Pending", !.attempts = attempts,
                                            !.maxAttempts = TRUE, !.key = key]]
  /\ issued' = issued \cup {t}
  /\ \/ /\ time > 0
        /\ scheduled' = [scheduled EXCEPT ![t] = time]
        /\ UNCHANGED <<active, signal>>
     \/ /\ time = 0
        /\ active' = Append(active, t)
        /\ \/ signal' = TRUE
           \/ PushMayRaise /\ UNCHANGED signal
        /\ UNCHANGED scheduled

\* unpack raises when the payload has been stored and nothing else has.
StorePayloadOnly(t) ==
  /\ data' = data \cup {t}
  /\ UNCHANGED <<meta, scheduled, active, signal, issued>>

BatchPush(t, runAt, now) ==
  /\ \E key \in Keys \cup {None} :
       /\ idempotency' = IF Claims(key)
                         THEN [idempotency EXCEPT ![key] = ClaimAfterExpire(t)]
                         ELSE idempotency
       /\ \/ /\ Allowed(key) /\ ~(Claims(key) /\ ExpireRaises) /\ t \notin data
             /\ \/ \E attempts \in FirstAttempts :
                     Enqueue(t, key, attempts, ScheduleTime(runAt, now))
                \/ LongMetadata /\ StorePayloadOnly(t)
          \/ /\ ~Allowed(key) \/ (Claims(key) /\ ExpireRaises) \/ t \in data
             /\ UNCHANGED <<data, meta, scheduled, active, signal, issued>>
  /\ UNCHANGED <<inflight, workers, done, dead>>

\* Redis drops a claimed key when its TTL has passed, unless it got none.
IdempotencyExpire(k) ==
  /\ idempotency[k] # None /\ ~ExpireRaises
  /\ idempotency' = [idempotency EXCEPT ![k] = None]
  /\ UNCHANGED <<data, meta, scheduled, active, signal, inflight, workers, done,
                 dead, issued>>

-----------------------------------------------------------------------------
(* Workers: register_worker.lua, keep_alive.lua, reenqueue_orphaned.lua    *)
(* and the ZREM of RedisStorage::poll_close.                               *)

\* Mutant: a name is taken over however lately it was seen.
RegisterAlways(w, now) ==
  /\ workers' = [workers EXCEPT ![w] = now]
  /\ UNCHANGED <<data, meta, scheduled, active, signal, inflight, done, dead,
                 idempotency, issued>>

RegisterWorker(w, now) ==
  /\ Registered(w) => now - workers[w] >= OrphanedDuration
  /\ workers' = [workers EXCEPT ![w] = now]
  /\ UNCHANGED <<data, meta, scheduled, active, signal, inflight, done, dead,
                 idempotency, issued>>

\* Mutant: a heartbeat adds the name if it is not in the worker set.
KeepAliveUpsert(w, now) ==
  /\ workers' = [workers EXCEPT ![w] = now]
  /\ UNCHANGED <<data, meta, scheduled, active, signal, inflight, done, dead,
                 idempotency, issued>>

KeepAlive(w, now) ==
  /\ Registered(w)
  /\ workers' = [workers EXCEPT ![w] = now]
  /\ UNCHANGED <<data, meta, scheduled, active, signal, inflight, done, dead,
                 idempotency, issued>>

\* The worker set without one member.
ZRem(member) == [w \in Workers |-> IF w = member THEN None ELSE workers[w]]

\* The key of a worker's inflight set, which is not the name of a worker.
InflightKey(w) == <<"inflight", w>>
ASSUME InflightKeysAreNoNames == \A w \in Workers : InflightKey(w) \notin Workers

\* Mutant: the worker's name is removed, while it may still hold tasks.
CloseWorkerByName(w) ==
  /\ workers' = ZRem(w)
  /\ UNCHANGED <<data, meta, scheduled, active, signal, inflight, done, dead,
                 idempotency, issued>>

\* poll_close passes the inflight key where the set holds names.
CloseWorker(w) ==
  /\ workers' = ZRem(InflightKey(w))
  /\ UNCHANGED <<data, meta, scheduled, active, signal, inflight, done, dead,
                 idempotency, issued>>

Expired(only, cutoff) ==
  {w \in Workers : Registered(w) /\ workers[w] <= cutoff /\ only \in {None, w}}

\* The loop visits the expired workers in the order of their scores and stops
\* with an error at the first whose inflight set cannot be unpacked.
SweepStopsAt(orphans, swept) ==
  \E stuck \in orphans \ swept :
    /\ ~Unpackable(inflight[stuck])
    /\ \A w \in swept : workers[w] <= workers[stuck]
    /\ \A w \in orphans \ swept : workers[stuck] <= workers[w]

\* Mutant: the inflight set is deleted even when its members could not be queued.
SweepDeletesStuck(only, cutoff) ==
  LET orphans == Expired(only, cutoff)
      swept == {w \in orphans : Unpackable(inflight[w])} IN
  /\ \E order \in SetToSeqs(UNION {inflight[w] : w \in swept}) : active' = active \o order
  /\ inflight' = [w \in Workers |-> IF w \in orphans THEN {} ELSE inflight[w]]
  /\ workers' = [w \in Workers |-> IF w \in orphans THEN None ELSE workers[w]]
  /\ UNCHANGED <<data, meta, scheduled, signal, done, dead, idempotency, issued>>

\* The members of several inflight sets come back in an unspecified order.
ReenqueueOrphaned(only, cutoff) ==
  LET orphans == Expired(only, cutoff) IN
  \E swept \in SUBSET orphans :
    LET recovered == UNION {inflight[w] : w \in swept} IN
    /\ \A w \in swept : Unpackable(inflight[w])
    /\ swept = orphans \/ SweepStopsAt(orphans, swept)
    /\ \E order \in SetToSeqs(recovered) : active' = active \o order
    /\ inflight' = [w \in Workers |-> IF w \in swept THEN {} ELSE inflight[w]]
    /\ workers' = [w \in Workers |-> IF w \in swept THEN None ELSE workers[w]]
    /\ signal' = (signal \/ (swept = orphans /\ recovered # {}))
    /\ UNCHANGED <<data, meta, scheduled, done, dead, idempotency, issued>>

-----------------------------------------------------------------------------
(* Fetching: fetch_next.lua.                                               *)

Due(now) == {t \in Tasks : Scheduled(t) /\ scheduled[t] <= now}

\* ZRANGEBYSCORE returns members by score; ids of equal score come in the
\* order of their bytes, which is left open.
Promotions(now) ==
  {order \in SetToSeqs(Due(now)) :
     \A i, j \in DOMAIN order : i < j => scheduled[order[i]] <= scheduled[order[j]]}

\* Mutant: promoted ids stay in the scheduled set.
DueKept(now) == scheduled

WithoutDue(now) == [t \in Tasks |-> IF t \in Due(now) THEN None ELSE scheduled[t]]

FetchCount(queue) == IF Len(queue) < BatchSize THEN Len(queue) ELSE BatchSize
\* Mutant: LTRIM drops one id that was not fetched.
TrimmedByOneMore(queue, count) == SubSeq(queue, count + 2, Len(queue))

Trimmed(queue, count) == SubSeq(queue, count + 1, Len(queue))
\* Mutant: the signal is cleared by every fetch.
SignalNeverKept(count) == FALSE

SignalKept(count) == count = BatchSize

\* A fetch of more ids than unpack returns fails at the SADD: what was due has
\* been promoted by then, and nothing else happens.
FetchNext(w, now) ==
  /\ Registered(w)
  /\ Unpackable(Due(now))
  /\ \E promoted \in Promotions(now) :
       LET queue == active \o promoted
           signalled == signal \/ promoted # <<>>
           count == FetchCount(queue)
           completes == count <= UnpackLimit
       IN  /\ active' = IF completes THEN Trimmed(queue, count) ELSE queue
           /\ inflight' = IF completes
                          THEN [inflight EXCEPT ![w] = @ \cup Range(SubSeq(queue, 1, count))]
                          ELSE inflight
           /\ signal' = (signalled /\ (completes => SignalKept(count)))
  /\ scheduled' = WithoutDue(now)
  /\ UNCHANGED <<data, meta, workers, done, dead, idempotency, issued>>

-----------------------------------------------------------------------------
(* Leases: acquire_leases.lua and release_leases.lua.  The fields locked_by *)
(* and locked_at, which only reports show, are left out, and with them     *)
(* renew_leases.lua, which writes nothing else.                            *)

\* LREM of one occurrence of each id.  An id is at most once in the list
\* (OnePlace), so which occurrence goes does not matter.
LRem(list, S) ==
  IF Range(list) \cap S = {} THEN list
  ELSE SelectSeq(list, LAMBDA t : t \notin S)

\* Mutant: leases are taken of whatever ids the caller names.
HeldByAnyone(w, S) == TRUE

\* Every id must be held by the caller, or no lease is taken at all.
AllHeldBy(w, S) == S \subseteq inflight[w]

AcquireLeases(w, S) ==
  /\ Registered(w)
  /\ S # {} /\ AllHeldBy(w, S)
  /\ active' = LRem(active, S)
  /\ inflight' = [inflight EXCEPT ![w] = @ \cup S]
  /\ meta' = [t \in Tasks |->
                IF t \in S THEN [meta[t] EXCEPT !.status = "Running"] ELSE meta[t]]
  /\ UNCHANGED <<data, scheduled, signal, workers, done, dead, idempotency, issued>>

\* An empty argument list releases everything the worker holds.
Released(w, S) == IF S = {} THEN inflight[w] ELSE S \cap inflight[w]

ReleaseLeases(w, S) ==
  LET released == Released(w, S) IN
  /\ S = {} => Unpackable(released)
  /\ \E order \in SetToSeqs(released) : active' = active \o order
  /\ inflight' = [inflight EXCEPT ![w] = @ \ released]
  /\ meta' = [t \in Tasks |->
                IF t \in released THEN [meta[t] EXCEPT !.status = "Pending"] ELSE meta[t]]
  /\ signal' = (signal \/ released # {})
  /\ UNCHANGED <<data, scheduled, workers, done, dead, idempotency, issued>>

-----------------------------------------------------------------------------
(* Results: handle_results.lua.                                            *)

\* Mutant: one retry too many.
RetryableOnceMore(ack) ==
  ack.status \in {"Failed", "Pending"} /\ ack.attempt <= RetryLimit

Retryable(ack) == ack.status \in {"Failed", "Pending"} /\ ack.attempt < RetryLimit
\* Mutant: the backoff is taken from the clock.
BackoffBackwards(now, ack) == now - ack.attempt

Backoff(now, ack) == now + ack.attempt

\* Mutant: the answer of SREM is ignored.
RemovableUnchecked(w, acks, n) ==
  \A i \in 1..n, j \in 1..n : i # j => acks[j].task # acks[i].task

\* The first n results can be removed from the worker's inflight set one after
\* the other; a repeated id is no longer there the second time.
Removable(w, acks, n) ==
  \A i \in 1..n : /\ acks[i].task \in inflight[w]
                  /\ \A j \in 1..(i - 1) : acks[j].task # acks[i].task

\* What the loop does to the results B it gets through: B names no task twice.
Settle(w, B, now) ==
  LET AckOf(t) == CHOOSE ack \in B : ack.task = t
      TasksOf(A) == {ack.task : ack \in A}
      succeeded == {ack \in B : ack.status = "Done"}
      retried == {ack \in B : Retryable(ack)}
      given_up == (B \ succeeded) \ retried
  IN  /\ inflight' = [inflight EXCEPT ![w] = @ \ TasksOf(B)]
      /\ done' = done \cup TasksOf(succeeded)
      /\ dead' = dead \cup TasksOf(given_up)
      /\ scheduled' = [t \in Tasks |-> IF t \in TasksOf(retried)
                                       THEN Backoff(now, AckOf(t))
                                       ELSE scheduled[t]]
      /\ meta' = [t \in Tasks |->
                    IF t \in TasksOf(B)
                    THEN [meta[t] EXCEPT !.status = AckOf(t).status,
                                         !.attempts = AckOf(t).attempt,
                                         !.result = IF AckOf(t) \in succeeded
                                                    THEN "Ok" ELSE "Err",
                                         !.doneAt = now]
                    ELSE meta[t]]
      /\ UNCHANGED <<data, active, signal, workers, idempotency, issued>>

\* The loop stops with an error at the first result whose task the worker does
\* not hold; the results before it stay applied.
HandleResults(w, acks, now) ==
  \E n \in 1..Len(acks) :
    /\ Removable(w, acks, n)
    /\ n < Len(acks) => ~Removable(w, acks, n + 1)
    /\ Settle(w, Range(SubSeq(acks, 1, n)), now)

-----------------------------------------------------------------------------
(* Vacuuming: vacuum.lua and vacuum_before.lua.                            *)

TerminalStatuses == {"Done", "Failed", "Killed"}
Vacuumed == {t \in data : meta[t].status \in TerminalStatuses}
VacuumedBefore(cutoff) ==
  {t \in Vacuumed : meta[t].doneAt # None /\ meta[t].doneAt <= cutoff}

\* Mutant: only the metadata is deleted.
ForgetMetadata(S) ==
  /\ meta' = [t \in Tasks |-> IF t \in S THEN NoMeta ELSE meta[t]]
  /\ UNCHANGED <<data, scheduled, active, signal, inflight, workers, done, dead,
                 idempotency, issued>>

Forget(S) ==
  /\ data' = data \ S
  /\ meta' = [t \in Tasks |-> IF t \in S THEN NoMeta ELSE meta[t]]
  /\ UNCHANGED <<scheduled, active, signal, inflight, workers, done, dead,
                 idempotency, issued>>

Vacuum == Forget(Vacuumed)
VacuumBefore(cutoff) == Forget(VacuumedBefore(cutoff))

-----------------------------------------------------------------------------
Init ==
  /\ data = {}
  /\ meta = [t \in Tasks |-> NoMeta]
  /\ scheduled = [t \in Tasks |-> None]
  /\ active = <<>>
  /\ signal = FALSE
  /\ inflight = [w \in Workers |-> {}]
  /\ workers = [w \in Workers |-> None]
  /\ done = {}
  /\ dead = {}
  /\ idempotency = [k \in Keys |-> None]
  /\ issued = {}

\* A push may be repeated, but an id that was vacuumed is not used again: ids
\* are ULIDs, generated per push unless the caller sets one.
Push ==
  \E t \in Tasks, runAt, now \in Times :
    /\ t \in issued => t \in data
    /\ BatchPush(t, runAt, now)

Next ==
  \/ Push
  \/ \E k \in Keys : IdempotencyExpire(k)
  \/ \E w \in Workers, now \in Times : RegisterWorker(w, now)
  \/ \E w \in Workers, now \in Times : KeepAlive(w, now)
  \/ \E w \in Workers : CloseWorker(w)
  \/ \E only \in Workers \cup {None}, cutoff \in Times : ReenqueueOrphaned(only, cutoff)
  \/ \E w \in Workers, now \in Times : FetchNext(w, now)
  \/ \E w \in Workers, S \in SUBSET Tasks : AcquireLeases(w, S)
  \/ \E w \in Workers, S \in SUBSET Tasks : ReleaseLeases(w, S)
  \/ \E w \in Workers, acks \in AckBatches, now \in Times : HandleResults(w, acks, now)
  \/ Vacuum
  \/ \E cutoff \in Times : VacuumBefore(cutoff)

Spec == Init /\ [][Next]_vars

-----------------------------------------------------------------------------
(* Properties.                                                             *)

(***************************************************************************)
(* Every variable has its type.  Scores are natural numbers: a backoff is  *)
(* added to the clock, never taken from it.                                *)
(***************************************************************************)
MetaFields ==
  [status : Statuses \cup {None}, attempts : Attempts \cup FirstAttempts \cup {None},
   maxAttempts : BOOLEAN, key : Keys \cup {None}, result : {"Ok", "Err", None},
   doneAt : Times \cup {None}]

TypeOK ==
  /\ data \subseteq Tasks
  /\ meta \in [Tasks -> MetaFields]
  /\ scheduled \in [Tasks -> Nat \cup {None}]
  /\ active \in Seq(Tasks)
  /\ signal \in BOOLEAN
  /\ inflight \in [Workers -> SUBSET Tasks]
  /\ workers \in [Workers -> Times \cup {None}]
  /\ done \subseteq Tasks
  /\ dead \subseteq Tasks
  /\ idempotency \in [Keys -> Tasks \cup {None}]
  /\ issued \subseteq Tasks

(***************************************************************************)
(* A task is in at most one place: waiting for its time, ready, held by    *)
(* one worker, done or dead.  A task in two places would be run twice; the *)
(* places are five Redis keys that seven scripts move ids between.         *)
(***************************************************************************)
OnePlace ==
  /\ IsInjective(active)
  /\ \A v, w \in Workers : v # w => inflight[v] \cap inflight[w] = {}
  /\ done \cap dead = {}
  /\ \A t \in Tasks :
       /\ Scheduled(t) => ~Queued(t) /\ ~Held(t) /\ ~Settled(t)
       /\ Queued(t) => ~Held(t) /\ ~Settled(t)
       /\ Held(t) => ~Settled(t)

(***************************************************************************)
(* A task that a push accepted is somewhere, whatever scripts fail half    *)
(* way and whichever workers die: no sequence of calls loses an id.        *)
(***************************************************************************)
NeverLost ==
  \A t \in Tasks : t \in issued <=> Scheduled(t) \/ Queued(t) \/ Held(t) \/ Settled(t)

(***************************************************************************)
(* A worker that holds tasks is in the worker set, the only place where    *)
(* reenqueue_orphaned.lua looks for the owners of tasks to recover.  It    *)
(* holds because poll_close's ZREM misses its member: the mutant that      *)
(* removes the worker's name, as the code means to, breaks it.             *)
(***************************************************************************)
Recoverable == \A w \in Workers : inflight[w] # {} => Registered(w)

(***************************************************************************)
(* While a task is ready the signal list has an element: a script that     *)
(* fills the list signals, and only a fetch that emptied it clears.        *)
(***************************************************************************)
SignalInv == active # <<>> => signal

(***************************************************************************)
(* The status that other parts of the program read agrees with the place   *)
(* of the task: Done and Killed are reported for settled tasks only, and a *)
(* settled task that still has metadata has a status that was reported, no *)
(* matter how its lease came and went.  Running may be stale               *)
(* (reenqueue_orphaned.lua does not reset it), Failed may be a retry, but  *)
(* neither hides a task that is done.                                      *)
(***************************************************************************)
StatusMatchesPlace ==
  \A t \in data :
    /\ t \in done <=> meta[t].status = "Done"
    /\ meta[t].status = "Killed" => t \in dead
    /\ t \in dead => meta[t].status \in AckStatuses \ {"Done"}

(***************************************************************************)
(* An outcome is final: a task that is done or dead stays so, and what is  *)
(* recorded of it is never rewritten, only deleted with the task, however  *)
(* late other workers renew, release or report it.                         *)
(***************************************************************************)
OutcomeIsFinal ==
  [][\A t \in Tasks :
       /\ t \in done => t \in done'
       /\ t \in dead => t \in dead'
       /\ Settled(t) => meta'[t] \in {meta[t], NoMeta}]_vars

(***************************************************************************)
(* The queue implements TaskQueue: a task is leased to one worker at a     *)
(* time, only the worker that holds it settles it, once, and every other   *)
(* way out of an inflight set puts it back to wait.                        *)
(***************************************************************************)
Phase(t) ==
  CASE t \in done -> "done"
    [] t \in dead -> "dead"
    [] Held(t) -> "held"
    [] Scheduled(t) \/ Queued(t) -> "waiting"
    [] OTHER -> "absent"
Holder(t) == IF Held(t) THEN CHOOSE w \in Workers : t \in inflight[w] ELSE None

phaseOf == [t \in Tasks |-> Phase(t)]
holderOf == [t \in Tasks |-> Holder(t)]

Abstract == INSTANCE TaskQueue WITH phase <- phaseOf, holder <- holderOf

ImplementsTaskQueue == Abstract!Spec

(***************************************************************************)
(* A task that may still run has its payload.  fetch_next.lua reads the    *)
(* payload of every id it fetches, and fetch_next.rs fails the whole batch *)
(* when one is missing.                                                    *)
(***************************************************************************)
QueuedHasData == \A t \in Tasks : Scheduled(t) \/ Queued(t) \/ Held(t) => t \in data

(***************************************************************************)
(* Of the tasks that are pushed with one idempotency key only one is       *)
(* stored; to be expected as long as keys do not expire.                   *)
(***************************************************************************)
UniquePerKey ==
  \A s, t \in data : s # t /\ meta[s].key = meta[t].key => meta[t].key = None

=============================================================================
