# apalis-redis in TLA+

A verification development of apalis-redis: the Lua scripts that own a queue's
Redis keys, the worker processes that call them, the readers that follow or list
tasks, and the notification path of the shared factory.  Paths are relative to
the repository (`lua/`, `src/`).

## The system

| Part | State | Operations | Interacts with |
|---|---|---|---|
| Queue scripts (`lua/*.lua`) | `data` and `meta` hashes, `scheduled` zset, `active` list, `signal` list, one `inflight` set per worker, `workers` zset, `done` and `dead` sets, idempotency keys | push, register, keep-alive, sweep, fetch, acquire/renew/release leases, results, vacuum | called by every client; each script is atomic, none is rolled back |
| `RedisPersistence` (`src/persist.rs`, `src/queries/`) | a connection, the configuration | `register`, `heartbeat`, `fetch_next`, `handle_events`, `reenqueue_abandoned`, `push_tasks`: sequences of script calls with awaits between them | driven by apalis-core's `Persisted` and `TaskPersistLayer` (not in the repository) |
| `RedisStorage` (`src/lib.rs`) | cleanup future | `poll_ready`, `poll_next`, `poll_close`, sink | wraps `Persisted`; removes its member of `workers` at close |
| Factory and `Pubsub` (`src/factory.rs`) | registry of streams, a flag and a waker per stream | `create_with_config`, push sender, `signal`, `poll_next` | messages published by the scripts; wakes worker tasks |
| Vacuum (`src/queries/vacuum.rs`) | none | `vacuum`, `vacuum_before` | removes payload and metadata of terminal tasks |
| `WaitForCompletion` (`src/queries/wait_for.rs`) | ids still awaited | a polling stream, three reads per task | reads metadata between the scripts |
| Listings (`fetch_by_id`, `list_all_tasks`), metrics | none | read-only reports, page by page | decode the same fields as a fetch |
| Configuration | settings, key names | `orphaned_duration` and key builders | used everywhere |

What makes it hard: task ids are moved between five keys by seven scripts;
scripts can fail half way (Lua's `unpack` has a limit, `EXPIRE` refuses a TTL
out of range, a result batch can hold a task that is no longer held); ownership is a lease kept alive by heartbeats
whose times come from the clients' clocks; a client method is several scripts
and anything happens in between; processes crash and come back under the same
name; a signal and a poll race for one flag; a client that waits for a task
reads its status, its result and its attempts one after the other.

What must be true: a task is in one place and never lost; only its holder
settles it, once; what a dead worker held is found again; a live worker keeps
its lease; every accepted task is settled in the end; who waits for a task
gets its outcome, once; a report decodes and misses nobody; no wakeup is lost.

## Modules

| Module | Contents |
|---|---|
| `TaskQueue` | abstract queue: a task waits, is leased, returns, is settled once |
| `RedisQueue` | the keys of one queue and every script that writes them; its properties and the refinement mapping to `TaskQueue` |
| `WorkerFleet` | processes that run `RedisPersistence` against `RedisQueue`, with a clock, crashes and other faults |
| `WaitFor` | the stream of `WaitForCompletion`, over `RedisQueue` |
| `Listings` | `fetch_by_id` and `list_all_tasks`, over `RedisQueue` |
| `Pubsub` | the factory's registry, push sender and `Pubsub::poll_next` |
| `MCRedisQueue`, `MCWorkerFleet`, `MCReaders`, `MCPubsub` | small instances for TLC |
| `QueueLemmas` | lemmas on sequences that list a set, concatenation and splitting |
| `RedisQueueProofs` | the safety theorems of `RedisQueue` |
| `RedisQueueRefinement` | `RedisQueue` implements `TaskQueue` |
| `QueueStatusProofs` | metadata, outcomes, claims and the signal of `RedisQueue` |
| `FleetProofs` | the inductive invariant of `WorkerFleet`, leases, the calls it makes |
| `FleetOutcomeProofs` | what leases are for: executions, attempts, outcomes of a fleet |
| `ReadersProofs` | the safety theorems of `WaitFor` and `Listings` |
| `PubsubProofs` | the safety theorems of `Pubsub` |

### RedisQueue

One variable per key (see the comments at `VARIABLES`), one action per script.
A call that fails before its first write is not enabled; one that fails later
keeps what it wrote, as Redis does: `BatchPush` has claimed the key when
`EXPIRE` refuses the TTL (`ExpireRaises`) and has stored the payload, with no
metadata and no place, when the metadata are too long for `unpack`
(`StorePayloadOnly`); `FetchNext` with a batch longer than `UnpackLimit` has
promoted due tasks, `ReenqueueOrphaned` has swept the workers before the stuck
one, `HandleResults` has applied the results before the one that is refused.
The specification is open: any client calls any script at any time with any
clock reading, so skewed or frozen clocks, delayed calls, crashes and two
processes with one name are all included. `IdempotencyExpire` is Redis dropping
a key. `issued`, the ids that a push accepted, is a history variable. The one
restriction is that an id is not pushed again after its data were vacuumed (ids
are ULIDs).

The idempotency key and the attempts already made (`FirstAttempts`) are arguments
of each push, so an id can come back with another key or with none.
`AckStatuses` are the statuses that may be reported; the script takes `Done`, the
two that it retries below the limit, and any other, which kills the task at once.
`LongMetadata` says whether a push may bring metadata that `unpack` cannot return,
`MaxTtl` is the longest TTL that `EXPIRE` takes.  A push is one task per call: no
item of a call looks at another one, but an item that raises an error ends the
call before it signals, so a push that stores may leave the signal alone when
some push may raise (`PushMayRaise`).

Data are abstract: a payload is there or not.  Of the metadata the fields that
other code acts on are kept: `status`, `attempts`, `result`, `done_at`, the
idempotency key, and whether `max_attempts` is there (a decoder insists on it);
`locked_by`, `locked_at` and what the user adds are left out.  A result is `Ok` or
`Err`: the script writes result and status independently, and it is an assumption
on apalis-core, which builds both from one outcome, that `Ok` comes with `Done` and
an error with any other status.  An attempt number and a clock reading are small
numbers, and `AckLimit` bounds the results of one call.  The order in which Redis returns members
of a set, or of a sorted set with equal scores, is left open.

### WorkerFleet

The calls that the Rust client makes, in its order.  `Start`/`Register` are the
two halves of `register`; `Beat`/`Renew`/`Sweep` the three calls of
`heartbeat`, `beating` says which comes next; `Fetch` is `fetch_next`;
`HandleLocks`/`NoLocks` and `HandleAcks` the two halves of `handle_events`;
`Close`/`Closed` are `poll_close`.  Each call that the script can turn away has
a `...Refused` or `...Fails` action: the process stops, as in "TODO: Better
error handling rather than stopping everything" (`src/persist.rs`).  A heartbeat
can stop at any of its three calls, and other processes act in between.

A script that stops half way because a set is too long to unpack is an error of
the call, and that ends the process too, with what the script had written kept:
`SweepFails`, `FetchFails`, and `CloseFails` for a release.  `SweepCompletes` and
`FetchCompletes` say when a script reaches its end.  In `register` the sweep's
error is that of the registration (`StartFails`).

`Renew` sends ids only with the feature `task-tracking`; with `emit_events` the
script then needs a key that is not passed and refuses (`RenewRefused`).
`fetched` is what a process remembers of each task from `Fetch` to `Finish`: the
attempts in the reply.  `Result` reports that number plus one, however old it is
by then (the addition is apalis-core's).  An execution ends with any of
`AckStatuses`.

`FetchReplyLost` is the error of `fetch_next.rs:204-218` after the script has run:
the process stops like after any other error, and the tasks stay in its inflight
set until a sweep takes its name or the next process of that name registers.

`Close` gives back the tasks that were not started; with an empty buffer the
list of ids is empty, which `release_leases.lua` takes for everything the worker
holds.  If more comes back than was sent, `CloseFails` ends in the `ReenqueueMismatch` of `src/persist.rs`, with the
leases released all the same; if the script could not unpack what is held
(`AbandonStuck`), with nothing released.

`Run` and `Finish` are apalis-core's layer, modelled from how `src/lib.rs`
configures it and marked external.  A process is identified by its worker name,
so there is at most one process per name at a time.  Nobody vacuums in the fleet:
`vacuum` is a call of an administrator, and after it no fetch of a
retry that lost its payload succeeds (see the findings); that outcomes stay what they are with
vacuums is checked and proved of `RedisQueue`.

`Faults` selects what may go wrong in a run: `crash` (and orderly shutdown),
`lostReply` (a fetch whose reply is lost or does not decode), `pause` (time
passes between the calls of `register`), `stall` (heartbeats are late), and
`failure` (a task fails).

### WaitFor

One round is one call of `check_status`.  `ReadStatus`, `ReadResult` and
`ReadAttempts` are its three `HGET`s, in any order of the tasks (the pending ids
are a `HashSet`); any script may run between them.  `DecodeFails` and
`ConnectionFails` are its two errors: what the call has collected is dropped,
the ids stay pending.  `Yield` ends a round.  An output decodes or not
(`Undecodable`); an error always does, it is text.

### Listings

`CompactTask` says which fields `deserialize_with_meta` insists on; the payload of
a push that failed half way has none of them, and a page with it fails.  A caller
that lists everything asks for page after page until one is empty
(`StartListing`, `ListPage`); a page is one script, which sorts all ids again
and takes those whose rank is within the page's bounds (`RankOf`, `PageOf`).
`present` and `calm` are history: what was there at the start, and that nothing
was vacuumed since.

### Pubsub

Every access to the registry, the flag or the waker is an action: `PushSender`
ends at the store in `signal`, `Wake` is the rest of it; `poll_next` is
`FirstSwap`, `RegisterWaker`, `SecondSwap`.  The registry's lock is held from
`PushSender` to `Wake`.  `ParseChannelInfo` models the split at ':' by what it
does to a queue's name.  AtomicWaker and the runtime are external.

## Runs

| Run | Instance | Shows |
|---|---|---|
| `queue` | 2 tasks, each push with one key or none, 2 workers, clock 0..1, 1 result of any status per call | the invariants of `RedisQueue`, `OutcomeIsFinal` |
| `queue_batches` | 2 tasks, 2 workers, batches of 2, 2 results per call, unpack limit 1, long metadata, every TTL out of range | `OnePlace`, `NeverLost`, `ImplementsTaskQueue` when scripts fail half way |
| `fleet` | 2 tasks, pushed with 0 or 2 attempts, 2 processes, `task-tracking`, reports of `Done`, `Failed` and `Killed`, all faults but stalls, unpack limit 1, clock to 5 | `FleetTypeOK`, `LeaseIsHeld`, `NoTwoExecutors`, `GivenUpAtLimit`, `StaysWedged` |
| `fleet_live` | 1 task, 2 processes, `emit_events`, crash, stall, lost replies, failure until 4, clock to 9 | `NoStranded`, `LeaseUnlessSwept`, `OneExecution`, `ReportsAreCounted`, `EverySettles` |
| `readers` | 2 tasks, 1 worker, batches of 2, one task does not decode, one connection error, pages of 1, pushes that fail half way | `WaitTypeOK`, `AnsweredOnce`, `FinalAnswers`, `EveryAnswered`; `AcceptedTasksDecode`, `NoneSkipped` |
| `pubsub` | 2 streams, 3 queues, one with a ':' in its name, 2 messages in flight | `NoLostWakeup`, `Notified` |
| `vacuum_retry` | retry limit 25 | finding: a retry loses its payload to a vacuum |
| `idempotency_forever` | no TTL | finding: the key is deleted instead of kept |
| `orphan_early` | 3 missed heartbeats | finding: a registering process orphans its name too early |
| `stranded` | slow registration | finding: tasks stay with a live name that does not know of them |
| `wait_retry` | 1 task | finding: a task that runs its retry is answered with the old error |
| `wait_error` | 1 task, 1 connection error | finding: a waiting stream goes on after an error |

Why the bounds are enough. Two workers and two tasks give every pair of an
owner and a rival, of a task that is touched and one that must not be. An
unpack limit of one with two tasks makes every script that unpacks ids fail in
the middle (`queue_batches`, and `fleet` for what it does to the processes); in
the other runs of the queue the limit is 2 and no script stops for it. Two
clock readings give every comparison of a score with a reading (`<`, `=`, `>`).
Attempts 1 and 2 with `RetryLimit = 2` lie on both sides of the code's 25, and
a task pushed with 2 begins beyond it; attempt 0 alone is enough for the
readers, where only the order of reads and scripts matters (it makes the
attempt clause of `FinalAnswers` constant there; the theorem covers every
attempt). In the fleet, one interval is a second and two may be missed; the
clock runs long enough for a crash or a stall, the expiry of the name, a
restart and a retry. In `readers` a behaviour has either the stream or the
listing, which share no variable. Deadlock is not checked in the fleet, whose
clock stops at `MaxTime`. Symmetry is used for tasks and workers in runs
without liveness and listings: no definition tells them apart, the order of ids
is left open, and `CHOOSE` picks unique elements.

`LeaseIsHeld` and `NoTwoExecutors` need `MissedHeartbeats >= 2`: with 1, the sweep's `<=` takes a
worker whose heartbeat is just due.  Under `stall` it fails by design (leases
expire); `LeaseUnlessSwept` says what remains, that they go only together with
the registration, so that the next call stops the process.  `NoStranded` fails
with `pause` (run `stranded`), and `EverySettles` is checked without it: it is
the case in which a task is held for ever by a name that does not know of it.
`EveryAnswered` exempts a task that is vacuumed before it is answered, and one
whose stream also waits for an output that does not decode; `NoneSkipped` a listing
with a vacuum in it.  These exemptions are the code's behaviour, see below.

Fairness (`fleet_live`).  The clock goes on; the runtime polls the futures of a
process, so the calls of a heartbeat, fetches, executions and event batches go on; one
process at least is started when none runs, and the others may stay dead, so
that recovery depends on the sweeps of heartbeats.  Strong fairness for the
second half of `register`: a process is not killed at its start for ever.
Because the clock is bounded, `Tick` after `LastFault` waits for a process to
run and for its events to be handled (`Quiet`); nothing is submitted after that
time.  Fairness (`readers`): whoever reads the stream goes on asking for its next item
(`WF(Poll)`), and the connection fails at most `MaxFailures` times; no script is
fair, a task may stay unsettled.  Fairness (`pubsub`): the connection's reader goes on, a woken task is
polled, a poll ends; no fairness for polls that no wake asked for.

## Proofs

All for every finite set of tasks, every set of workers and keys, every clock
and every limit, from the assumptions of the modules: `ConstantsAssumption` and
`InflightKeysAreNoNames` (a key of the inflight namespace is not a worker's
name), `FleetAssumption` (the clock's readings are times, an attempt below the
limit has a successor, a call reports up to as many results as there are tasks),
`WaitAssumption`, `ListingAssumption`, `PubsubAssumption`.

* `TypeCorrect`, `NoTaskTwice`, `NoTaskLost`, `HoldersAreRegistered`
  (`RedisQueueProofs`).  The inductive invariant `Safe` is the conjunction of
  the four properties: `OnePlace` is needed to see that a move out of a key
  leaves no copy and that lists without duplicates stay so, `NeverLost` to see
  that a pushed id is nowhere yet (it is not issued), `Recoverable` that a worker
  that is taken out of the set holds nothing.  There is one lemma per script.
* `Refinement` (`RedisQueueRefinement`): with `Safe`, every script is a step of
  `TaskQueue` or a stutter under the mapping `phaseOf`, `holderOf`.  A sweep, a
  release, and a result batch that stops half way are single abstract steps.
* `MetadataAreTrue`, `StatusIsRight` (`QueueStatusProofs`).
  For the metadata of one task there are only six things a script can do:
  leave it alone, store it, store its payload only, lease it, report on it,
  forget it (`MetaStep`).  `NextMeta` shows this of every script, and each of the
  six keeps `StatusInv`: `Safe`, and metadata that are complete while the payload
  of an accepted task is there and agree with the keys.  `ReadyIsSignalled` assumes
  that `unpack` has room for every task and that no push raises an error, because a
  sweep or a call of pushes that fails half way has filled the ready list and not
  signalled.
* `OutcomesAreFinal` (`QueueStatusProofs`): of the six things two need a task that
  is not settled, two a task that is new.  `PayloadsAreKept` assumes that only
  settled tasks are forgotten (`OnlySettledAreForgotten`), which `vacuum.lua` does
  not keep to (`vacuum_retry`): the theorem says that nothing else takes a payload
  away.  `KeysAreUnique` assumes a TTL, and that no claim runs out
  (`NothingExpires`): the key of a stored task is claimed by that task and by no
  other (`KeysAreTaken`).
* `FleetTypes`, `FleetUsesQueue`, `LeasesGoWithName`, `NoSecondExecution`
  (`FleetProofs`), for any faults.  `FleetInv` joins `StatusInv`, the types of the
  processes' memory, and `ProcessInv` for each: its tasks are accepted, leased
  while it is registered, in one stage of their execution, with one result at
  most.  The parts need each other.  That a call is one `RedisQueue` allows needs
  attempt numbers within `Attempts` (`AttemptsInv`: an open task has the attempts it
  was pushed with, or fewer than `RetryLimit`, and `fetched` has nothing else) and
  reports no longer than the number of tasks (one result per task); one
  result per task needs that a fetch returns nothing the process works on, which
  needs the leases.  `FleetUsesQueue` carries every theorem on the scripts over
  to fleets.
* `LeasesAreKept` (`FleetProofs`) assumes `HeartbeatsOnTime` (no stall, more than
  one heartbeat may be missed): then a live process is registered and its
  heartbeat is at most one interval old, so no sweep takes its name.
  `ExecutorsAreAlone` (`FleetOutcomeProofs`) follows: what live processes work on
  is leased to them, and `OnePlace` keeps leases apart.
* `NobodyIsStranded` (`FleetOutcomeProofs`) assumes `NoPause` (time does not pass
  between the calls of `register`), which is needed, as `stranded` shows; replies of
  fetches may be lost, because a process stops at that.  The invariant `Known` says of a live
  process that it knows of all its leases, and of one between the calls of
  `register` that its name, if still there, was seen within the last interval:
  the sweep that came first took it otherwise.  So when the registration is
  accepted the name was gone, and by `Recoverable` nothing was leased to it.
  `OwnMemory` and `OthersGainNothing` say that processes do not reach into each
  other: no call gives another process a lease or renews its place.
* `AttemptsAreCounted`, `DeadAtTheLastAttempt` (`FleetOutcomeProofs`), for any
  faults.  The attempt number in a report was read when the task was fetched.
  `ReportsInv`: for every task that the process still holds, the number it fetched
  is the one in the metadata, and the number in its report the next one.  It is
  inductive because only the holder's report changes a held task's attempts
  (`HeldAttemptsAreKept`) and a process gets back no task that it works on or has yet
  to report (`WorkStaysHeld`); of a task it does not hold the report is refused.
  Neither is about a fleet with vacuums, which delete the number.  With `AttemptsInv`
  of `FleetInv`, a task whose last report asks for a retry dies only at its last
  attempt; one that is reported as `Killed` dies at any.
* `WedgedForEver` (`FleetOutcomeProofs`): the clock and the scheduled set make due
  tasks more and never fewer, as long as no fetch completes, and none does.
* `FleetIsTaskQueue` (`FleetOutcomeProofs`) composes `FleetUsesQueue` and
  `Refinement`: a fleet with all its faults is the abstract queue.
* `WaitTypes`, `NoSecondAnswer`, `FinalAnswersAreRight` (`ReadersProofs`).
  `WaitInv` adds to `StatusInv` what a half-read task is known to be: with status
  `Done` or `Killed` read, it is settled, and `SettledStays` (a lemma from
  `MetaStep`: only a vacuum touches a settled task) keeps it so until the other
  reads.  `ReportsDecode` is `StatusInv` again, for the specification with a
  listing and pushes that fail half way.
* `PubsubTypes`, `WakeupsAreKept` (`PubsubProofs`).  `NoLostWakeup` is not
  inductive; `Reachable` adds that a task between registering its waker and
  parking can be woken already.

* `ListingIsComplete` (`ReadersProofs`): what is not listed yet comes at the next
  page or after it (`ListingInv`).  A push moves a task back, never forward, since
  ranks only grow with the ids; and an empty page has nothing after it, since
  ranks have no gap (`RanksHaveNoGap`: they are a bijection onto 1 to the number
  of ids, being as many and all different).

Only model-checked: the liveness properties `EverySettles`, `EveryAnswered` and
`Notified`, which are out of the prover's reach, and that the invariants
`LeaseIsHeld` and `NoStranded` fail without their hypotheses.

## Findings

1. `lua/vacuum.lua:4` treats `Failed` as terminal while `lua/handle_results.lua:38`
   retries it: the retry has no payload, and the fetch of its whole batch fails
   (`vacuum_retry`).
2. `idempotency_ttl: None` deletes the key at once instead of keeping it for ever
   (`idempotency_forever`).
3. `src/queries/reenqueue.rs:23` uses `heartbeat_interval` where
   `orphaned_duration` is documented (`orphan_early`).
4. `register` can leave a dead process's tasks with the new, live holder of its
   name (`stranded`).
5. `check_status` answers for any task with a result, whatever its status
   (`src/queries/wait_for.rs:98`, comment at line 86): a task that failed and
   is waiting for or running its retry is answered with the old error and then
   forgotten (`wait_retry`).
6. After an error the stream of `wait_for` goes on with the same ids, where
   `src/queries/wait_for.rs:59` says that it terminates (`wait_error`).

Seen while modelling, in the actions but without a run of their own:

* Notifications of queues with ':' in their name, as in the default names
  (`factory.rs:80` takes the type's), are dropped: `parse_channel_info`
  (`factory.rs:41`) takes the second ':'-separated part of the channel for the name.
  `Notified` holds of the other names only.
* A push that is refused because its id is there already leaves its idempotency key
  claimed (`lua/batch_push.lua:34` and `45`), and later pushes with the key are
  refused, though nothing was submitted with it.  An `EXPIRE` that raises an error at
  line 39 leaves the same, for ever.
* One output that does not decode fails every round of a waiting stream: the
  results of other tasks are dropped with it, and the next round begins without
  the pause.
* A push with more metadata than `unpack` returns (some thousand fields) stores its
  payload and fails.  The id can neither be pushed again nor vacuumed, and every
  page of `list_all_tasks` with it fails to decode.
* A task that is vacuumed before the stream polls it has no status any more; its
  id stays pending and the stream never ends.
* With `task-tracking` and `emit_events`, every heartbeat of a process with a
  running task is refused (`renew_leases.lua:47` concatenates a key that
  `task_lease.rs` does not pass), which stops the process.
* A vacuum between two pages of `list_all_tasks` makes the caller skip a task.
* More due tasks than `unpack` returns wedge a queue: every fetch fails at
  `fetch_next.lua:35` before it changes anything, and stops its worker
  (`WedgedForEver`).
* `src/config.rs` gives 2 as the default of `missed_heartbeats`; `Default` has 10.
* A push never publishes `available`: its `run_at` is never in the past
  (`push_tasks.rs:46`), so tasks always pass through the scheduled set.

## Not modelled, and the plan

Not modelled:

* Reports that cannot show what they are for, as they are wired: `list_tasks`
  reads the key of the bare queue name, which nothing writes, and is always
  empty; `Metrics::global` reads a list of queues that nothing writes and passes
  it as keys where `overview.lua` wants arguments; `fetch_by_queue` passes no
  clock; `list_queues` passes names where `overview_by_queue.lua` wants the four
  keys of one queue; `list_workers` reads metadata under another key than
  `register_worker.lua` writes.  A model would restate these mismatches and
  nothing else.
* Worker and queue metadata (read by those reports only), user metadata of a
  task, `locked_by` and `locked_at`, codecs, builders and defaults of the
  configuration, the error type, examples and deployment.
* Two live processes with one name: the open specification `RedisQueue` and its
  theorems include them, the fleet does not.
* Loss of the factory's connection; a second storage for one queue is modelled,
  that the first is never woken again is left without a property.

Next, in this order:

1. Two live processes with one name in `WorkerFleet`: memory per process instead of
   per name, and `register` from a second one.  `LeaseIsHeld` and `OneExecution` then
   need a process that took the name over to be told from the one that lost it.
2. Theorems for such fleets: `FleetInv` with the processes of a name taken together.
3. Vacuums in `WorkerFleet`, with fetches that meet a task without its payload: what
   is left of `EverySettles` and `ReportsAreCounted` for tasks that none of them took.
4. What a publication promises: a message for each settled task (`emit_events`),
   and the composition of `RedisQueue` with `Pubsub`.
