------------------------- MODULE QueueStatusProofs -------------------------
(***************************************************************************)
(* Proofs about what the rest of the program reads of a task: the status,  *)
(* result and attempts in its metadata, the idempotency keys, and the      *)
(* signal list.                                                            *)
(*                                                                         *)
(* StatusMatchesPlace speaks of tasks with a payload only.  MetaInv says   *)
(* more, of every task: a final status comes with its result and with the  *)
(* task's place, so no script that writes a status (they write only those  *)
(* of tasks in an inflight set, or new ones) can write over a final one.   *)
(*                                                                         *)
(* MetaStep lists the six things a script can do to the metadata of one    *)
(* task.  The scripts are looked at once, to show that each of their steps *)
(* is one of these; what follows about metadata follows from the list.     *)
(***************************************************************************)
EXTENDS RedisQueueProofs

\* What the metadata of t say is so.
Truthful(t) ==
  /\ meta[t].status = "Done" => t \in done /\ meta[t].result = "Ok"
  /\ meta[t].status = "Killed" => t \in dead /\ meta[t].result = "Err"
  /\ meta[t].result = "Ok" => meta[t].status = "Done"
  /\ t \in done => meta[t].result \in {"Ok", None}
  /\ t \in dead => meta[t].result \in {"Err", None}

\* An accepted task with a payload has the metadata that a push stores and a
\* result updates.
Complete(t) ==
  /\ meta[t].status # None /\ meta[t].attempts # None /\ meta[t].maxAttempts
  /\ t \in done => meta[t].status = "Done"
  /\ t \in dead => meta[t].status \in AckStatuses \ {"Done"}

\* The payload that a failed push stored has none.
MetaOK(t) ==
  /\ Truthful(t)
  /\ t \in data /\ t \in issued => Complete(t)
  /\ t \notin issued => meta[t] = NoMeta

MetaInv == \A t \in Tasks : MetaOK(t)

StatusInv == Safe /\ MetaInv

-----------------------------------------------------------------------------
(* What a script can do to the metadata of one task.                       *)

SamePayload(t) == (t \in data' <=> t \in data) /\ (t \in issued' <=> t \in issued)
SamePlace(t) == (t \in done' <=> t \in done) /\ (t \in dead' <=> t \in dead)

Untouched(t) == meta'[t] = meta[t] /\ SamePayload(t) /\ SamePlace(t)

Stored(t) ==
  /\ t \notin issued /\ t \in issued'
  /\ \E key \in Keys \cup {None}, attempts \in FirstAttempts :
       meta'[t] = [meta[t] EXCEPT !.status = "Pending", !.attempts = attempts,
                                  !.maxAttempts = TRUE, !.key = key]
  /\ SamePlace(t)

HalfStored(t) ==
  /\ t \notin data /\ t \in data' /\ t \notin issued /\ t \notin issued'
  /\ meta'[t] = meta[t] /\ SamePlace(t)

Leased(t) ==
  /\ ~Settled(t) /\ t \in issued
  /\ \E st \in {"Pending", "Running"} : meta'[t] = [meta[t] EXCEPT !.status = st]
  /\ SamePayload(t) /\ SamePlace(t)

Reported(t, ack, now) ==
  /\ ~Settled(t) /\ t \in issued
  /\ meta'[t] = [meta[t] EXCEPT !.status = ack.status, !.attempts = ack.attempt,
                                !.result = IF ack.status = "Done" THEN "Ok" ELSE "Err",
                                !.doneAt = now]
  /\ t \in done' <=> ack.status = "Done"
  /\ t \in dead' <=> ack.status # "Done" /\ ~Retryable(ack)
  /\ SamePayload(t)

Forgotten(t) == meta'[t] = NoMeta /\ t \notin data' /\ SamePlace(t)

\* A results may be reported; none, if the script does not handle results.
MetaStep(t, A) ==
  \/ Untouched(t)
  \/ Stored(t)
  \/ HalfStored(t)
  \/ Leased(t)
  \/ \E ack \in A, now \in Times : ack.task = t /\ Reported(t, ack, now)
  \/ Forgotten(t)

MetaSteps(A) == issued \subseteq issued' /\ \A t \in Tasks : MetaStep(t, A)

-----------------------------------------------------------------------------
(***************************************************************************)
(* The scripts that write no metadata.                                     *)
(***************************************************************************)
LEMMA QuietSteps ==
  ASSUME UNCHANGED <<data, meta, done, dead, issued>>
  PROVE  MetaSteps({})
  BY DEF MetaSteps, MetaStep, Untouched, SamePayload, SamePlace

LEMMA PushMeta ==
  ASSUME Safe, Push
  PROVE  MetaSteps({})
<1>1. PICK t \in Tasks, runAt \in Times, now \in Times :
        (t \in issued => t \in data) /\ BatchPush(t, runAt, now)
  BY DEF Push
<1>2. UNCHANGED <<done, dead>> /\ meta \in [Tasks -> MetaFields]
  BY <1>1, PushCases DEF Safe, TypeOK
<1>3. CASE UNCHANGED <<data, meta, issued>>
  BY <1>2, <1>3, QuietSteps
<1>4. CASE UNCHANGED <<meta, issued>> /\ t \notin data /\ data' = data \cup {t}
  <2>1. HalfStored(t)
    BY <1>1, <1>2, <1>4 DEF HalfStored, SamePlace
  <2>2. \A u \in Tasks : u # t => Untouched(u)
    BY <1>2, <1>4 DEF Untouched, SamePayload, SamePlace
  <2> QED
    BY <1>4, <2>1, <2>2 DEF MetaSteps, MetaStep
<1>5. ASSUME t \notin data, NEW key \in Keys \cup {None}, NEW attempts \in FirstAttempts,
             Enqueue(t, key, attempts, ScheduleTime(runAt, now))
      PROVE  MetaSteps({})
  <2>1. /\ data' = data \cup {t}
        /\ meta' = [meta EXCEPT ![t] = [@ EXCEPT !.status = "Pending",
                                !.attempts = attempts, !.maxAttempts = TRUE, !.key = key]]
        /\ issued' = issued \cup {t}
    BY <1>5 DEF Enqueue
  <2>2. Stored(t)
    BY <1>1, <1>2, <1>5, <2>1 DEF Stored, SamePlace
  <2>3. \A u \in Tasks : u # t => Untouched(u)
    BY <1>2, <2>1 DEF Untouched, SamePayload, SamePlace
  <2> QED
    BY <2>1, <2>2, <2>3 DEF MetaSteps, MetaStep
<1> QED
  BY <1>1, <1>3, <1>4, <1>5, PushCases

LEMMA LeaseMeta ==
  ASSUME Safe, NEW w \in Workers, NEW S \in SUBSET inflight[w],
         NEW st \in {"Pending", "Running"},
         meta' = [t \in Tasks |-> IF t \in S THEN [meta[t] EXCEPT !.status = st]
                                  ELSE meta[t]],
         UNCHANGED <<data, done, dead, issued>>
  PROVE  MetaSteps({})
<1>1. \A t \in S : ~Settled(t) /\ t \in issued
  BY DEF Safe, TypeOK, OnePlace, NeverLost, Held
<1>2. \A t \in Tasks : t \in S => Leased(t)
  BY <1>1 DEF Leased, SamePayload, SamePlace
<1>3. \A t \in Tasks : t \notin S => Untouched(t)
  BY DEF Untouched, SamePayload, SamePlace
<1> QED
  BY <1>2, <1>3 DEF MetaSteps, MetaStep

LEMMA AcquireLeasesMeta ==
  ASSUME Safe, NEW w \in Workers, NEW S \in SUBSET Tasks, AcquireLeases(w, S)
  PROVE  MetaSteps({})
<1>1. S \in SUBSET inflight[w] /\ UNCHANGED <<data, done, dead, issued>>
  BY DEF AcquireLeases, AllHeldBy
<1>2. meta' = [t \in Tasks |-> IF t \in S THEN [meta[t] EXCEPT !.status = "Running"]
                               ELSE meta[t]]
  BY DEF AcquireLeases
<1> QED
  BY <1>1, <1>2, LeaseMeta

LEMMA ReleaseLeasesMeta ==
  ASSUME Safe, NEW w \in Workers, NEW S \in SUBSET Tasks, ReleaseLeases(w, S)
  PROVE  MetaSteps({})
<1> DEFINE released == Released(w, S)
<1>1. released \in SUBSET inflight[w] /\ UNCHANGED <<data, done, dead, issued>>
  BY DEF ReleaseLeases, Released
<1>2. meta' = [t \in Tasks |->
                 IF t \in released THEN [meta[t] EXCEPT !.status = "Pending"]
                 ELSE meta[t]]
  BY DEF ReleaseLeases
<1> HIDE DEF released
<1> QED
  BY <1>1, <1>2, LeaseMeta

(***************************************************************************)
(* The results that a report gets through each settle or put off a task    *)
(* that was not settled.                                                   *)
(***************************************************************************)
LEMMA SettleMeta ==
  ASSUME Safe, NEW w \in Workers, NEW now \in Times, NEW B \in SUBSET Acks,
         \A a \in B : a.task \in inflight[w],
         \A a, b \in B : a.task = b.task => a = b,
         Settle(w, B, now), NEW t \in Tasks
  PROVE  /\ (\A ack \in B : ack.task # t) => Untouched(t)
         /\ \A ack \in B : ack.task = t => Reported(t, ack, now)
<1> DEFINE AckOf(u) == CHOOSE ack \in B : ack.task = u
           TasksOf(A) == {ack.task : ack \in A}
           succeeded == {ack \in B : ack.status = "Done"}
           retried == {ack \in B : Retryable(ack)}
           givenUp == (B \ succeeded) \ retried
<1>1. /\ done' = done \cup TasksOf(succeeded)
      /\ dead' = dead \cup TasksOf(givenUp)
      /\ UNCHANGED <<data, issued>>
  BY DEF Settle
<1>2. meta' = [u \in Tasks |->
                 IF u \in TasksOf(B)
                 THEN [meta[u] EXCEPT !.status = AckOf(u).status,
                                      !.attempts = AckOf(u).attempt,
                                      !.result = IF AckOf(u) \in succeeded
                                                 THEN "Ok" ELSE "Err",
                                      !.doneAt = now]
                 ELSE meta[u]]
  BY DEF Settle
<1>3. CASE t \notin TasksOf(B)
  BY <1>1, <1>2, <1>3 DEF Untouched, SamePayload, SamePlace
<1>4. ASSUME NEW ack \in B, ack.task = t PROVE Reported(t, ack, now)
  <2>1. ack.task = t /\ t \in TasksOf(B)
    BY <1>4
  <2>2. AckOf(t) = ack
    BY <2>1
  <2>3. ~Settled(t) /\ t \in issued
    BY <2>1 DEF Safe, OnePlace, NeverLost, Held
  <2>4. t \in TasksOf(succeeded) <=> ack.status = "Done"
    BY <2>1
  <2>5. t \in TasksOf(givenUp) <=> ack.status # "Done" /\ ~Retryable(ack)
    BY <2>1
  <2>6. ack \in succeeded <=> ack.status = "Done"
    OBVIOUS
  <2>7. meta'[t] = [meta[t] EXCEPT !.status = AckOf(t).status,
                                   !.attempts = AckOf(t).attempt,
                                   !.result = IF AckOf(t) \in succeeded
                                              THEN "Ok" ELSE "Err",
                                   !.doneAt = now]
    BY <1>2, <2>1
  <2> HIDE DEF AckOf, TasksOf, succeeded, givenUp
  <2>8. meta'[t] = [meta[t] EXCEPT !.status = ack.status, !.attempts = ack.attempt,
                                   !.result = IF ack.status = "Done" THEN "Ok" ELSE "Err",
                                   !.doneAt = now]
    BY <2>2, <2>6, <2>7
  <2>9. /\ t \in done' <=> ack.status = "Done"
        /\ t \in dead' <=> ack.status # "Done" /\ ~Retryable(ack)
        /\ SamePayload(t)
    BY <1>1, <2>3, <2>4, <2>5 DEF Settled, SamePayload
  <2> QED
    BY <2>1, <2>3, <2>8, <2>9 DEF Reported
<1> QED
  BY <1>3, <1>4

LEMMA HandleResultsMeta ==
  ASSUME Safe, NEW w \in Workers, NEW acks \in AckBatches, NEW now \in Times,
         HandleResults(w, acks, now)
  PROVE  MetaSteps(Range(acks))
<1>1. PICK n \in 1..Len(acks) : /\ Removable(w, acks, n)
                                /\ Settle(w, Range(SubSeq(acks, 1, n)), now)
  BY DEF HandleResults
<1> DEFINE B == Range(SubSeq(acks, 1, n))
<1>2. /\ B \subseteq Range(acks) /\ B \subseteq Acks
      /\ \A a \in B : a.task \in inflight[w]
      /\ \A a, b \in B : a.task = b.task => a = b
  BY <1>1, AppliedResults DEF Safe
<1>3. Settle(w, B, now)
  BY <1>1
<1> HIDE DEF B
<1>4. \A t \in Tasks :
        Untouched(t) \/ \E ack \in B : ack.task = t /\ Reported(t, ack, now)
  <2> TAKE t \in Tasks
  <2>1. CASE \A ack \in B : ack.task # t
    BY <1>2, <1>3, <2>1, SettleMeta
  <2>2. CASE \E ack \in B : ack.task = t
    BY <1>2, <1>3, <2>2, SettleMeta
  <2> QED
    BY <2>1, <2>2
<1>5. issued' = issued
  BY <1>3 DEF Settle
<1>6. ASSUME NEW t \in Tasks PROVE MetaStep(t, Range(acks))
  <2>1. CASE Untouched(t)
    BY <2>1 DEF MetaStep
  <2>2. ASSUME NEW ack \in B, ack.task = t, Reported(t, ack, now)
        PROVE  MetaStep(t, Range(acks))
    <3>1. ack \in Range(acks)
      BY <1>2
    <3> QED
      BY <2>2, <3>1 DEF MetaStep
  <2> QED
    BY <1>4, <2>1, <2>2
<1> QED
  BY <1>5, <1>6 DEF MetaSteps

LEMMA ForgetMeta ==
  ASSUME NEW S \in SUBSET data, Forget(S)
  PROVE  MetaSteps({})
  BY DEF Forget, MetaSteps, MetaStep, Untouched, Forgotten, SamePayload, SamePlace

(***************************************************************************)
(* Every step of the queue does one of the six things to each task.        *)
(***************************************************************************)
LEMMA MoreReports ==
  ASSUME NEW A \in SUBSET Acks, MetaSteps(A)
  PROVE  MetaSteps(Acks)
  BY DEF MetaSteps, MetaStep

LEMMA NextMeta == Safe /\ [Next]_vars => MetaSteps(Acks)
<1> SUFFICES ASSUME Safe, [Next]_vars PROVE \E A \in SUBSET Acks : MetaSteps(A)
  BY MoreReports
<1>1. CASE Push
  BY <1>1, PushMeta
<1>2. ASSUME NEW k \in Keys, IdempotencyExpire(k) PROVE MetaSteps({})
  BY <1>2, QuietSteps DEF IdempotencyExpire
<1>3. ASSUME NEW w \in Workers, NEW now \in Times,
             RegisterWorker(w, now) \/ KeepAlive(w, now) \/ FetchNext(w, now)
      PROVE  MetaSteps({})
  BY <1>3, QuietSteps DEF RegisterWorker, KeepAlive, FetchNext
<1>4. ASSUME NEW w \in Workers, CloseWorker(w) PROVE MetaSteps({})
  BY <1>4, QuietSteps DEF CloseWorker
<1>5. ASSUME NEW only \in Workers \cup {None}, NEW cutoff \in Times,
             ReenqueueOrphaned(only, cutoff)
      PROVE  MetaSteps({})
  BY <1>5, QuietSteps DEF ReenqueueOrphaned
<1>6. ASSUME NEW w \in Workers, NEW S \in SUBSET Tasks,
             AcquireLeases(w, S) \/ ReleaseLeases(w, S)
      PROVE  MetaSteps({})
  BY <1>6, AcquireLeasesMeta, ReleaseLeasesMeta
<1>7. ASSUME NEW w \in Workers, NEW acks \in AckBatches, NEW now \in Times,
             HandleResults(w, acks, now)
      PROVE  Range(acks) \in SUBSET Acks /\ MetaSteps(Range(acks))
  <2>1. acks \in Seq(Acks)
    BY ConstantsAssumption, SeqDef DEF AckBatches, BoundedSeq, SeqOf
  <2> QED
    BY <1>7, <2>1, RangeOfSeq, HandleResultsMeta
<1>8. ASSUME NEW S \in SUBSET data, Forget(S) PROVE MetaSteps({})
  BY <1>8, ForgetMeta
<1>9. CASE Vacuum
  <2>1. Forget(Vacuumed) /\ Vacuumed \in SUBSET data
    BY <1>9 DEF Vacuum, Vacuumed
  <2> QED
    BY <1>8, <2>1
<1>10. ASSUME NEW cutoff \in Times, VacuumBefore(cutoff) PROVE MetaSteps({})
  BY <1>8, <1>10 DEF VacuumBefore, VacuumedBefore, Vacuumed
<1>11. CASE UNCHANGED vars
  BY <1>11, QuietSteps DEF vars
<1> QED
  BY <1>1, <1>2, <1>3, <1>4, <1>5, <1>6, <1>7, <1>9, <1>10, <1>11 DEF Next

-----------------------------------------------------------------------------
(***************************************************************************)
(* What a step does to one task keeps its metadata true and complete.      *)
(***************************************************************************)
LEMMA StepKeepsMeta ==
  ASSUME Safe, MetaInv, issued \subseteq issued', NEW t \in Tasks, MetaStep(t, Acks)
  PROVE  MetaOK(t)'
<1>1. meta[t] \in MetaFields /\ MetaOK(t)
  BY DEF Safe, TypeOK, MetaInv
<1>2. ~Settled(t) => meta[t].result # "Ok" /\ meta[t].status \notin {"Done", "Killed"}
  BY <1>1 DEF MetaOK, Truthful, Settled
<1>3. CASE Untouched(t)
  BY <1>1, <1>3 DEF Untouched, SamePayload, SamePlace, MetaOK, Truthful, Complete
<1>4. CASE Stored(t)
  <2>1. ~Settled(t)
    BY <1>4 DEF Stored, Safe, NeverLost
  <2>2. PICK key \in Keys \cup {None}, attempts \in FirstAttempts :
          meta'[t] = [meta[t] EXCEPT !.status = "Pending", !.attempts = attempts,
                                     !.maxAttempts = TRUE, !.key = key]
    BY <1>4 DEF Stored
  <2>3. /\ meta'[t].status = "Pending" /\ meta'[t].attempts = attempts
        /\ meta'[t].maxAttempts /\ meta'[t].result = meta[t].result
    BY <1>1, <2>2 DEF MetaFields
  <2>4. "Pending" # None /\ attempts # None
    BY ConstantsAssumption DEF Statuses
  <2>5. t \notin done' /\ t \notin dead' /\ t \in issued'
    BY <1>4, <2>1 DEF Stored, SamePlace, Settled
  <2> QED
    BY <1>2, <2>1, <2>3, <2>4, <2>5 DEF MetaOK, Truthful, Complete
<1>5. CASE HalfStored(t)
  BY <1>1, <1>5 DEF HalfStored, SamePlace, MetaOK, Truthful
<1>6. CASE Leased(t)
  <2>1. PICK st \in {"Pending", "Running"} : meta'[t] = [meta[t] EXCEPT !.status = st]
    BY <1>6 DEF Leased
  <2>2. /\ meta'[t].status = st
        /\ meta'[t].result = meta[t].result
        /\ meta'[t].attempts = meta[t].attempts
        /\ meta'[t].maxAttempts = meta[t].maxAttempts
    BY <1>1, <2>1 DEF MetaFields
  <2>3. st # None /\ st \notin {"Done", "Killed"}
    BY ConstantsAssumption DEF Statuses
  <2>4. ~Settled(t) /\ t \in issued /\ SamePayload(t) /\ SamePlace(t)
    BY <1>6 DEF Leased
  <2> QED
    BY <1>1, <1>2, <2>2, <2>3, <2>4 DEF SamePayload, SamePlace, Settled, MetaOK, Truthful,
       Complete
<1>7. ASSUME NEW ack \in Acks, NEW now \in Times, Reported(t, ack, now)
      PROVE  MetaOK(t)'
  <2> DEFINE res == IF ack.status = "Done" THEN "Ok" ELSE "Err"
  <2>1. /\ meta'[t].status = ack.status
        /\ meta'[t].result = res
        /\ meta'[t].attempts = ack.attempt
        /\ meta'[t].maxAttempts = meta[t].maxAttempts
    BY <1>1, <1>7 DEF Reported, MetaFields
  <2>2. ack.status \in AckStatuses /\ ack.status # None /\ ack.attempt # None
    <3>1. ack.status \in AckStatuses /\ ack.attempt \in Attempts
      BY DEF Acks
    <3>2. ack.attempt \in Nat
      BY <3>1, ConstantsAssumption
    <3>3. ack.status # None
      BY <3>1, ConstantsAssumption
    <3> QED
      BY <3>1, <3>2, <3>3, NoneIsNew
  <2>3. ack.status = "Killed" => ~Retryable(ack)
    BY DEF Retryable
  <2>4. /\ t \in done' <=> ack.status = "Done"
        /\ t \in dead' <=> ack.status # "Done" /\ ~Retryable(ack)
        /\ t \in issued /\ SamePayload(t)
    BY <1>7 DEF Reported
  <2>5. Truthful(t)'
    BY <2>1, <2>3, <2>4 DEF Truthful
  <2>6. t \in data' => Complete(t)'
    BY <1>1, <2>1, <2>2, <2>4 DEF SamePayload, MetaOK, Complete
  <2> QED
    BY <2>4, <2>5, <2>6 DEF MetaOK, SamePayload
<1>8. CASE Forgotten(t)
  <2>1. meta'[t].status = None /\ meta'[t].result = None
    BY <1>8 DEF Forgotten, NoMeta
  <2>2. None \notin {"Done", "Killed", "Ok"}
    BY ConstantsAssumption DEF Statuses
  <2> QED
    BY <1>8, <2>1, <2>2 DEF Forgotten, Truthful, MetaOK
<1> QED
  BY <1>3, <1>4, <1>5, <1>6, <1>7, <1>8 DEF MetaStep

LEMMA InitStatus == Init => StatusInv
<1> SUFFICES ASSUME Init PROVE StatusInv
  OBVIOUS
<1>1. \A t \in Tasks : Truthful(t) /\ t \notin data /\ meta[t] = NoMeta
  BY ConstantsAssumption DEF Init, Truthful, NoMeta, Statuses
<1> QED
  BY <1>1, InitSafe DEF StatusInv, MetaInv, MetaOK

LEMMA NextStatus == StatusInv /\ [Next]_vars => StatusInv'
<1> SUFFICES ASSUME StatusInv, [Next]_vars PROVE StatusInv'
  OBVIOUS
<1>1. Safe' /\ MetaSteps(Acks)
  BY NextSafe, NextMeta DEF StatusInv
<1>2. MetaInv'
  BY <1>1, StepKeepsMeta DEF StatusInv, MetaSteps, MetaInv
<1> QED
  BY <1>1, <1>2 DEF StatusInv

(***************************************************************************)
(* Every reachable state of a queue has true metadata, complete for every  *)
(* task that a push accepted, also where pushes fail half way.             *)
(***************************************************************************)
THEOREM MetadataAreTrue == Spec => []StatusInv
  BY InitStatus, NextStatus, PTL DEF Spec

(***************************************************************************)
(* The status of a task with a payload agrees with its place.              *)
(***************************************************************************)
THEOREM StatusIsRight == Spec => []StatusMatchesPlace
<1>1. StatusInv => StatusMatchesPlace
  BY DEF StatusInv, Safe, TypeOK, NeverLost, MetaInv, MetaOK, Truthful, Complete,
    StatusMatchesPlace, Settled
<1> QED
  BY <1>1, MetadataAreTrue, PTL

(***************************************************************************)
(* What is recorded of a settled task is never rewritten: of the six       *)
(* things that a script can do to metadata, two need a task that is not    *)
(* settled and two need a new task.                                        *)
(***************************************************************************)
THEOREM OutcomesAreFinal == Spec => OutcomeIsFinal
<1> DEFINE Final == \A t \in Tasks :
             /\ t \in done => t \in done'
             /\ t \in dead => t \in dead'
             /\ Settled(t) => meta'[t] \in {meta[t], NoMeta}
<1>1. Safe /\ [Next]_vars => Final
  <2> SUFFICES ASSUME Safe, [Next]_vars, NEW t \in Tasks, Settled(t)
               PROVE  SamePlace(t) /\ meta'[t] \in {meta[t], NoMeta}
    BY DEF Settled, SamePlace
  <2>1. MetaStep(t, Acks)
    BY NextMeta DEF MetaSteps
  <2>2. t \in issued
    BY DEF Safe, NeverLost
  <2> QED
    BY <2>1, <2>2 DEF MetaStep, Untouched, Stored, HalfStored, Leased, Reported, Forgotten
<1> QED
  BY <1>1, Safety, PTL DEF Spec, OutcomeIsFinal

-----------------------------------------------------------------------------
(* Payloads.                                                               *)

\* A vacuum that looks at the place of a task and not at its status.
OnlySettledAreForgotten == \A t \in data \ data' : Settled(t)

LEMMA NewHavePayload ==
  ASSUME StatusInv, [Next]_vars, NEW t \in issued' \ issued
  PROVE  t \in data'
<1>1. CASE Push
  BY <1>1, PushCases DEF Push, Enqueue
<1> QED
  BY <1>1 DEF Next, vars, IdempotencyExpire, RegisterWorker, KeepAlive, CloseWorker,
    ReenqueueOrphaned, FetchNext, AcquireLeases, ReleaseLeases, HandleResults, Settle,
    Vacuum, VacuumBefore, Forget

LEMMA NextPayloads ==
  ASSUME StatusInv, StatusInv', [Next]_vars, [OnlySettledAreForgotten]_vars, QueuedHasData
  PROVE  QueuedHasData'
<1> SUFFICES ASSUME NEW t \in Tasks, Scheduled(t)' \/ Queued(t)' \/ Held(t)'
             PROVE  t \in data'
  BY DEF QueuedHasData
<1>1. t \in issued' /\ ~Settled(t)'
  BY DEF StatusInv, Safe, NeverLost, OnePlace
<1>2. CASE t \notin issued
  BY <1>1, <1>2, NewHavePayload
<1>3. CASE t \in issued
  <2>1. MetaStep(t, Acks)
    BY NextMeta DEF StatusInv, MetaSteps
  <2>2. ~Settled(t)
    BY <1>1, <2>1 DEF MetaStep, Untouched, Stored, HalfStored, Leased, Reported, Forgotten,
       SamePlace, Settled
  <2>3. t \in data
    BY <1>3, <2>2 DEF StatusInv, Safe, NeverLost, QueuedHasData
  <2> QED
    BY <2>2, <2>3 DEF OnlySettledAreForgotten, vars
<1> QED
  BY <1>2, <1>3

(***************************************************************************)
(* The vacuum of tasks that wait for a retry is the only way in which a    *)
(* task that may still run loses its payload: if only settled tasks were   *)
(* forgotten, every id that a fetch returns would have one, whatever ids   *)
(* are pushed twice and whatever scripts fail half way.                    *)
(***************************************************************************)
THEOREM PayloadsAreKept == Spec /\ [][OnlySettledAreForgotten]_vars => []QueuedHasData
<1>1. Init => QueuedHasData
  BY DEF Init, QueuedHasData, Scheduled, Queued, Held, Range
<1>2. /\ StatusInv /\ StatusInv' /\ QueuedHasData
      /\ [Next]_vars /\ [OnlySettledAreForgotten]_vars
      => QueuedHasData'
  BY NextPayloads
<1> QED
  BY <1>1, <1>2, MetadataAreTrue, PTL DEF Spec

-----------------------------------------------------------------------------
(* Idempotency keys.                                                       *)

\* No claim runs out.
NothingExpires == \A k \in Keys : ~IdempotencyExpire(k)

\* A stored task has the key that it was pushed with.
KeysAreTaken ==
  \A t \in data : meta[t].key # None => idempotency[meta[t].key] = t

LEMMA ClaimsLast ==
  ASSUME StatusInv, [Next]_vars, [NothingExpires]_vars,
         NEW k \in Keys, idempotency[k] # None
  PROVE  idempotency'[k] = idempotency[k]
<1>1. CASE UNCHANGED idempotency
  BY <1>1
<1>2. ASSUME NEW l \in Keys, IdempotencyExpire(l) PROVE idempotency'[k] = idempotency[k]
  BY <1>1, <1>2 DEF NothingExpires, vars
<1>3. CASE Push
  BY <1>3 DEF Push, BatchPush, Claims, StatusInv, Safe, TypeOK
<1> QED
  BY <1>1, <1>2, <1>3 DEF Next, vars, RegisterWorker, KeepAlive, CloseWorker,
    ReenqueueOrphaned, FetchNext, AcquireLeases, ReleaseLeases, HandleResults, Settle,
    Vacuum, VacuumBefore, Forget

\* A task is stored with a key only if it claims it.
LEMMA NewKeyIsClaimed ==
  ASSUME StatusInv, [Next]_vars, IdempotencyTtl \in Nat \ {0},
         NEW t \in issued' \ issued, meta'[t].key # None
  PROVE  /\ meta'[t].key \in Keys
         /\ idempotency[meta'[t].key] = None
         /\ idempotency'[meta'[t].key] = t
<1>1. CASE Push
  <2>1. PICK u \in Tasks, runAt \in Times, now \in Times : BatchPush(u, runAt, now)
    BY <1>1 DEF Push
  <2>2. /\ meta \in [Tasks -> MetaFields] /\ meta[u] \in MetaFields
        /\ idempotency \in [Keys -> Tasks \cup {None}]
    BY DEF StatusInv, Safe, TypeOK
  <2>3. ASSUME NEW key \in Keys \cup {None}, NEW attempts \in FirstAttempts, Allowed(key),
               idempotency' = IF Claims(key)
                              THEN [idempotency EXCEPT ![key] = ClaimAfterExpire(u)]
                              ELSE idempotency,
               Enqueue(u, key, attempts, ScheduleTime(runAt, now))
        PROVE  /\ meta'[t].key \in Keys
               /\ idempotency[meta'[t].key] = None
               /\ idempotency'[meta'[t].key] = t
    <3>1. /\ issued' = issued \cup {u}
          /\ meta' = [meta EXCEPT ![u] = [@ EXCEPT !.status = "Pending",
                                  !.attempts = attempts, !.maxAttempts = TRUE, !.key = key]]
      BY <2>3 DEF Enqueue
    <3>2. t = u /\ meta'[t].key = key
      BY <2>2, <3>1 DEF MetaFields
    <3>3. ClaimAfterExpire(u) = u
      BY NoneIsNew DEF ClaimAfterExpire, TtlArgument
    <3> QED
      BY <2>2, <2>3, <3>2, <3>3 DEF Allowed, Claims
  <2> QED
    BY <2>1, <2>3, PushCases
<1> QED
  BY <1>1 DEF Next, vars, IdempotencyExpire, RegisterWorker, KeepAlive, CloseWorker,
    ReenqueueOrphaned, FetchNext, AcquireLeases, ReleaseLeases, HandleResults, Settle,
    Vacuum, VacuumBefore, Forget

LEMMA NextKeys ==
  ASSUME StatusInv, [Next]_vars, [NothingExpires]_vars, KeysAreTaken,
         IdempotencyTtl \in Nat \ {0}
  PROVE  KeysAreTaken'
<1> SUFFICES ASSUME NEW t \in data', meta'[t].key # None
             PROVE  idempotency'[meta'[t].key] = t
  BY DEF KeysAreTaken
<1>1. t \in Tasks /\ Safe'
  BY NextSafe DEF StatusInv, Safe, TypeOK
<1>2. MetaStep(t, Acks) /\ meta[t] \in MetaFields
  BY <1>1, NextMeta DEF StatusInv, MetaSteps, Safe, TypeOK
<1>3. CASE Stored(t)
  BY <1>3, NewKeyIsClaimed DEF Stored
<1>4. CASE ~Stored(t)
  <2>1. t \in data /\ meta'[t].key = meta[t].key
    <3>1. CASE HalfStored(t)
      BY <1>1, <3>1 DEF HalfStored, StatusInv, MetaInv, MetaOK, NoMeta
    <3>2. CASE Untouched(t) \/ Forgotten(t)
      BY <3>2 DEF Untouched, Forgotten, SamePayload
    <3>3. CASE Leased(t)
      BY <1>2, <3>3 DEF Leased, SamePayload, MetaFields
    <3>4. ASSUME NEW ack \in Acks, NEW now \in Times, Reported(t, ack, now)
          PROVE  t \in data /\ meta'[t].key = meta[t].key
      BY <1>2, <3>4 DEF Reported, SamePayload, MetaFields
    <3> QED
      BY <1>2, <1>4, <3>1, <3>2, <3>3, <3>4 DEF MetaStep
  <2>2. meta[t].key \in Keys /\ idempotency[meta[t].key] = t
    BY <1>2, <2>1 DEF KeysAreTaken, MetaFields
  <2>3. t # None
    BY <1>1, NoneIsNew
  <2> QED
    BY <2>1, <2>2, <2>3, ClaimsLast
<1> QED
  BY <1>3, <1>4

(***************************************************************************)
(* With an idempotency_ttl, and as long as no claim runs out, of the tasks *)
(* that are pushed with one key only one is ever stored, whatever else     *)
(* happens to it and whatever pushes claim keys in vain.  The two          *)
(* hypotheses are needed: without a TTL the claim is deleted at once.      *)
(***************************************************************************)
THEOREM KeysAreUnique ==
  ASSUME IdempotencyTtl \in Nat \ {0}
  PROVE  Spec /\ [][NothingExpires]_vars => []UniquePerKey
<1>1. Init => KeysAreTaken
  BY DEF Init, KeysAreTaken
<1>2. StatusInv /\ KeysAreTaken /\ [Next]_vars /\ [NothingExpires]_vars => KeysAreTaken'
  BY NextKeys
<1>3. KeysAreTaken => UniquePerKey
  BY DEF KeysAreTaken, UniquePerKey
<1> QED
  BY <1>1, <1>2, <1>3, MetadataAreTrue, PTL DEF Spec

-----------------------------------------------------------------------------
(***************************************************************************)
(* A script that fills the ready list signals.  The exception is a sweep   *)
(* that fails after it has swept some workers: it ends before its signal.  *)
(* None fails if no worker can hold more ids than unpack returns.          *)
(***************************************************************************)
LEMMA SweepSignals ==
  ASSUME Safe, SignalInv, Cardinality(Tasks) <= UnpackLimit,
         NEW only \in Workers \cup {None}, NEW cutoff \in Times,
         ReenqueueOrphaned(only, cutoff)
  PROVE  SignalInv'
<1> DEFINE orphans == Expired(only, cutoff)
<1>1. PICK swept \in SUBSET orphans :
        LET recovered == UNION {inflight[w] : w \in swept} IN
        /\ swept = orphans \/ SweepStopsAt(orphans, swept)
        /\ \E order \in SetToSeqs(recovered) : active' = active \o order
        /\ signal' = (signal \/ (swept = orphans /\ recovered # {}))
  BY DEF ReenqueueOrphaned
<1> DEFINE recovered == UNION {inflight[w] : w \in swept}
<1>2. orphans \subseteq Workers
  BY DEF Expired
<1>3. swept = orphans
  <2>1. \A w \in Workers : Unpackable(inflight[w])
    <3> SUFFICES ASSUME NEW w \in Workers PROVE Unpackable(inflight[w])
      OBVIOUS
    <3>1. inflight[w] \subseteq Tasks
      BY DEF Safe, TypeOK
    <3>2. /\ Cardinality(inflight[w]) \in Nat /\ Cardinality(Tasks) \in Nat
          /\ Cardinality(inflight[w]) <= Cardinality(Tasks)
      BY <3>1, ConstantsAssumption, FS_Subset, FS_CardinalityType
    <3> QED
      BY <3>2, ConstantsAssumption DEF Unpackable
  <2> QED
    BY <1>1, <1>2, <2>1 DEF SweepStopsAt
<1>4. PICK order \in SetToSeqs(recovered) : active' = active \o order
  BY <1>1
<1>5. recovered \in SUBSET Tasks
  BY <1>2 DEF Safe, TypeOK
<1>6. signal' = (signal \/ recovered # {})
  BY <1>1, <1>3
<1> HIDE DEF recovered
<1>7. order \in Seq(Tasks) /\ (order = <<>> <=> recovered = {})
  BY <1>5, FiniteTaskSets, OrderOfSet, SeqMonotonic
<1>8. CASE recovered # {}
  BY <1>6, <1>8 DEF SignalInv
<1>9. CASE recovered = {}
  <2>1. active' = active
    BY <1>4, <1>7, <1>9, ConcatEmptySeq DEF Safe, TypeOK
  <2> QED
    BY <1>6, <2>1 DEF SignalInv
<1> QED
  BY <1>8, <1>9

LEMMA ReleaseSignals ==
  ASSUME Safe, SignalInv, NEW w \in Workers, NEW S \in SUBSET Tasks, ReleaseLeases(w, S)
  PROVE  SignalInv'
<1> DEFINE released == Released(w, S)
<1>1. /\ \E order \in SetToSeqs(released) : active' = active \o order
      /\ signal' = (signal \/ released # {})
  BY DEF ReleaseLeases
<1>2. released \in SUBSET Tasks
  BY DEF Released, Safe, TypeOK
<1> HIDE DEF released
<1>3. PICK order \in SetToSeqs(released) : active' = active \o order
  BY <1>1
<1>4. order \in Seq(Tasks) /\ (order = <<>> <=> released = {})
  BY <1>2, FiniteTaskSets, OrderOfSet, SeqMonotonic
<1>5. CASE released # {}
  BY <1>1, <1>5 DEF SignalInv
<1>6. CASE released = {}
  <2>1. active' = active
    BY <1>3, <1>4, <1>6, ConcatEmptySeq DEF Safe, TypeOK
  <2> QED
    BY <1>1, <2>1 DEF SignalInv
<1> QED
  BY <1>5, <1>6

(***************************************************************************)
(* A fetch keeps the signal unless it got less than a whole batch, and     *)
(* then it has emptied the list.                                           *)
(***************************************************************************)
LEMMA FetchSignals ==
  ASSUME Safe, SignalInv, NEW w \in Workers, NEW now \in Times, FetchNext(w, now)
  PROVE  SignalInv'
<1>1. PICK promoted \in Promotions(now) :
        LET queue == active \o promoted
            signalled == signal \/ promoted # <<>>
            count == FetchCount(queue)
            completes == count <= UnpackLimit
        IN  /\ active' = IF completes THEN Trimmed(queue, count) ELSE queue
            /\ signal' = (signalled /\ (completes => SignalKept(count)))
  BY DEF FetchNext
<1> DEFINE queue == active \o promoted
           signalled == signal \/ promoted # <<>>
           count == FetchCount(queue)
<1>2. /\ Due(now) \in SUBSET Tasks
      /\ promoted \in Seq(Tasks)
  BY FiniteTaskSets, OrderOfSet, SeqMonotonic DEF Due, Promotions
<1>3. active \in Seq(Tasks) /\ queue \in Seq(Tasks)
  BY <1>2, ConcatProperties DEF Safe, TypeOK
<1>4. queue # <<>> => signalled
  <2>1. CASE active = <<>> /\ promoted = <<>>
    BY <2>1, <1>3, ConcatEmptySeq
  <2> QED
    BY <2>1 DEF SignalInv
<1>5. Len(queue) \in Nat
  BY <1>3, LenProperties
<1> HIDE DEF queue, signalled
<1>6. /\ active' = IF count <= UnpackLimit THEN Trimmed(queue, count) ELSE queue
      /\ signal' = (signalled /\ (count <= UnpackLimit => SignalKept(count)))
  BY <1>1 DEF queue, signalled
<1>7. CASE count <= UnpackLimit /\ Len(queue) < BatchSize
  <2>1. active' = SubSeq(queue, Len(queue) + 1, Len(queue))
    BY <1>6, <1>7 DEF Trimmed, FetchCount
  <2>2. active' = <<>>
    BY <1>3, <1>5, <2>1, SubSeqEmpty
  <2> QED
    BY <2>2 DEF SignalInv
<1>8. CASE count <= UnpackLimit /\ ~(Len(queue) < BatchSize)
  <2>1. count = BatchSize
    BY <1>8 DEF FetchCount
  <2>2. signalled => signal'
    BY <1>6, <2>1 DEF SignalKept
  <2>3. queue = <<>> => FALSE
    BY <1>8, ConstantsAssumption, EmptySeq
  <2> QED
    BY <1>4, <2>2, <2>3 DEF SignalInv
<1>9. CASE ~(count <= UnpackLimit)
  BY <1>4, <1>6, <1>9 DEF SignalInv
<1> QED
  BY <1>7, <1>8, <1>9

LEMMA NextSignals ==
  ASSUME Safe, SignalInv, Cardinality(Tasks) <= UnpackLimit, ~PushMayRaise, [Next]_vars
  PROVE  SignalInv'
<1>1. CASE UNCHANGED <<active, signal>>
  BY <1>1 DEF SignalInv
<1>2. CASE Push
  BY <1>1, <1>2, PushCases DEF Push, Enqueue, SignalInv
<1>3. ASSUME NEW only \in Workers \cup {None}, NEW cutoff \in Times,
             ReenqueueOrphaned(only, cutoff)
      PROVE  SignalInv'
  BY <1>3, SweepSignals
<1>4. ASSUME NEW w \in Workers, NEW now \in Times, FetchNext(w, now) PROVE SignalInv'
  BY <1>4, FetchSignals
<1>5. ASSUME NEW w \in Workers, NEW S \in SUBSET Tasks, AcquireLeases(w, S)
      PROVE  SignalInv'
  <2>1. S \subseteq inflight[w] /\ active' = LRem(active, S) /\ signal' = signal
    BY <1>5 DEF AcquireLeases, AllHeldBy
  <2>2. Range(active) \cap S = {}
    BY <2>1 DEF Safe, OnePlace, Queued, Held
  <2> QED
    BY <1>1, <2>1, <2>2 DEF LRem
<1>6. ASSUME NEW w \in Workers, NEW S \in SUBSET Tasks, ReleaseLeases(w, S)
      PROVE  SignalInv'
  BY <1>6, ReleaseSignals
<1> QED
  BY <1>1, <1>2, <1>3, <1>4, <1>5, <1>6 DEF Next, vars, IdempotencyExpire, RegisterWorker,
    KeepAlive, CloseWorker, HandleResults, Settle, Vacuum, VacuumBefore, Forget

(***************************************************************************)
(* While a task is ready the signal list has an element, as long as no     *)
(* script fails half way: every set of tasks and the metadata of every     *)
(* push can be unpacked, and EXPIRE takes the TTL.                         *)
(***************************************************************************)
THEOREM ReadyIsSignalled ==
  ASSUME Cardinality(Tasks) <= UnpackLimit, ~PushMayRaise
  PROVE  Spec => []SignalInv
<1>1. Init => SignalInv
  BY DEF Init, SignalInv
<1>2. Safe /\ SignalInv /\ [Next]_vars => SignalInv'
  BY NextSignals
<1> QED
  BY <1>1, <1>2, Safety, PTL DEF Spec
=============================================================================
