---------------------------- MODULE ReadersProofs ----------------------------
(***************************************************************************)
(* Proofs about what clients read while the scripts of any other client    *)
(* run: the stream of WaitFor answers a task once, and its final answers   *)
(* are right although each is put together from three reads; the reports   *)
(* of Listings can decode every task that a push accepted.                 *)
(*                                                                         *)
(* The argument about the three reads: a status is read first, and once it *)
(* is final the task is settled, so that nothing but a vacuum changes its  *)
(* metadata (SettledStays); what is read after that is of the same         *)
(* execution, or not there at all, and then the task is not answered.      *)
(***************************************************************************)
EXTENDS WaitFor, Listings, QueueStatusProofs

\* Where a round of the stream is: what it has found, reads and has to do are
\* different tasks, all of them pending.
Round ==
  /\ answered \cap pending = {}
  /\ TasksAnswered(found) \subseteq pending \ todo
  /\ reading # None => reading.task \notin todo \cup TasksAnswered(found)
  /\ ~checking => found = {} /\ todo = {} /\ reading = None
  /\ \A a, b \in found : a.task = b.task => a = b

\* What has been read of a task with a final status.
ReadingInv ==
  reading # None =>
    /\ reading.status = "Done" => /\ reading.task \in done
                                  /\ reading.result \in {"unread", "Ok", None}
    /\ reading.status = "Killed" => /\ reading.task \in dead
                                    /\ reading.result \in {"unread", "Err", None}
    /\ reading.result = "Ok" => reading.task \in done

FinalAnswer(a) ==
  /\ a.status = "Done" =>
       /\ a.result = "Ok" /\ a.task \in done
       /\ a.task \in data => a.attempt = meta[a.task].attempts
  /\ a.status = "Killed" => a.task \in dead /\ a.result = "Err"
  /\ a.result = "Ok" => a.task \in done

WaitInv ==
  /\ StatusInv /\ WaitTypeOK /\ Round /\ ReadingInv
  /\ \A a \in found : FinalAnswer(a)

(***************************************************************************)
(* A settled task stays settled, and nothing but a vacuum touches its      *)
(* metadata.                                                               *)
(***************************************************************************)
LEMMA SettledStays ==
  ASSUME StatusInv, [Next]_vars, NEW t \in Tasks
  PROVE  /\ t \in done => t \in done'
         /\ t \in dead => t \in dead'
         /\ t \in done /\ t \in data' => t \in data /\ meta'[t] = meta[t]
<1>1. MetaStep(t, Acks)
  BY NextMeta DEF StatusInv, MetaSteps
<1>2. Settled(t) => t \in issued
  BY DEF StatusInv, Safe, NeverLost
<1> QED
  BY <1>1, <1>2 DEF MetaStep, Untouched, Stored, HalfStored, Leased, Reported, Forgotten,
     SamePlace, SamePayload, Settled

LEMMA QueueStepWait ==
  ASSUME WaitInv, Next, UNCHANGED waitVars
  PROVE  WaitInv'
<1>1. StatusInv'
  BY NextStatus DEF WaitInv
<1>2. WaitTypeOK' /\ Round'
  BY DEF WaitInv, waitVars, WaitTypeOK, Round
<1>3. UNCHANGED <<reading, found>>
  BY DEF waitVars
<1>4. reading # None => reading.task \in Tasks
  BY DEF WaitInv, WaitTypeOK
<1>5. ReadingInv'
  <2>1. CASE reading = None
    BY <1>3, <2>1 DEF ReadingInv
  <2>2. CASE reading # None
    <3>1. /\ reading.task \in done => reading.task \in done'
          /\ reading.task \in dead => reading.task \in dead'
      BY <1>4, <2>2, SettledStays DEF WaitInv
    <3> QED
      BY <1>3, <2>2, <3>1 DEF WaitInv, ReadingInv
  <2> QED
    BY <2>1, <2>2
<1>6. \A a \in found' : FinalAnswer(a)'
  <2> SUFFICES ASSUME NEW a \in found PROVE FinalAnswer(a)'
    BY <1>3
  <2>1. a.task \in Tasks
    BY DEF WaitInv, WaitTypeOK, Answers
  <2>2. /\ a.task \in done => a.task \in done'
        /\ a.task \in dead => a.task \in dead'
        /\ a.task \in done /\ a.task \in data' =>
             a.task \in data /\ meta'[a.task] = meta[a.task]
    BY <2>1, SettledStays DEF WaitInv
  <2> QED
    BY <2>2 DEF WaitInv, FinalAnswer
<1> QED
  BY <1>1, <1>2, <1>5, <1>6 DEF WaitInv

(***************************************************************************)
(* What HGET of result and attempts return.                                *)
(***************************************************************************)
LEMMA ReadsOfTask ==
  ASSUME StatusInv, NEW t \in Tasks
  PROVE  /\ meta[t].status \in Statuses \cup {None}
         /\ meta[t].result \in {"Ok", "Err", None}
         /\ AttemptRead(t) \in Nat
         /\ meta[t].status = "Done" => t \in done
         /\ meta[t].status = "Killed" => t \in dead
         /\ meta[t].result = "Ok" => t \in done
         /\ t \in done => meta[t].result \in {"Ok", None}
         /\ t \in dead => meta[t].result \in {"Err", None}
         /\ t \in done /\ t \in data => AttemptRead(t) = meta[t].attempts
<1>1. meta[t] \in MetaFields /\ Truthful(t)
  BY DEF StatusInv, Safe, TypeOK, MetaInv, MetaOK
<1>2. meta[t].attempts \in Attempts \cup FirstAttempts \cup {None}
  BY <1>1 DEF MetaFields
<1>3. Attempts \subseteq Nat /\ FirstAttempts \subseteq Nat
  BY ConstantsAssumption
<1>4. AttemptRead(t) \in Nat
  <2> DEFINE n == meta[t].attempts
  <2>1. n \in Attempts \cup FirstAttempts \cup {None}
    BY <1>2
  <2>2. AttemptRead(t) = IF n = None THEN 1 ELSE n
    BY DEF AttemptRead
  <2> HIDE DEF n
  <2> QED
    BY <1>3, <2>1, <2>2
<1>5. t \in done /\ t \in data => meta[t].attempts # None
  BY DEF StatusInv, MetaInv, MetaOK, Complete, Safe, NeverLost, Settled
<1> QED
  BY <1>1, <1>4, <1>5 DEF MetaFields, Truthful, AttemptRead

LEMMA BeginRoundWait ==
  ASSUME WaitInv, BeginRound, UNCHANGED vars
  PROVE  WaitInv'
<1>1. /\ checking' = TRUE /\ todo' = pending
      /\ found = {} /\ reading = None
      /\ UNCHANGED <<pending, reading, found, answered, failures>>
  BY DEF BeginRound, WaitInv, Round
<1>2. StatusInv'
  BY NextStatus DEF WaitInv
<1>3. WaitTypeOK'
  BY <1>1 DEF WaitInv, WaitTypeOK
<1>4. Round'
  BY <1>1 DEF WaitInv, Round, TasksAnswered
<1>5. ReadingInv' /\ \A a \in found' : FinalAnswer(a)'
  BY <1>1 DEF ReadingInv
<1> QED
  BY <1>2, <1>3, <1>4, <1>5 DEF WaitInv

LEMMA ReadStatusWait ==
  ASSUME WaitInv, NEW t \in Tasks, ReadStatus(t), UNCHANGED vars
  PROVE  WaitInv'
<1> DEFINE read == [task |-> t, status |-> meta[t].status, result |-> "unread"]
<1>1. /\ reading = None /\ checking /\ t \in todo
      /\ todo' = todo \ {t}
      /\ reading' = IF meta[t].status = None THEN None ELSE read
      /\ UNCHANGED <<pending, checking, found, answered, failures>>
  BY DEF ReadStatus
<1>2. StatusInv' /\ StatusInv
  BY NextStatus DEF WaitInv
<1>3. t \in pending
  BY <1>1 DEF WaitInv, WaitTypeOK
<1>4. meta[t].status # None => meta[t].status \in Statuses
  BY <1>2, ReadsOfTask
<1>5. /\ reading' # None => read.task = t /\ reading' = read
      /\ read.status = meta[t].status /\ read.result = "unread"
  BY <1>1
<1>6. WaitTypeOK'
  BY <1>1, <1>3, <1>4 DEF WaitInv, WaitTypeOK
<1> HIDE DEF read
<1>7. Round'
  BY <1>1, <1>5 DEF WaitInv, Round, TasksAnswered
<1>8. ReadingInv'
  <2>1. /\ meta[t].status = "Done" => t \in done
        /\ meta[t].status = "Killed" => t \in dead
    BY <1>2, ReadsOfTask
  <2> QED
    BY <1>5, <2>1 DEF ReadingInv, vars
<1>9. \A a \in found' : FinalAnswer(a)'
  BY <1>1 DEF WaitInv, FinalAnswer, vars
<1> QED
  BY <1>2, <1>6, <1>7, <1>8, <1>9 DEF WaitInv

LEMMA ReadResultWait ==
  ASSUME WaitInv, ReadResult, UNCHANGED vars
  PROVE  WaitInv'
<1> DEFINE t == reading.task
           read == [reading EXCEPT !.result = meta[t].result]
<1>1. /\ reading # None /\ reading' = read
      /\ UNCHANGED <<pending, checking, todo, found, answered, failures>>
  BY DEF ReadResult
<1>2. StatusInv' /\ StatusInv
  BY NextStatus DEF WaitInv
<1>3. /\ reading \in [task : pending, status : Statuses, result : {"unread", "Ok", "Err", None}]
      /\ t \in Tasks
  BY <1>1 DEF WaitInv, WaitTypeOK
<1>4. /\ read \in [task : pending, status : Statuses, result : {"unread", "Ok", "Err", None}]
      /\ read.task = t /\ read.status = reading.status /\ read.result = meta[t].result
  BY <1>2, <1>3, ReadsOfTask
<1> HIDE DEF read
<1>5. WaitTypeOK'
  BY <1>1, <1>4 DEF WaitInv, WaitTypeOK
<1>6. Round'
  BY <1>1, <1>4 DEF WaitInv, Round, TasksAnswered
<1>7. ReadingInv'
  <2>1. /\ read.status = "Done" => t \in done
        /\ read.status = "Killed" => t \in dead
    BY <1>1, <1>4 DEF WaitInv, ReadingInv
  <2>2. /\ meta[t].result = "Ok" => t \in done
        /\ t \in done => meta[t].result \in {"Ok", None}
        /\ t \in dead => meta[t].result \in {"Err", None}
    BY <1>2, <1>3, ReadsOfTask
  <2> HIDE DEF t
  <2> QED
    BY <1>1, <1>4, <2>1, <2>2 DEF ReadingInv, vars
<1>8. \A a \in found' : FinalAnswer(a)'
  BY <1>1 DEF WaitInv, FinalAnswer, vars
<1> QED
  BY <1>2, <1>5, <1>6, <1>7, <1>8 DEF WaitInv

LEMMA ReadAttemptsWait ==
  ASSUME WaitInv, ReadAttempts, UNCHANGED vars
  PROVE  WaitInv'
<1> DEFINE t == reading.task
<1>1. /\ reading # None /\ reading.result # "unread"
      /\ found' = Collected /\ reading' = None
      /\ UNCHANGED <<pending, checking, todo, answered, failures>>
  BY DEF ReadAttempts
<1>2. StatusInv' /\ StatusInv
  BY NextStatus DEF WaitInv
<1>3. /\ reading \in [task : pending, status : Statuses, result : {"unread", "Ok", "Err", None}]
      /\ t \in Tasks /\ t \in pending
  BY <1>1 DEF WaitInv, WaitTypeOK
<1>4. t \notin todo /\ t \notin TasksAnswered(found) /\ checking
  BY <1>1 DEF WaitInv, Round
<1>5. CASE reading.result = None
  <2>1. found' = found
    BY <1>1, <1>5 DEF Collected
  <2>2. WaitTypeOK' /\ Round' /\ ReadingInv'
    BY <1>1, <1>4, <2>1 DEF WaitInv, WaitTypeOK, Round, ReadingInv
  <2>3. \A a \in found' : FinalAnswer(a)'
    BY <2>1 DEF WaitInv, FinalAnswer, vars
  <2> QED
    BY <1>2, <2>2, <2>3 DEF WaitInv
<1>6. CASE reading.result # None
  <2>1. found' = found \cup {Answer}
    BY <1>1, <1>6 DEF Collected
  <2>2. /\ Answer.task = t /\ Answer.status = reading.status
        /\ Answer.result = reading.result /\ Answer.attempt = AttemptRead(t)
    BY DEF Answer
  <2>3. Answer \in Answers
    <3>1. reading.status \in Statuses /\ reading.result \in {"Ok", "Err"}
      BY <1>1, <1>3, <1>6
    <3>2. AttemptRead(t) \in Nat
      BY <1>2, <1>3, ReadsOfTask
    <3> QED
      BY <1>3, <3>1, <3>2 DEF Answer, Answers
  <2>4. FinalAnswer(Answer)
    <3>1. t \in done /\ t \in data => AttemptRead(t) = meta[t].attempts
      BY <1>2, <1>3, ReadsOfTask
    <3>2. /\ reading.status = "Done" => t \in done /\ reading.result = "Ok"
          /\ reading.status = "Killed" => t \in dead /\ reading.result = "Err"
          /\ reading.result = "Ok" => t \in done
      BY <1>1, <1>6 DEF WaitInv, ReadingInv
    <3> QED
      BY <2>2, <3>1, <3>2 DEF FinalAnswer
  <2> DEFINE ans == Answer
  <2> HIDE DEF ans, t
  <2>5. WaitTypeOK'
    BY <1>1, <2>1, <2>3 DEF WaitInv, WaitTypeOK
  <2>6. Round'
    <3>1. TasksAnswered(found') = TasksAnswered(found) \cup {t}
      BY <2>1, <2>2 DEF TasksAnswered
    <3>2. \A a \in found : a.task # t
      BY <1>4 DEF TasksAnswered
    <3>3. \A a, b \in found' : a.task = b.task => a = b
      BY <2>1, <2>2, <3>2 DEF WaitInv, Round
    <3> QED
      BY <1>1, <1>3, <1>4, <3>1, <3>3 DEF WaitInv, Round
  <2>7. ReadingInv'
    BY <1>1 DEF ReadingInv
  <2>8. \A a \in found' : FinalAnswer(a)'
    BY <2>1, <2>4 DEF WaitInv, FinalAnswer, vars
  <2> QED
    BY <1>2, <2>5, <2>6, <2>7, <2>8 DEF WaitInv
<1> QED
  BY <1>5, <1>6

LEMMA AbortWait ==
  ASSUME WaitInv, DecodeFails \/ ConnectionFails, UNCHANGED vars
  PROVE  WaitInv'
<1>1. /\ checking' = FALSE /\ todo' = {} /\ reading' = None /\ found' = {}
      /\ UNCHANGED <<pending, answered>>
  BY DEF DecodeFails, ConnectionFails, Abort
<1>2. StatusInv'
  BY NextStatus DEF WaitInv
<1>3. failures' \in 0..MaxFailures
  BY WaitAssumption DEF DecodeFails, ConnectionFails, WaitInv, WaitTypeOK
<1>4. WaitTypeOK'
  BY <1>1, <1>3 DEF WaitInv, WaitTypeOK
<1>5. Round'
  BY <1>1 DEF WaitInv, Round, TasksAnswered
<1>6. ReadingInv' /\ \A a \in found' : FinalAnswer(a)'
  BY <1>1 DEF ReadingInv
<1> QED
  BY <1>2, <1>4, <1>5, <1>6 DEF WaitInv

LEMMA YieldWait ==
  ASSUME WaitInv, Yield, UNCHANGED vars
  PROVE  WaitInv'
<1>1. /\ todo = {} /\ reading = None
      /\ answered' = answered \cup TasksAnswered(found)
      /\ pending' = pending \ TasksAnswered(found)
      /\ found' = {} /\ checking' = FALSE
      /\ UNCHANGED <<todo, reading, failures>>
  BY DEF Yield, StillPending
<1>2. StatusInv'
  BY NextStatus DEF WaitInv
<1>3. TasksAnswered(found) \subseteq pending
  BY DEF WaitInv, Round
<1>4. WaitTypeOK'
  BY <1>1, <1>3 DEF WaitInv, WaitTypeOK
<1>5. Round'
  BY <1>1 DEF WaitInv, Round, TasksAnswered
<1>6. ReadingInv' /\ \A a \in found' : FinalAnswer(a)'
  BY <1>1 DEF ReadingInv
<1> QED
  BY <1>2, <1>4, <1>5, <1>6 DEF WaitInv

-----------------------------------------------------------------------------
LEMMA InitWait == Init /\ WaitInit => WaitInv
<1> SUFFICES ASSUME Init, WaitInit PROVE WaitInv
  OBVIOUS
<1>1. StatusInv
  BY InitStatus
<1>2. WaitTypeOK
  <2>1. 0 \in 0..MaxFailures
    BY WaitAssumption
  <2> QED
    BY <2>1 DEF WaitInit, WaitTypeOK
<1>3. Round /\ ReadingInv /\ \A a \in found : FinalAnswer(a)
  BY DEF WaitInit, Round, ReadingInv, TasksAnswered
<1> QED
  BY <1>1, <1>2, <1>3 DEF WaitInv

LEMMA NextWait == WaitInv /\ [WaitNext]_<<vars, waitVars>> => WaitInv'
<1> SUFFICES ASSUME WaitInv, [WaitNext]_<<vars, waitVars>> PROVE WaitInv'
  OBVIOUS
<1>1. CASE Next /\ UNCHANGED waitVars
  BY <1>1, QueueStepWait
<1>2. CASE Poll /\ UNCHANGED vars
  BY <1>2, BeginRoundWait, ReadStatusWait, ReadResultWait, ReadAttemptsWait, AbortWait,
     YieldWait DEF Poll
<1>3. CASE UNCHANGED <<vars, waitVars>>
  <2>1. StatusInv'
    BY <1>3, NextStatus DEF WaitInv
  <2> QED
    BY <1>3, <2>1 DEF vars, waitVars, WaitInv, WaitTypeOK, Round, ReadingInv, FinalAnswer
<1> QED
  BY <1>1, <1>2, <1>3 DEF WaitNext

LEMMA WaitInvariant == WaitSpec => []WaitInv
  BY InitWait, NextWait, PTL DEF WaitSpec

(***************************************************************************)
(* Every variable of the stream keeps its type: what it gives out has a    *)
(* status and a result.                                                    *)
(***************************************************************************)
THEOREM WaitTypes == WaitSpec => []WaitTypeOK
<1>1. WaitInv => WaitTypeOK
  BY DEF WaitInv
<1> QED
  BY <1>1, WaitInvariant, PTL

(***************************************************************************)
(* A task is answered once, however often rounds fail.                     *)
(***************************************************************************)
THEOREM NoSecondAnswer == WaitSpec => []AnsweredOnce
<1>1. WaitInv => AnsweredOnce
  BY DEF WaitInv, Round, AnsweredOnce
<1> QED
  BY <1>1, WaitInvariant, PTL

(***************************************************************************)
(* Final answers are right, whatever scripts run between their reads.      *)
(***************************************************************************)
THEOREM FinalAnswersAreRight == WaitSpec => []FinalAnswers
<1>1. WaitInv => FinalAnswers
  BY DEF WaitInv, FinalAnswer, FinalAnswers
<1> QED
  BY <1>1, WaitInvariant, PTL

(***************************************************************************)
(* No report fails on a task that a push accepted: as long as it has a     *)
(* payload it has the fields that its decoding needs.  (The payload that a *)
(* failed push leaves has none of them.)                                   *)
(***************************************************************************)
THEOREM ReportsDecode == ListingSpec => []AcceptedTasksDecode
<1>1. Init /\ ListingInit => StatusInv
  BY InitStatus
<1>2. StatusInv /\ [ListingNext]_<<vars, listingVars>> => StatusInv'
  BY NextStatus DEF ListingNext
<1>3. StatusInv => AcceptedTasksDecode
  BY DEF StatusInv, Safe, TypeOK, MetaInv, MetaOK, Complete, AcceptedTasksDecode,
     FetchByIdFails, CompactTask
<1> QED
  BY <1>1, <1>2, <1>3, PTL DEF ListingSpec

-----------------------------------------------------------------------------
(* A listing misses nothing.                                               *)

\* The ids with a payload that do not come after t.
UpTo(t) == {s \in data : NotAfter(s, t)}

LEMMA IdsAreOrdered ==
  ASSUME NEW s \in Tasks, NEW t \in Tasks
  PROVE  /\ NotAfter(t, t)
         /\ NotAfter(s, t) \/ NotAfter(t, s)
         /\ NotAfter(s, t) /\ NotAfter(t, s) => s = t
         /\ \A r \in Tasks : NotAfter(r, s) /\ NotAfter(s, t) => NotAfter(r, t)
<1>1. /\ DOMAIN IdOrder = 1..Len(IdOrder) /\ Len(IdOrder) \in Nat
      /\ \A i, j \in DOMAIN IdOrder : IdOrder[i] = IdOrder[j] => i = j
      /\ \A r \in Tasks : \E i \in DOMAIN IdOrder : IdOrder[i] = r
  BY ListingAssumption DEF IsInjective, Range
<1>2. PICK i \in DOMAIN IdOrder, j \in DOMAIN IdOrder : IdOrder[i] = s /\ IdOrder[j] = t
  BY <1>1
<1>3. i \in Nat /\ j \in Nat
  BY <1>1
<1>4. NotAfter(s, t) <=> i <= j
  BY <1>1, <1>2 DEF NotAfter
<1>5. NotAfter(t, s) <=> j <= i
  BY <1>1, <1>2 DEF NotAfter
<1>6. NotAfter(t, t)
  BY <1>2, <1>3 DEF NotAfter
<1>7. ASSUME NEW r \in Tasks, NotAfter(r, s), NotAfter(s, t) PROVE NotAfter(r, t)
  <2>1. PICK h \in DOMAIN IdOrder : IdOrder[h] = r /\ h <= i
    BY <1>1, <1>2, <1>7 DEF NotAfter
  <2>2. h \in Nat /\ h <= j
    BY <1>1, <1>3, <1>4, <1>7, <2>1
  <2> QED
    BY <1>2, <2>1, <2>2 DEF NotAfter
<1> QED
  BY <1>2, <1>3, <1>4, <1>5, <1>6, <1>7

(***************************************************************************)
(* The ranks of the ids with a payload are 1, 2, ... without a gap: they   *)
(* are as many as the ids, and no two ids have the same.                   *)
(***************************************************************************)
LEMMA RanksHaveNoGap ==
  ASSUME data \subseteq Tasks
  PROVE  /\ \A t \in data : RankOf(t) \in Nat /\ RankOf(t) >= 1
         /\ \A t \in data, k \in Nat : k >= 1 /\ k <= RankOf(t) =>
              \E s \in data : RankOf(s) = k
<1> DEFINE n == Cardinality(data)
           rank == [t \in data |-> RankOf(t)]
<1>1. IsFiniteSet(data) /\ n \in Nat
  BY ConstantsAssumption, FS_Subset, FS_CardinalityType
<1>2. ASSUME NEW t \in data
      PROVE  /\ IsFiniteSet(UpTo(t)) /\ RankOf(t) = Cardinality(UpTo(t))
             /\ RankOf(t) \in 1..n
  <2>1. UpTo(t) \in SUBSET data /\ t \in UpTo(t)
    BY IdsAreOrdered DEF UpTo
  <2>2. /\ IsFiniteSet(UpTo(t)) /\ RankOf(t) = Cardinality(UpTo(t))
        /\ RankOf(t) \in Nat /\ RankOf(t) <= n
    BY <1>1, <2>1, FS_Subset, FS_CardinalityType DEF RankOf, UpTo
  <2>3. RankOf(t) # 0
    BY <2>1, <2>2, FS_EmptySet
  <2> QED
    BY <1>1, <2>2, <2>3
<1>3. ASSUME NEW s \in data, NEW t \in data, RankOf(s) = RankOf(t), NotAfter(s, t)
      PROVE  s = t
  <2>1. UpTo(s) \in SUBSET UpTo(t)
    BY <1>3, IdsAreOrdered DEF UpTo
  <2>2. UpTo(t) = UpTo(s)
    BY <1>2, <1>3, <2>1, FS_Subset
  <2>3. t \in UpTo(t)
    BY IdsAreOrdered DEF UpTo
  <2> QED
    BY <1>3, <2>2, <2>3, IdsAreOrdered DEF UpTo
<1>4. rank \in Injection(data, 1..n)
  <2>1. rank \in [data -> 1..n]
    BY <1>2
  <2>2. ASSUME NEW s \in data, NEW t \in data, rank[s] = rank[t] PROVE s = t
    BY <1>3, <2>2, IdsAreOrdered
  <2> QED
    BY <2>1, <2>2 DEF Injection, IsInjective
<1>5. IsFiniteSet(1..n) /\ Cardinality(1..n) = n
  BY <1>1, FS_Interval
<1>6. rank \in Surjection(data, 1..n)
  BY <1>4, <1>5, FS_Injection
<1>7. ASSUME NEW t \in data, NEW k \in Nat, k >= 1, k <= RankOf(t)
      PROVE  \E s \in data : RankOf(s) = k
  <2>1. k \in 1..n
    BY <1>1, <1>2, <1>7
  <2> QED
    BY <1>6, <2>1 DEF Surjection
<1> QED
  BY <1>1, <1>2, <1>7

\* A task that was there when the listing began has been shown, or it comes
\* after all that has been shown.
ListingInv ==
  /\ page \in Nat \cup {None}
  /\ page \in {None, 0} => ~finished
  /\ calm /\ page \notin {None, 0} =>
       /\ present \subseteq data
       /\ \A t \in present : t \in listed \/ RankOf(t) >= FirstOf(page)
  /\ NoneSkipped

LEMMA StartOfListing ==
  ASSUME data \subseteq Tasks, ListingInv, StartListing, UNCHANGED vars
  PROVE  ListingInv'
<1>1. /\ page' = 1 /\ present' = data /\ data' = data /\ ~finished'
      /\ \A t \in data : RankOf(t)' = RankOf(t) /\ RankOf(t) >= 1
  BY RanksHaveNoGap DEF StartListing, ListingInv, RankOf, vars
<1>2. FirstOf(1) = 1
  BY ListingAssumption DEF FirstOf
<1> QED
  BY <1>1, <1>2 DEF ListingInv, NoneSkipped

LEMMA PageOfListing ==
  ASSUME data \subseteq Tasks, ListingInv, ListPage, UNCHANGED vars
  PROVE  ListingInv'
<1>1. /\ page \in Nat /\ page >= 1 /\ page' = page + 1 /\ page' \in Nat
      /\ page' \notin {None, 0}
      /\ listed' = listed \cup PageOf(page) /\ finished' = (PageOf(page) = {})
      /\ present' = present /\ calm' = calm /\ data' = data
      /\ \A t \in data : RankOf(t)' = RankOf(t)
  BY NoneIsNew DEF ListPage, ListingInv, RankOf, vars
<1>2. /\ PageSize \in Nat /\ PageSize >= 1
      /\ FirstOf(page) \in Nat /\ FirstOf(page) >= 1
      /\ FirstOf(page + 1) = FirstOf(page) + PageSize
  <2>1. PageSize \in Nat /\ PageSize >= 1
    BY ListingAssumption
  <2>2. \A m, k \in Nat : m >= 1 => /\ (m - 1) * k \in Nat
                                   /\ ((m + 1) - 1) * k = (m - 1) * k + k
    OBVIOUS
  <2>3. /\ (page - 1) * PageSize \in Nat
        /\ ((page + 1) - 1) * PageSize = (page - 1) * PageSize + PageSize
    BY <1>1, <2>1, <2>2
  <2> QED
    BY <2>1, <2>3 DEF FirstOf
<1>3. ASSUME calm, NEW t \in present, t \notin listed
      PROVE  t \in data /\ RankOf(t) >= FirstOf(page) /\ RankOf(t) \in Nat
  BY <1>1, <1>3, NoneIsNew, RanksHaveNoGap DEF ListingInv
<1>4. ASSUME calm, NEW t \in present, t \notin listed'
      PROVE  RankOf(t) >= FirstOf(page')
  BY <1>1, <1>2, <1>3, <1>4 DEF PageOf
<1>5. ASSUME calm, finished' PROVE present \subseteq listed'
  <2> SUFFICES ASSUME NEW t \in present, t \notin listed PROVE FALSE
    BY <1>1
  <2>1. PICK s \in data : RankOf(s) = FirstOf(page)
    BY <1>2, <1>3, <1>5, RanksHaveNoGap
  <2>2. s \in PageOf(page)
    BY <1>2, <2>1 DEF PageOf
  <2> QED
    BY <1>1, <1>5, <2>2
<1>6. FirstOf(page)' = FirstOf(page')
  BY DEF FirstOf
<1>7. calm => present \subseteq data
  BY <1>1, NoneIsNew DEF ListingInv
<1> QED
  BY <1>1, <1>4, <1>5, <1>6, <1>7 DEF ListingInv, NoneSkipped

(***************************************************************************)
(* A script that deletes no payload moves every task back, if at all.      *)
(***************************************************************************)
LEMMA ListingUndisturbed ==
  ASSUME data \subseteq Tasks, data' \subseteq Tasks, ListingInv, Witnessed
  PROVE  ListingInv'
<1>1. UNCHANGED <<page, finished, listed, present>>
  BY DEF Witnessed
<1>2. ASSUME calm' PROVE calm /\ data \subseteq data'
  BY <1>2 DEF Witnessed
<1>3. ASSUME data \subseteq data', NEW t \in data
      PROVE  RankOf(t) \in Nat /\ RankOf(t)' \in Nat /\ RankOf(t) <= RankOf(t)'
  <2>1. IsFiniteSet(UpTo(t)') /\ UpTo(t) \in SUBSET UpTo(t)'
    BY <1>3, ConstantsAssumption, FS_Subset DEF UpTo
  <2>2. /\ Cardinality(UpTo(t)') \in Nat /\ Cardinality(UpTo(t)) \in Nat
        /\ Cardinality(UpTo(t)) <= Cardinality(UpTo(t)')
    BY <2>1, FS_Subset, FS_CardinalityType
  <2> QED
    BY <2>2 DEF RankOf, UpTo
<1>4. FirstOf(page)' = FirstOf(page)
  BY <1>1 DEF FirstOf
<1>5. page \notin {None, 0} => FirstOf(page) \in Int
  BY ListingAssumption DEF FirstOf, ListingInv
<1> QED
  BY <1>1, <1>2, <1>3, <1>4, <1>5 DEF ListingInv, NoneSkipped

(***************************************************************************)
(* A listing that meets no vacuum shows every task that was there when it  *)
(* began, however many are pushed meanwhile and whatever the page size:    *)
(* pushes move a task to later pages only, and an empty page has no task   *)
(* after it.                                                               *)
(***************************************************************************)
THEOREM ListingIsComplete == ListingSpec => []NoneSkipped
<1>1. Init /\ ListingInit => StatusInv /\ ListingInv
  BY InitStatus DEF ListingInit, ListingInv, NoneSkipped
<1>2. StatusInv /\ ListingInv /\ [ListingNext]_<<vars, listingVars>> =>
        StatusInv' /\ ListingInv'
  <2> SUFFICES ASSUME StatusInv, ListingInv, [ListingNext]_<<vars, listingVars>>
               PROVE  StatusInv' /\ ListingInv'
    OBVIOUS
  <2>1. StatusInv'
    BY NextStatus DEF ListingNext
  <2>2. data \subseteq Tasks /\ data' \subseteq Tasks
    BY <2>1 DEF StatusInv, Safe, TypeOK
  <2>3. CASE Lister /\ UNCHANGED vars
    BY <2>1, <2>2, <2>3, StartOfListing, PageOfListing DEF Lister
  <2>4. CASE Next /\ Witnessed
    BY <2>1, <2>2, <2>4, ListingUndisturbed
  <2>5. CASE UNCHANGED <<vars, listingVars>>
    BY <2>1, <2>5 DEF vars, listingVars, ListingInv, NoneSkipped, RankOf, FirstOf
  <2> QED
    BY <2>1, <2>3, <2>4, <2>5 DEF ListingNext
<1>3. ListingInv => NoneSkipped
  BY DEF ListingInv
<1> QED
  BY <1>1, <1>2, <1>3, PTL DEF ListingSpec
=============================================================================
