------------------------------ MODULE WaitFor ------------------------------
(***************************************************************************)
(* WaitForCompletion for RedisStorage (wait_for.rs): a stream that polls   *)
(* the metadata of the tasks it waits for, with three HGETs per task, and  *)
(* gives out a result for each.  The scripts of RedisQueue run between any *)
(* two of these reads.                                                     *)
(***************************************************************************)
EXTENDS RedisQueue

CONSTANTS
  Undecodable,  \* the tasks whose output does not decode as the awaited type
  MaxFailures   \* bound: how often the connection fails

ASSUME WaitAssumption == Undecodable \subseteq Tasks /\ MaxFailures \in Nat

VARIABLES
  pending,   \* the ids that have not been answered
  checking,  \* a call of check_status is going on
  todo,      \* the ids that it has not looked at
  reading,   \* what it has read of the id it looks at (None: between two ids)
  found,     \* the results that it has collected
  answered,  \* history: the ids that the stream has given out a result for
  failures   \* how often the connection has failed

waitVars == <<pending, checking, todo, reading, found, answered, failures>>

TasksAnswered(results) == {answer.task : answer \in results}

-----------------------------------------------------------------------------
(* One call of check_status.                                               *)

\* The next item of the stream is asked for; with nothing pending it ends.
BeginRound ==
  /\ ~checking /\ pending # {}
  /\ checking' = TRUE
  /\ todo' = pending
  /\ UNCHANGED <<pending, reading, found, answered, failures>>

\* A task without a status is passed over.
ReadStatus(t) ==
  /\ checking /\ reading = None /\ t \in todo
  /\ todo' = todo \ {t}
  /\ reading' = IF meta[t].status = None THEN None
                ELSE [task |-> t, status |-> meta[t].status, result |-> "unread"]
  /\ UNCHANGED <<pending, checking, found, answered, failures>>

ReadResult ==
  /\ reading # None /\ reading.result = "unread"
  /\ reading' = [reading EXCEPT !.result = meta[reading.task].result]
  /\ UNCHANGED <<pending, checking, todo, found, answered, failures>>

\* An error of a task is text, which always decodes.
Decodes(t, result) == result = "Ok" => t \notin Undecodable

AttemptRead(t) == IF meta[t].attempts = None THEN 1 ELSE meta[t].attempts

\* Mutant: the status is read after the result, not before it.
LateStatus ==
  [task |-> reading.task, status |-> meta[reading.task].status,
   result |-> reading.result, attempt |-> AttemptRead(reading.task)]

Answer ==
  [task |-> reading.task, status |-> reading.status,
   result |-> reading.result, attempt |-> AttemptRead(reading.task)]

\* Mutant: a task is answered before it has a result.
CollectAlways == found \cup {Answer}

\* Mutant: only outputs are collected.
CollectSuccess == IF reading.result = "Ok" THEN found \cup {Answer} ELSE found

\* A task with a result is answered, whatever its status.
Collected == IF reading.result = None THEN found ELSE found \cup {Answer}

ReadAttempts ==
  /\ reading # None /\ reading.result # "unread"
  /\ Decodes(reading.task, reading.result)
  /\ found' = Collected
  /\ reading' = None
  /\ UNCHANGED <<pending, checking, todo, answered, failures>>

\* An error item: what this call has collected is dropped, the ids stay pending.
Abort ==
  /\ checking' = FALSE
  /\ todo' = {}
  /\ reading' = None
  /\ found' = {}
  /\ UNCHANGED <<pending, answered>>

DecodeFails ==
  /\ reading # None /\ reading.result # "unread"
  /\ ~Decodes(reading.task, reading.result)
  /\ Abort
  /\ UNCHANGED failures

ConnectionFails ==
  /\ checking /\ failures < MaxFailures
  /\ failures' = failures + 1
  /\ Abort

-----------------------------------------------------------------------------
(* The end of a round.                                                     *)

\* Mutant: answered ids stay pending.
NobodyRemoved == pending

StillPending == pending \ TasksAnswered(found)

\* With nothing found the stream sleeps for 100 ms and begins again.
Yield ==
  /\ checking /\ reading = None /\ todo = {}
  /\ answered' = answered \cup TasksAnswered(found)
  /\ pending' = StillPending
  /\ found' = {}
  /\ checking' = FALSE
  /\ UNCHANGED <<todo, reading, failures>>

WaitInit ==
  /\ pending \in SUBSET Tasks
  /\ checking = FALSE
  /\ todo = {}
  /\ reading = None
  /\ found = {}
  /\ answered = {}
  /\ failures = 0

Poll ==
  \/ BeginRound
  \/ \E t \in Tasks : ReadStatus(t)
  \/ ReadResult
  \/ ReadAttempts
  \/ DecodeFails
  \/ ConnectionFails
  \/ Yield

WaitNext ==
  \/ Poll /\ UNCHANGED vars
  \/ Next /\ UNCHANGED waitVars

WaitSpec == Init /\ WaitInit /\ [][WaitNext]_<<vars, waitVars>>

-----------------------------------------------------------------------------
(* Properties.                                                             *)

(***************************************************************************)
(* Every variable of the stream has its type.                              *)
(***************************************************************************)
Answers ==
  [task : Tasks, status : Statuses, result : {"Ok", "Err"}, attempt : Nat]

WaitTypeOK ==
  /\ pending \subseteq Tasks
  /\ checking \in BOOLEAN
  /\ todo \subseteq pending
  /\ reading \in {None} \cup [task : pending, status : Statuses,
                              result : {"unread", "Ok", "Err", None}]
  /\ found \subseteq Answers
  /\ answered \subseteq Tasks
  /\ failures \in 0..MaxFailures

(***************************************************************************)
(* However often rounds fail and begin again, a task is answered once: no  *)
(* call collects a result for a task that the stream has given out.        *)
(***************************************************************************)
AnsweredOnce ==
  /\ \A a, b \in found : a.task = b.task => a = b
  /\ TasksAnswered(found) \cap answered = {}

(***************************************************************************)
(* The three reads of a task can be torn by scripts that run in between,   *)
(* but not so that a final answer is wrong: with status Done goes the      *)
(* output and the attempt of the execution that succeeded, with Killed its *)
(* error, and an output is given only for a task that is done.  It rests   *)
(* on the order of the reads, status first, and on settled tasks staying   *)
(* settled.                                                                *)
(***************************************************************************)
FinalAnswers ==
  \A a \in found :
    /\ a.status = "Done" =>
         /\ a.result = "Ok"
         /\ a.task \in data => a.attempt = meta[a.task].attempts
    /\ a.status = "Killed" => a.task \in dead /\ a.result = "Err"
    /\ a.result = "Ok" => a.task \in done

(***************************************************************************)
(* A task that is settled is answered, unless it is vacuumed first, or the *)
(* stream also waits for a task whose output does not decode: that one is  *)
(* never answered and its error drops what was found with it.              *)
(***************************************************************************)
Poisoned == \E t \in pending \cap Undecodable : meta[t].result = "Ok"

EveryAnswered ==
  \A t \in Tasks :
    t \in pending /\ Settled(t) ~> t \in answered \/ t \notin data \/ Poisoned

(***************************************************************************)
(* The stream answers for tasks that are done or failed, as check_status   *)
(* says of the status it reads.                                            *)
(***************************************************************************)
RunningNotAnswered == \A a \in found : a.status # "Running"

(***************************************************************************)
(* An error ends the stream, as the comment at its place says: no further  *)
(* round begins after one that failed.                                     *)
(***************************************************************************)
ErrorEndsStream == [][failures > 0 => ~checking']_waitVars

=============================================================================
