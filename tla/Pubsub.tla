------------------------------- MODULE Pubsub -------------------------------
(***************************************************************************)
(* How a notification wakes a worker of a RedisStorageFactory.  All        *)
(* storages of a factory share one connection, whose reading task calls    *)
(* the push sender for every message on "tasks:*:available".  The sender   *)
(* looks up the Pubsub registered under the queue's name and signals it:   *)
(* it stores a flag, then wakes the task whose waker is registered.  That  *)
(* task polls the Pubsub from a thread of its own: it swaps the flag,      *)
(* registers its waker, and swaps the flag again.                          *)
(*                                                                         *)
(* Each access to the flag or to the AtomicWaker is an action, so every    *)
(* interleaving of the two threads is covered.  AtomicWaker (register and  *)
(* wake linearise), the runtime (a task that was woken is polled again)    *)
(* and StreamStrategy (a poll that was ready is followed by another) are   *)
(* external.                                                               *)
(***************************************************************************)
EXTENDS Naturals, Sequences

CONSTANTS
  Pubsubs,      \* the streams that create_with_config makes, one per storage
  Queues,       \* queue names
  PathQueues,   \* the names with a ':', as in the type name of most types
  None,         \* no stream
  MessageLimit  \* bound: messages between Redis and the push sender

ASSUME PubsubAssumption ==
  /\ None \notin Pubsubs \cup Queues
  /\ PathQueues \subseteq Queues
  /\ MessageLimit \in Nat

VARIABLES
  registry,  \* the stream that is registered for each queue
  queueOf,   \* the queue each stream was made for
  messages,  \* received on the connection, not yet handed to the push sender
  sending,   \* the stream whose flag is stored and whose waker is not yet woken
  set,       \* Inner::set
  waker,     \* Inner::waker holds the waker of the stream's task
  stream,    \* how far poll_next of each stream is
  woken      \* the runtime is going to poll the stream's task

consumer == <<waker, stream, woken>>
pubsubVars == <<registry, queueOf, messages, sending, set, waker, stream, woken>>

PollStates == {"parked", "first", "register", "second", "ready"}
Created(p) == queueOf[p] # None

-----------------------------------------------------------------------------
(* RedisStorageFactory.                                                    *)

\* The registry is locked: no message is being handled.
CreateWithConfig(p, q) ==
  /\ ~Created(p) /\ sending = None
  /\ queueOf' = [queueOf EXCEPT ![p] = q]
  /\ registry' = [registry EXCEPT ![q] = p]
  /\ woken' = [woken EXCEPT ![p] = TRUE]
  /\ UNCHANGED <<messages, sending, set, waker, stream>>

Publish(q) ==
  /\ Len(messages) < MessageLimit
  /\ messages' = Append(messages, q)
  /\ UNCHANGED <<registry, queueOf, sending, set, consumer>>

\* The channel is tasks:<queue>:active:available, the name is its second part
\* and the signal its fourth: a name with a ':' shifts the parts.
ParseChannelInfo(q) == IF q \in PathQueues THEN None ELSE q

Receiver(q) ==
  IF ParseChannelInfo(q) = None THEN None ELSE registry[ParseChannelInfo(q)]

\* Mutant: the flag is stored, the waker is not woken.
SignalStoresOnly ==
  /\ messages # <<>> /\ sending = None
  /\ messages' = Tail(messages)
  /\ set' = [p \in Pubsubs |-> set[p] \/ p = Receiver(Head(messages))]
  /\ UNCHANGED <<registry, queueOf, sending, consumer>>

\* The push sender up to the store in Pubsub::signal.
PushSender ==
  /\ messages # <<>> /\ sending = None
  /\ messages' = Tail(messages)
  /\ sending' = Receiver(Head(messages))
  /\ set' = [p \in Pubsubs |-> set[p] \/ p = Receiver(Head(messages))]
  /\ UNCHANGED <<registry, queueOf, consumer>>

\* Waking takes the waker out.
Wake ==
  /\ sending # None
  /\ woken' = [p \in Pubsubs |-> woken[p] \/ (p = sending /\ waker[p])]
  /\ waker' = [waker EXCEPT ![sending] = FALSE]
  /\ sending' = None
  /\ UNCHANGED <<registry, queueOf, messages, set, stream>>

-----------------------------------------------------------------------------
(* Stream::poll_next of a Pubsub, on its task.                             *)

\* The runtime may poll for other reasons than a wake: the task also runs the
\* heartbeats.
Poll(p) ==
  /\ Created(p) /\ stream[p] = "parked"
  /\ stream' = [stream EXCEPT ![p] = "first"]
  /\ woken' = [woken EXCEPT ![p] = FALSE]
  /\ UNCHANGED <<registry, queueOf, messages, sending, set, waker>>

\* swap(false): ready if the flag was stored, else on to the next step.
Swap(p, otherwise) ==
  /\ stream' = [stream EXCEPT ![p] = IF set[p] THEN "ready" ELSE otherwise]
  /\ set' = [set EXCEPT ![p] = FALSE]
  /\ UNCHANGED <<registry, queueOf, messages, sending, waker, woken>>

FirstSwap(p) == stream[p] = "first" /\ Swap(p, "register")

\* Mutant: after registering, the task parks without another look at the flag.
RegisterAndPark(p) ==
  /\ stream[p] = "register"
  /\ stream' = [stream EXCEPT ![p] = "parked"]
  /\ waker' = [waker EXCEPT ![p] = TRUE]
  /\ UNCHANGED <<registry, queueOf, messages, sending, set, woken>>

RegisterWaker(p) ==
  /\ stream[p] = "register"
  /\ stream' = [stream EXCEPT ![p] = "second"]
  /\ waker' = [waker EXCEPT ![p] = TRUE]
  /\ UNCHANGED <<registry, queueOf, messages, sending, set, woken>>

SecondSwap(p) == stream[p] = "second" /\ Swap(p, "parked")

\* The item is consumed, and the stream is polled until it is pending.
Yield(p) ==
  /\ stream[p] = "ready"
  /\ stream' = [stream EXCEPT ![p] = "parked"]
  /\ woken' = [woken EXCEPT ![p] = TRUE]
  /\ UNCHANGED <<registry, queueOf, messages, sending, set, waker>>

-----------------------------------------------------------------------------
PubsubInit ==
  /\ registry = [q \in Queues |-> None]
  /\ queueOf = [p \in Pubsubs |-> None]
  /\ messages = <<>>
  /\ sending = None
  /\ set = [p \in Pubsubs |-> FALSE]
  /\ waker = [p \in Pubsubs |-> FALSE]
  /\ stream = [p \in Pubsubs |-> "parked"]
  /\ woken = [p \in Pubsubs |-> FALSE]

PollStep(p) ==
  \/ FirstSwap(p)
  \/ RegisterWaker(p)
  \/ SecondSwap(p)
  \/ Yield(p)

PubsubNext ==
  \/ \E p \in Pubsubs, q \in Queues : CreateWithConfig(p, q)
  \/ \E q \in Queues : Publish(q)
  \/ PushSender
  \/ Wake
  \/ \E p \in Pubsubs : Poll(p) \/ PollStep(p)

\* The connection's reading task goes on, a woken task is polled, a poll ends.
PubsubFairness ==
  /\ WF_pubsubVars(PushSender) /\ WF_pubsubVars(Wake)
  /\ \A p \in Pubsubs :
       WF_pubsubVars(woken[p] /\ Poll(p)) /\ WF_pubsubVars(PollStep(p))

PubsubSpec == PubsubInit /\ [][PubsubNext]_pubsubVars
PubsubFairSpec == PubsubSpec /\ PubsubFairness

-----------------------------------------------------------------------------
(* Properties.                                                             *)

(***************************************************************************)
(* Every variable of the factory and its streams has its type, and what is *)
(* registered, signalled or polled was created.                            *)
(***************************************************************************)
PubsubTypeOK ==
  /\ registry \in [Queues -> Pubsubs \cup {None}]
  /\ queueOf \in [Pubsubs -> Queues \cup {None}]
  /\ messages \in Seq(Queues)
  /\ sending \in Pubsubs \cup {None}
  /\ set \in [Pubsubs -> BOOLEAN]
  /\ waker \in [Pubsubs -> BOOLEAN]
  /\ stream \in [Pubsubs -> PollStates]
  /\ woken \in [Pubsubs -> BOOLEAN]
  /\ \A q \in Queues : registry[q] # None => queueOf[registry[q]] = q
  /\ sending # None => Created(sending)

(***************************************************************************)
(* No wakeup is lost: a task never sleeps on a stored flag, unless the     *)
(* signal that stored it is about to wake it.  poll_next swaps the flag    *)
(* once more after it has registered "to avoid a lost wakeup".             *)
(***************************************************************************)
NoLostWakeup ==
  \A p \in Pubsubs :
    stream[p] = "parked" /\ set[p] => woken[p] \/ (sending = p /\ waker[p])

(***************************************************************************)
(* "A basic stream that wakes a worker when pubsub fires": a message for a *)
(* queue makes the stream that is registered for it ready, unless another  *)
(* stream takes its place in the registry meanwhile, whatever messages of  *)
(* other queues come with it.  It holds of names that the channel can be   *)
(* parsed back to; the messages of other names wake nobody.                *)
(***************************************************************************)
Notified ==
  \A p \in Pubsubs, q \in Queues :
    (\E i \in DOMAIN messages : messages[i] = q) /\ ParseChannelInfo(q) = q
      /\ registry[q] = p
      ~> stream[p] = "ready" \/ registry[q] # p

=============================================================================
