---------------------------- MODULE PubsubProofs ----------------------------
(***************************************************************************)
(* No wakeup is lost, for any number of queues, streams and messages.      *)
(***************************************************************************)
EXTENDS Pubsub, TLAPS

(***************************************************************************)
(* NoLostWakeup is not inductive: it says nothing of a task that is about  *)
(* to park.  A task that is not going to be polled has its waker           *)
(* registered, and this from the moment it registers it.                   *)
(***************************************************************************)
Reachable(p) ==
  /\ ~Created(p) => ~set[p] /\ stream[p] = "parked"
  /\ Created(p) /\ stream[p] = "parked" =>
       woken[p] \/ (waker[p] /\ (set[p] => sending = p))
  /\ stream[p] = "second" => waker[p] \/ woken[p]

AllReachable == \A p \in Pubsubs : Reachable(p)
PubsubInv == PubsubTypeOK /\ AllReachable

\* What the push sender finds in the registry was created.
LEMMA ReceiverCreated ==
  ASSUME PubsubTypeOK, NEW q \in Queues
  PROVE  /\ Receiver(q) \in Pubsubs \cup {None}
         /\ Receiver(q) # None => Created(Receiver(q))
<1>. USE PubsubAssumption DEF PubsubTypeOK, Receiver, ParseChannelInfo, Created
<1>1. CASE q \in PathQueues
  BY <1>1
<1>2. CASE q \notin PathQueues
  <2>1. ParseChannelInfo(q) = q /\ q # None /\ Receiver(q) = registry[q]
    BY <1>2
  <2>. QED BY <2>1
<1>. QED BY <1>1, <1>2

\* The invariant holds initially.
LEMMA PubsubInitInv == PubsubInit => PubsubInv
BY PubsubAssumption
   DEF PubsubInit, PubsubInv, PubsubTypeOK, AllReachable, Reachable, Created, PollStates

\* Every step keeps the types.
LEMMA PubsubTypeStep == PubsubInv /\ [PubsubNext]_pubsubVars => PubsubTypeOK'
<1>. SUFFICES ASSUME PubsubInv, [PubsubNext]_pubsubVars PROVE PubsubTypeOK'
  OBVIOUS
<1>0. PubsubTypeOK BY DEF PubsubInv
<1>. USE PubsubAssumption DEF PubsubTypeOK, PollStates, Created
<1>1. ASSUME NEW p \in Pubsubs, NEW q \in Queues, CreateWithConfig(p, q) PROVE PubsubTypeOK'
  BY <1>0, <1>1 DEF CreateWithConfig
<1>2. ASSUME NEW q \in Queues, Publish(q) PROVE PubsubTypeOK'
  BY <1>0, <1>2 DEF Publish, consumer
<1>3. CASE PushSender
  <2>1. Head(messages) \in Queues /\ Tail(messages) \in Seq(Queues)
    BY <1>0, <1>3 DEF PushSender
  <2>2. /\ sending' \in Pubsubs \cup {None}
        /\ sending' # None => Created(sending')
    BY <1>0, <1>3, <2>1, ReceiverCreated DEF PushSender
  <2>. QED BY <1>0, <1>3, <2>1, <2>2 DEF PushSender, consumer
<1>4. CASE Wake
  BY <1>0, <1>4 DEF Wake
<1>5. ASSUME NEW p \in Pubsubs, Poll(p) PROVE PubsubTypeOK'
  BY <1>0, <1>5 DEF Poll
<1>6. ASSUME NEW p \in Pubsubs, PollStep(p) PROVE PubsubTypeOK'
  BY <1>0, <1>6 DEF PollStep, FirstSwap, RegisterWaker, SecondSwap, Yield, Swap
<1>7. CASE UNCHANGED pubsubVars
  BY <1>0, <1>7 DEF pubsubVars
<1>. QED BY <1>1, <1>2, <1>3, <1>4, <1>5, <1>6, <1>7 DEF PubsubNext

\* Every step keeps each stream wakeable.
LEMMA ReachableStep ==
  ASSUME PubsubInv, [PubsubNext]_pubsubVars, NEW r \in Pubsubs
  PROVE  Reachable(r)'
<1>0. PubsubTypeOK /\ Reachable(r) BY DEF PubsubInv, AllReachable
<1>. USE PubsubAssumption DEF PubsubTypeOK, PollStates, Created, Reachable
<1>1. ASSUME NEW p \in Pubsubs, NEW q \in Queues, CreateWithConfig(p, q) PROVE Reachable(r)'
  BY <1>0, <1>1 DEF CreateWithConfig
<1>2. ASSUME NEW q \in Queues, Publish(q) PROVE Reachable(r)'
  BY <1>0, <1>2 DEF Publish, consumer
<1>3. CASE PushSender
  <2>1. Head(messages) \in Queues
    BY <1>0, <1>3 DEF PushSender
  <2>2. r = Receiver(Head(messages)) => Created(r)
    BY <1>0, <2>1, ReceiverCreated
  <2>3. r = Receiver(Head(messages)) <=> sending' = r
    BY <1>3 DEF PushSender
  <2>. QED BY <1>0, <1>3, <2>2, <2>3 DEF PushSender, consumer
<1>4. CASE Wake
  BY <1>0, <1>4 DEF Wake
<1>5. ASSUME NEW p \in Pubsubs, Poll(p) PROVE Reachable(r)'
  BY <1>0, <1>5 DEF Poll
<1>6. ASSUME NEW p \in Pubsubs, PollStep(p) PROVE Reachable(r)'
  BY <1>0, <1>6 DEF PollStep, FirstSwap, RegisterWaker, SecondSwap, Yield, Swap
<1>7. CASE UNCHANGED pubsubVars
  BY <1>0, <1>7 DEF pubsubVars
<1>. QED BY <1>1, <1>2, <1>3, <1>4, <1>5, <1>6, <1>7 DEF PubsubNext

LEMMA PubsubInvStep == PubsubInv /\ [PubsubNext]_pubsubVars => PubsubInv'
BY PubsubTypeStep, ReachableStep DEF PubsubInv, AllReachable

(***************************************************************************)
(* The types of the factory's and the streams' variables, and what is      *)
(* registered or signalled was created (factory.rs).                       *)
(***************************************************************************)
THEOREM PubsubTypes == PubsubSpec => []PubsubTypeOK
<1>1. PubsubInv => PubsubTypeOK
  BY DEF PubsubInv
<1>. QED BY PubsubInitInv, PubsubInvStep, <1>1, PTL DEF PubsubSpec

(***************************************************************************)
(* The second swap of poll_next makes up for a signal that came before the *)
(* waker was registered: no task sleeps on a stored flag.                  *)
(***************************************************************************)
THEOREM WakeupsAreKept == PubsubSpec => []NoLostWakeup
<1>1. PubsubInv => NoLostWakeup
  BY DEF PubsubInv, PubsubTypeOK, AllReachable, Reachable, NoLostWakeup
<1>. QED BY PubsubInitInv, PubsubInvStep, <1>1, PTL DEF PubsubSpec

=============================================================================
