------------------------ MODULE RabbitConsumerProof ------------------------
(***************************************************************************)
(* Proofs about module RabbitConsumer, for every set of messages, every    *)
(* finite set of consumers and every bound on redeliveries.                *)
(***************************************************************************)
EXTENDS RabbitConsumer, FiniteSetTheorems, TLAPS

-----------------------------------------------------------------------------
(* The inductive invariant. *)

(* What is somewhere was sent; only a consumer that has a message in hand  *)
(* is finished with it or has lost its link.                               *)
PlaceInv ==
  /\ queue \subseteq sent
  /\ \A c \in Consumers : /\ buffer[c] \subseteq sent
                          /\ inHand[c] \in sent \cup {None}
                          /\ c \in lostLink => inHand[c] # None

(* A block ends only after a dispatch or an exception. *)
DoneInv ==
  \A c \in finished : /\ inHand[c] # None
                      /\ handled[inHand[c]] > 0 \/ inHand[c] \in failed

(* Consumers that have yet to dispatch m; and whether another one may come. *)
Unsettled(m) == {c \in Consumers : inHand[c] = m /\ c \notin finished}
Waits(m) == m \notin sent \/ m \in queue \/ \E c \in Consumers : m \in buffer[c]
ToCome(m) == Cardinality(Unsettled(m)) + IF Waits(m) THEN 1 ELSE 0

CountInv == \A m \in Messages : handled[m] + ToCome(m) <= 1 + returns[m]

Inv == TypeOK /\ PlaceInv /\ DoneInv /\ OneCopy /\ OutagesLoseNothing

IInv == Inv /\ CountInv

-----------------------------------------------------------------------------
(* Type correctness. *)

LEMMA RequeueType ==
  ASSUME TypeOK, NEW M \in SUBSET Messages, Requeue(M)
  PROVE  /\ (queue \subseteq Messages)'
         /\ (returns \in [Messages -> 0 .. MaxReturns])'
  BY RabbitAssumption DEF TypeOK, Requeue

LEMMA HoldingType ==
  ASSUME TypeOK, NEW c \in Consumers
  PROVE  /\ Holding(c) \in SUBSET Messages
         /\ Unacknowledged(c) \in SUBSET Messages
         /\ buffer[c] \in SUBSET Messages
  BY DEF TypeOK, Holding, Unacknowledged

LEMMA NextTypeOK ==
  ASSUME TypeOK, [Next]_vars
  PROVE  TypeOK'
  <1> USE DEF TypeOK
  <1>1. ASSUME NEW m \in Messages, Send(m) PROVE TypeOK'
    BY <1>1 DEF Send
  <1>2. ASSUME NEW c \in Consumers, NEW m \in Messages, Deliver(c, m) PROVE TypeOK'
    BY <1>2 DEF Deliver
  <1>3. ASSUME NEW c \in Consumers, NEW m \in Messages, Take(c, m) PROVE TypeOK'
    BY <1>3 DEF Take
  <1>4. ASSUME NEW c \in Consumers, Start(c) PROVE TypeOK'
    BY <1>4 DEF Start
  <1>5. ASSUME NEW c \in Consumers, Dispatch(c) PROVE TypeOK'
    BY <1>5 DEF Dispatch
  <1>6. ASSUME NEW c \in Consumers, DispatchError(c) PROVE TypeOK'
    BY <1>6 DEF DispatchError
  <1>7. ASSUME NEW c \in Consumers, Ack(c) \/ AckIgnored(c) PROVE TypeOK'
    BY <1>7 DEF Ack, AckIgnored, LetGo
  <1>8. ASSUME NEW c \in Consumers, AckError(c) PROVE TypeOK'
    BY <1>8, RequeueType, HoldingType DEF AckError, LetGo
  <1>9. ASSUME NEW c \in Consumers, LinkLost(c) PROVE TypeOK'
    BY <1>9, RequeueType, HoldingType DEF LinkLost
  <1>10. ASSUME NEW c \in Consumers, StopRejects(c) PROVE TypeOK'
    BY <1>10, RequeueType, HoldingType DEF StopRejects, LetGo
  <1>11. ASSUME NEW c \in Consumers, Stop(c) \/ Crash(c) PROVE TypeOK'
    BY <1>11, RequeueType, HoldingType DEF Stop, Crash, LetGo
  <1>12. CASE UNCHANGED vars
    BY <1>12 DEF vars
  <1>13. QED
    BY <1>1, <1>2, <1>3, <1>4, <1>5, <1>6, <1>7, <1>8, <1>9, <1>10, <1>11, <1>12
       DEF Next

LEMMA InitIInv == Init => IInv
  <1> SUFFICES ASSUME Init PROVE IInv
    OBVIOUS
  <1>1. Inv
    BY RabbitAssumption DEF Init, Inv, TypeOK, PlaceInv, DoneInv, OneCopy, OutagesLoseNothing,
       Unacknowledged, Holding
  <1>2. ASSUME NEW m \in Messages PROVE handled[m] + ToCome(m) <= 1 + returns[m]
    <2>1. Unsettled(m) = {}
      BY RabbitAssumption DEF Init, Unsettled
    <2>2. QED
      BY <2>1, FS_EmptySet DEF Init, ToCome
  <1>3. QED
    BY <1>1, <1>2 DEF IInv, CountInv

-----------------------------------------------------------------------------
(* Where messages are. *)

LEMMA NextInv ==
  ASSUME Inv, [Next]_vars
  PROVE  Inv'
  <1>0. TypeOK'
    BY NextTypeOK DEF Inv
  <1> USE RabbitAssumption DEF Inv, TypeOK, PlaceInv, DoneInv
  <1> DEFINE Rest == PlaceInv' /\ DoneInv' /\ OneCopy' /\ OutagesLoseNothing'
  <1>1. ASSUME NEW m \in Messages, Send(m) PROVE Rest
    BY <1>1 DEF Send, OneCopy, OutagesLoseNothing, AtBroker, Unacknowledged, Holding
  <1>2. ASSUME NEW c \in Consumers, NEW m \in Messages, Deliver(c, m) PROVE Rest
    BY <1>2 DEF Deliver, OneCopy, OutagesLoseNothing, AtBroker, Unacknowledged, Holding
  <1>3. ASSUME NEW c \in Consumers, NEW m \in Messages, Take(c, m) PROVE Rest
    BY <1>3 DEF Take, OneCopy, OutagesLoseNothing, AtBroker, Unacknowledged, Holding
  <1>4. ASSUME NEW c \in Consumers, Start(c) PROVE Rest
    BY <1>4 DEF Start, OneCopy, OutagesLoseNothing, AtBroker, Unacknowledged, Holding
  <1>5. ASSUME NEW c \in Consumers, Dispatch(c) PROVE Rest
    BY <1>5 DEF Dispatch, OneCopy, OutagesLoseNothing, AtBroker, Unacknowledged, Holding
  <1>6. ASSUME NEW c \in Consumers, DispatchError(c) PROVE Rest
    BY <1>6 DEF DispatchError, OneCopy, OutagesLoseNothing, AtBroker, Unacknowledged, Holding
  <1>7. ASSUME NEW c \in Consumers, Ack(c) \/ AckIgnored(c) PROVE Rest
    BY <1>7 DEF Ack, AckIgnored, LetGo, OneCopy, OutagesLoseNothing, AtBroker,
                Unacknowledged, Holding
  <1>8. ASSUME NEW c \in Consumers, AckError(c) PROVE Rest
    BY <1>8 DEF AckError, LetGo, Requeue, OneCopy, OutagesLoseNothing, AtBroker,
                Unacknowledged, Holding
  <1>9. ASSUME NEW c \in Consumers, LinkLost(c) PROVE Rest
    BY <1>9 DEF LinkLost, Requeue, OneCopy, OutagesLoseNothing, AtBroker,
                Unacknowledged, Holding
  <1>10. ASSUME NEW c \in Consumers, StopRejects(c) PROVE Rest
    BY <1>10 DEF StopRejects, LetGo, Requeue, OneCopy, OutagesLoseNothing, AtBroker,
                 Unacknowledged, Holding
  <1>11. ASSUME NEW c \in Consumers, Stop(c) \/ Crash(c) PROVE Rest
    <2>1. CASE Stop(c)
      BY <2>1 DEF Stop, LetGo, Requeue, OneCopy, OutagesLoseNothing, AtBroker,
                  Unacknowledged, Holding
    <2>2. CASE Crash(c)
      BY <2>2 DEF Crash, LetGo, Requeue, OneCopy, OutagesLoseNothing, AtBroker,
                  Unacknowledged, Holding
    <2>3. QED
      BY <1>11, <2>1, <2>2
  <1>12. CASE UNCHANGED vars
    BY <1>12 DEF vars, OneCopy, OutagesLoseNothing, AtBroker, Unacknowledged, Holding
  <1>13. Rest
    BY <1>1, <1>2, <1>3, <1>4, <1>5, <1>6, <1>7, <1>8, <1>9, <1>10, <1>11, <1>12
       DEF Next
  <1>14. QED
    BY <1>0, <1>13 DEF Inv

-----------------------------------------------------------------------------
(* How often messages are dispatched. *)

LEMMA UnsettledFinite ==
  ASSUME NEW m
  PROVE  IsFiniteSet(Unsettled(m)) /\ Cardinality(Unsettled(m)) \in Nat
  BY RabbitAssumption, FS_Subset, FS_CardinalityType DEF Unsettled

(* A step after which m is less to come, and no more often dispatched. *)
LEMMA CountShrinks ==
  ASSUME IInv, TypeOK', NEW m \in Messages,
         Unsettled(m)' \subseteq Unsettled(m),
         handled'[m] = handled[m],
         \/ returns'[m] = returns[m] /\ (Waits(m)' => Waits(m))
         \/ returns'[m] = returns[m] + 1
  PROVE  (handled[m] + ToCome(m) <= 1 + returns[m])'
  <1>1. /\ Cardinality(Unsettled(m)) \in Nat
        /\ Cardinality(Unsettled(m)') \in Nat
        /\ Cardinality(Unsettled(m)') <= Cardinality(Unsettled(m))
    BY UnsettledFinite, FS_Subset, FS_CardinalityType
  <1>2. handled[m] \in Nat /\ returns[m] \in Nat
    BY RabbitAssumption DEF IInv, Inv, TypeOK
  <1>3. handled[m] + Cardinality(Unsettled(m)) + (IF Waits(m) THEN 1 ELSE 0) <= 1 + returns[m]
    BY <1>1, <1>2 DEF IInv, CountInv, ToCome
  <1>4. QED
    BY <1>1, <1>2, <1>3 DEF ToCome

(* What c has in hand is one message to come fewer, and one dispatch more. *)
LEMMA CountDispatch ==
  ASSUME IInv, NEW c \in Consumers, Dispatch(c), NEW m \in Messages
  PROVE  (handled[m] + ToCome(m) <= 1 + returns[m])'
  <1> USE DEF IInv, Inv, TypeOK
  <1>0. TypeOK'
    BY NextTypeOK DEF Next
  <1>1. Waits(m)' = Waits(m)
    BY DEF Dispatch, Waits
  <1>2. CASE m = inHand[c]
    <2>1. Unsettled(m)' = Unsettled(m) \ {c} /\ c \in Unsettled(m)
      BY <1>2 DEF Dispatch, Unsettled
    <2>2. /\ Cardinality(Unsettled(m)) \in Nat
          /\ Cardinality(Unsettled(m)') = Cardinality(Unsettled(m)) - 1
      BY <2>1, UnsettledFinite, FS_RemoveElement
    <2>3. handled'[m] = handled[m] + 1 /\ returns'[m] = returns[m]
      BY <1>2 DEF Dispatch
    <2>4. handled[m] \in Nat /\ returns[m] \in Nat
      BY RabbitAssumption
    <2>5. handled[m] + ToCome(m) <= 1 + returns[m]
      BY DEF CountInv
    <2>6. QED
      BY <1>1, <2>2, <2>3, <2>4, <2>5 DEF ToCome
  <1>3. CASE m # inHand[c]
    <2>1. Unsettled(m)' \subseteq Unsettled(m)
      BY DEF Dispatch, Unsettled
    <2>2. handled'[m] = handled[m] /\ returns'[m] = returns[m]
      BY <1>3 DEF Dispatch
    <2>3. QED
      BY <1>0, <1>1, <2>1, <2>2, CountShrinks
  <1>4. QED
    BY <1>2, <1>3

(* The message c takes waits nowhere else: there is one copy. *)
LEMMA CountTake ==
  ASSUME IInv, NEW c \in Consumers, NEW n \in Messages, Take(c, n), NEW m \in Messages
  PROVE  (handled[m] + ToCome(m) <= 1 + returns[m])'
  <1> USE RabbitAssumption DEF IInv, Inv, TypeOK
  <1>0. TypeOK'
    BY NextTypeOK DEF Next
  <1>1. handled'[m] = handled[m] /\ returns'[m] = returns[m]
    BY DEF Take
  <1>2. c \notin finished
    BY DEF Take, DoneInv
  <1>3. CASE m = n
    <2>1. Unsettled(m)' = Unsettled(m) \cup {c}
      BY <1>2, <1>3 DEF Take, Unsettled
    <2>2. /\ Cardinality(Unsettled(m)) \in Nat
          /\ Cardinality(Unsettled(m)') \in Nat
          /\ Cardinality(Unsettled(m)') <= Cardinality(Unsettled(m)) + 1
      <3>1. IsFiniteSet(Unsettled(m)) /\ Cardinality(Unsettled(m)) \in Nat
        BY UnsettledFinite
      <3>2. Cardinality(Unsettled(m) \cup {c}) \in
              {Cardinality(Unsettled(m)), Cardinality(Unsettled(m)) + 1}
        BY <3>1, FS_AddElement
      <3>3. QED
        BY <2>1, <3>1, <3>2
    <2>3. Waits(m)
      BY <1>3 DEF Take, Waits
    <2>4. ~Waits(m)'
      BY <1>3 DEF Take, Waits, OneCopy, Unacknowledged, PlaceInv
    <2>5. handled[m] \in Nat /\ returns[m] \in Nat
      OBVIOUS
    <2>6. handled[m] + ToCome(m) <= 1 + returns[m]
      BY DEF CountInv
    <2>7. QED
      BY <1>1, <2>2, <2>3, <2>4, <2>5, <2>6 DEF ToCome
  <1>4. CASE m # n
    <2>1. Unsettled(m)' \subseteq Unsettled(m)
      BY <1>4 DEF Take, Unsettled
    <2>2. Waits(m)' => Waits(m)
      BY <1>4 DEF Take, Waits
    <2>3. QED
      BY <1>0, <1>1, <2>1, <2>2, CountShrinks
  <1>5. QED
    BY <1>3, <1>4

(* A step that requeues messages c had, or none. *)
LEMMA CountRequeue ==
  ASSUME IInv, TypeOK', NEW c \in Consumers, NEW M \in SUBSET Unacknowledged(c), Requeue(M),
         UNCHANGED <<sent, handled>>,
         \A d \in Consumers : buffer'[d] \subseteq buffer[d],
         \A m \in Messages : Unsettled(m)' \subseteq Unsettled(m)
  PROVE  CountInv'
  <1> SUFFICES ASSUME NEW m \in Messages
               PROVE  (handled[m] + ToCome(m) <= 1 + returns[m])'
    BY DEF CountInv
  <1>1. CASE m \in M
    <2>1. returns'[m] = returns[m] + 1
      BY <1>1 DEF Requeue
    <2>2. QED
      BY <2>1, CountShrinks
  <1>2. CASE m \notin M
    <2>1. returns'[m] = returns[m]
      BY <1>2, RabbitAssumption DEF Requeue, IInv, Inv, TypeOK
    <2>2. Waits(m)' => Waits(m)
      BY <1>2 DEF Requeue, Waits
    <2>3. QED
      BY <2>1, <2>2, CountShrinks
  <1>3. QED
    BY <1>1, <1>2

LEMMA NextCountInv ==
  ASSUME IInv, [Next]_vars
  PROVE  CountInv'
  <1>0. TypeOK'
    BY NextTypeOK DEF IInv, Inv
  <1> USE RabbitAssumption
  <1> DEFINE Counted(m) == (handled[m] + ToCome(m) <= 1 + returns[m])'
  <1>1. ASSUME NEW n \in Messages, Send(n) PROVE CountInv'
    <2> SUFFICES ASSUME NEW m \in Messages PROVE Counted(m)
      BY DEF CountInv
    <2>1. Unsettled(m)' \subseteq Unsettled(m) /\ (Waits(m)' => Waits(m))
      BY <1>1 DEF Send, Unsettled, Waits
    <2>2. QED
      BY <1>0, <1>1, <2>1, CountShrinks DEF Send
  <1>2. ASSUME NEW c \in Consumers, NEW n \in Messages, Deliver(c, n) PROVE CountInv'
    <2> SUFFICES ASSUME NEW m \in Messages PROVE Counted(m)
      BY DEF CountInv
    <2>1. Unsettled(m)' \subseteq Unsettled(m) /\ (Waits(m)' => Waits(m))
      BY <1>2 DEF Deliver, Unsettled, Waits, IInv, Inv, TypeOK
    <2>2. QED
      BY <1>0, <1>2, <2>1, CountShrinks DEF Deliver
  <1>3. ASSUME NEW c \in Consumers, NEW n \in Messages, Take(c, n) PROVE CountInv'
    BY <1>3, CountTake DEF CountInv
  <1>4. ASSUME NEW c \in Consumers, Dispatch(c) PROVE CountInv'
    BY <1>4, CountDispatch DEF CountInv
  <1>5. ASSUME NEW c \in Consumers, Start(c) \/ DispatchError(c) \/ Ack(c) \/ AckIgnored(c)
        PROVE  CountInv'
    <2> SUFFICES ASSUME NEW m \in Messages PROVE Counted(m)
      BY DEF CountInv
    <2>1. Unsettled(m)' \subseteq Unsettled(m) /\ (Waits(m)' => Waits(m))
      BY <1>5 DEF Start, DispatchError, Ack, AckIgnored, LetGo, Unsettled, Waits,
                  IInv, Inv, TypeOK
    <2>2. handled' = handled /\ returns' = returns
      BY <1>5 DEF Start, DispatchError, Ack, AckIgnored
    <2>3. QED
      BY <1>0, <2>1, <2>2, CountShrinks
  <1>6. ASSUME NEW c \in Consumers, AckError(c) \/ StopRejects(c) PROVE CountInv'
    <2>1. \A m \in Messages : Unsettled(m)' \subseteq Unsettled(m)
      BY <1>6 DEF AckError, StopRejects, LetGo, Unsettled, IInv, Inv, TypeOK
    <2>2. \A d \in Consumers : buffer'[d] \subseteq buffer[d]
      BY <1>6 DEF AckError, StopRejects, IInv, Inv, TypeOK
    <2>3. Requeue(buffer[c]) /\ UNCHANGED <<sent, handled>>
      BY <1>6 DEF AckError, StopRejects
    <2>4. buffer[c] \in SUBSET Unacknowledged(c)
      BY DEF Unacknowledged
    <2>5. QED
      BY <1>0, <2>1, <2>2, <2>3, <2>4, CountRequeue
  <1>7. ASSUME NEW c \in Consumers, LinkLost(c) \/ Stop(c) \/ Crash(c) PROVE CountInv'
    <2>1. \A m \in Messages : Unsettled(m)' \subseteq Unsettled(m)
      BY <1>7 DEF LinkLost, Stop, Crash, LetGo, Unsettled, IInv, Inv, TypeOK
    <2>2. \A d \in Consumers : buffer'[d] \subseteq buffer[d]
      BY <1>7 DEF LinkLost, Stop, Crash, IInv, Inv, TypeOK
    <2>3. Requeue(Unacknowledged(c)) /\ UNCHANGED <<sent, handled>>
      BY <1>7 DEF LinkLost, Stop, Crash
    <2>4. QED
      BY <1>0, <2>1, <2>2, <2>3, CountRequeue
  <1>8. CASE UNCHANGED vars
    BY <1>8 DEF vars, IInv, CountInv, ToCome, Unsettled, Waits
  <1>9. QED
    BY <1>1, <1>2, <1>3, <1>4, <1>5, <1>6, <1>7, <1>8 DEF Next

-----------------------------------------------------------------------------
(* The theorems. *)

LEMMA Invariance == Spec => []IInv
  <1>1. IInv /\ [Next]_vars => IInv'
    BY NextInv, NextCountInv DEF IInv
  <1>2. QED
    BY InitIInv, <1>1, PTL DEF Spec

(* Every variable of the queue and its consumers stays in its type; a      *)
(* message is returned to the queue within the bound only.                 *)
THEOREM TypeCorrect == Spec => []TypeOK
  BY Invariance, PTL DEF IInv, Inv

(* Crashes, stops and lost connections lose nothing: a message whose       *)
(* dispatch did not raise and that no stop rejected is at the broker or    *)
(* was dispatched (consumer/rabbitmq.py:133-150).                          *)
THEOREM NothingVanishes == Spec => []OutagesLoseNothing
  BY Invariance, PTL DEF IInv, Inv

(* A message is in the queue or with one consumer, never both or twice.    *)
THEOREM SingleCopy == Spec => []OneCopy
  BY Invariance, PTL DEF IInv, Inv

(* A message is dispatched once, plus once for every return to the queue.  *)
THEOREM DispatchesBounded == Spec => []OncePerDelivery
  <1>1. IInv => OncePerDelivery
    <2> SUFFICES ASSUME IInv, NEW m \in Messages PROVE handled[m] <= 1 + returns[m]
      BY DEF OncePerDelivery
    <2>1. Cardinality(Unsettled(m)) \in Nat
      BY UnsettledFinite
    <2>2. handled[m] \in Nat /\ returns[m] \in Nat /\ handled[m] + ToCome(m) <= 1 + returns[m]
      BY RabbitAssumption DEF IInv, Inv, TypeOK, CountInv
    <2>3. QED
      BY <2>1, <2>2 DEF ToCome
  <1>2. QED
    BY Invariance, <1>1, PTL

=============================================================================
