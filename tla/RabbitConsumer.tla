--------------------------- MODULE RabbitConsumer ---------------------------
(***************************************************************************)
(* RabbitMQEventConsumer: processes that consume one durable queue and     *)
(* dispatch its messages to the in-process publisher.  The broker hands    *)
(* messages out without a prefetch limit, so many may wait, unacknowledged,*)
(* in the iterator of one consumer while it processes one; the order in    *)
(* which queue and iterator give them out is left open.                    *)
(*                                                                         *)
(* message.process() acknowledges when its block ends normally, and that   *)
(* includes an exception caught inside; only an exception that leaves the  *)
(* block, here the cancellation by stop, makes it reject the message, and  *)
(* reject(requeue=False) discards it.  Broker and aio_pika are outside     *)
(* src/ and modelled from their use.                                       *)
(***************************************************************************)
EXTENDS Naturals, FiniteSets

CONSTANTS
  Messages,    (* messages that are routed to the queue                     *)
  Consumers,   (* processes that run a consumer of the queue                *)
  MaxReturns,  (* bound of the model: redeliveries of one message           *)
  None         (* no message                                                *)

ASSUME RabbitAssumption ==
  /\ IsFiniteSet(Consumers)
  /\ MaxReturns \in Nat
  /\ None \notin Messages

VARIABLES
  sent,      (* messages that were routed to the queue                      *)
  queue,     (* messages in the queue, ready for delivery                   *)
  task,      (* task[c]: "stopped", "consuming", or "dead": ended by an     *)
             (* exception, with the connection still open                   *)
  buffer,    (* buffer[c]: messages delivered to c's iterator, not yet taken *)
  inHand,    (* inHand[c]: the message being processed                      *)
  finished,  (* consumers whose block has ended: the acknowledgement is next *)
  lostLink,  (* consumers whose channel broke since they took inHand        *)
  handled,   (* history: how often each message was dispatched              *)
  failed,    (* history: messages whose dispatch raised                     *)
  rejected,  (* history: messages rejected because of a cancellation        *)
  returns    (* history: how often a message went back to the queue         *)

vars == <<sent, queue, task, buffer, inHand, finished, lostLink,
          handled, failed, rejected, returns>>

TypeOK ==
  /\ sent \subseteq Messages
  /\ queue \subseteq Messages
  /\ task \in [Consumers -> {"stopped", "consuming", "dead"}]
  /\ buffer \in [Consumers -> SUBSET Messages]
  /\ inHand \in [Consumers -> Messages \cup {None}]
  /\ finished \subseteq Consumers
  /\ lostLink \subseteq Consumers
  /\ handled \in [Messages -> Nat]
  /\ failed \subseteq Messages
  /\ rejected \subseteq Messages
  /\ returns \in [Messages -> 0 .. MaxReturns]

Init ==
  /\ sent = {}
  /\ queue = {}
  /\ task = [c \in Consumers |-> "stopped"]
  /\ buffer = [c \in Consumers |-> {}]
  /\ inHand = [c \in Consumers |-> None]
  /\ finished = {}
  /\ lostLink = {}
  /\ handled = [m \in Messages |-> 0]
  /\ failed = {}
  /\ rejected = {}
  /\ returns = [m \in Messages |-> 0]

-----------------------------------------------------------------------------
(* The broker. *)

Send(m) ==
  /\ m \notin sent
  /\ sent' = sent \cup {m}
  /\ queue' = queue \cup {m}
  /\ UNCHANGED <<task, buffer, inHand, finished, lostLink, handled, failed,
                 rejected, returns>>

Deliver(c, m) ==
  /\ task[c] = "consuming"
  /\ m \in queue
  /\ queue' = queue \ {m}
  /\ buffer' = [buffer EXCEPT ![c] = @ \cup {m}]
  /\ UNCHANGED <<sent, task, inHand, finished, lostLink, handled, failed,
                 rejected, returns>>

(* Messages M, unacknowledged so far, are ready for delivery again. *)
Requeue(M) ==
  /\ \A m \in M : returns[m] < MaxReturns
  /\ queue' = queue \cup M
  /\ returns' = [m \in Messages |-> returns[m] + IF m \in M THEN 1 ELSE 0]

(* Mutant of Unacknowledged: the iterator consumes with no_ack. *)
UnacknowledgedNever(c) == {}

(* What the broker has delivered to c and not heard of again. *)
Holding(c) == IF inHand[c] = None \/ c \in lostLink THEN {} ELSE {inHand[c]}
Unacknowledged(c) == buffer[c] \cup Holding(c)

-----------------------------------------------------------------------------
(* The consumer. *)

Start(c) ==
  /\ task[c] = "stopped"
  /\ task' = [task EXCEPT ![c] = "consuming"]
  /\ UNCHANGED <<sent, queue, buffer, inHand, finished, lostLink, handled,
                 failed, rejected, returns>>

(* `async for message in messages` *)
Take(c, m) ==
  /\ task[c] = "consuming"
  /\ inHand[c] = None
  /\ m \in buffer[c]
  /\ inHand' = [inHand EXCEPT ![c] = m]
  /\ buffer' = [buffer EXCEPT ![c] = @ \ {m}]
  /\ UNCHANGED <<sent, queue, task, finished, lostLink, handled, failed,
                 rejected, returns>>

(* deserialize and publish succeed. *)
Dispatch(c) ==
  /\ inHand[c] # None
  /\ c \notin finished
  /\ handled' = [handled EXCEPT ![inHand[c]] = @ + 1]
  /\ finished' = finished \cup {c}
  /\ UNCHANGED <<sent, queue, task, buffer, inHand, lostLink, failed,
                 rejected, returns>>

(* deserialize or a subscriber raises: logged inside the block, which then *)
(* ends like any other.                                                    *)
DispatchError(c) ==
  /\ inHand[c] # None
  /\ c \notin finished
  /\ failed' = failed \cup {inHand[c]}
  /\ finished' = finished \cup {c}
  /\ UNCHANGED <<sent, queue, task, buffer, inHand, lostLink, handled,
                 rejected, returns>>

(* c has nothing in hand any more. *)
LetGo(c) ==
  /\ inHand' = [inHand EXCEPT ![c] = None]
  /\ finished' = finished \ {c}
  /\ lostLink' = lostLink \ {c}

(* The block has ended and the channel is the one the message came by. *)
Ack(c) ==
  /\ c \in finished
  /\ c \notin lostLink
  /\ LetGo(c)
  /\ UNCHANGED <<sent, queue, task, buffer, handled, failed, rejected, returns>>

(* Mutant of AckError: the iterator is not closed and keeps its buffer. *)
AckErrorKeepsBuffer(c) ==
  /\ c \in finished
  /\ c \in lostLink
  /\ task' = [task EXCEPT ![c] = "dead"]
  /\ LetGo(c)
  /\ UNCHANGED <<sent, queue, buffer, handled, failed, rejected, returns>>

(* The channel broke meanwhile.  Where ack raises, it does so outside the  *)
(* try: the exception ends the loop, the iterator gives back what it has   *)
(* buffered, and no one starts the task again ...                          *)
AckError(c) ==
  /\ c \in finished
  /\ c \in lostLink
  /\ Requeue(buffer[c])
  /\ buffer' = [buffer EXCEPT ![c] = {}]
  /\ task' = [task EXCEPT ![c] = "dead"]
  /\ LetGo(c)
  /\ UNCHANGED <<sent, handled, failed, rejected>>

(* Mutant of AckIgnored: the message is processed again. *)
AckRetried(c) ==
  /\ c \in finished
  /\ c \in lostLink
  /\ finished' = finished \ {c}
  /\ UNCHANGED <<sent, queue, task, buffer, inHand, lostLink, handled, failed,
                 rejected, returns>>

(* ... and where the library drops the acknowledgement, the loop goes on.  *)
AckIgnored(c) ==
  /\ c \in finished
  /\ c \in lostLink
  /\ LetGo(c)
  /\ UNCHANGED <<sent, queue, task, buffer, handled, failed, rejected, returns>>

(* The connection is lost: the broker takes everything back that c has not *)
(* acknowledged.  connect_robust opens another one and consumes again.     *)
LinkLost(c) ==
  /\ task[c] = "consuming"
  /\ Requeue(Unacknowledged(c))
  /\ buffer' = [buffer EXCEPT ![c] = {}]
  /\ lostLink' = IF inHand[c] = None THEN lostLink ELSE lostLink \cup {c}
  /\ UNCHANGED <<sent, task, inHand, finished, handled, failed, rejected>>

(* stop cancels the task.  The message in hand, unless it is done with, is *)
(* rejected without requeue; the iterator gives back what it has buffered; *)
(* closing the connection returns an acknowledgement that was not sent.    *)
StopRejects(c) ==
  /\ task[c] = "consuming"
  /\ Holding(c) # {} /\ c \notin finished
  /\ rejected' = rejected \cup Holding(c)
  /\ Requeue(buffer[c])
  /\ buffer' = [buffer EXCEPT ![c] = {}]
  /\ task' = [task EXCEPT ![c] = "stopped"]
  /\ LetGo(c)
  /\ UNCHANGED <<sent, handled, failed>>

(* Mutant of Stop: the buffer outlives the connection. *)
StopKeepsBuffer(c) ==
  /\ task[c] # "stopped"
  /\ Holding(c) = {} \/ c \in finished
  /\ Requeue(Unacknowledged(c))
  /\ task' = [task EXCEPT ![c] = "stopped"]
  /\ LetGo(c)
  /\ UNCHANGED <<sent, buffer, handled, failed, rejected>>

(* stop, when no message is in hand or its block has ended. *)
Stop(c) ==
  /\ task[c] # "stopped"
  /\ Holding(c) = {} \/ c \in finished
  /\ Requeue(Unacknowledged(c))
  /\ buffer' = [buffer EXCEPT ![c] = {}]
  /\ task' = [task EXCEPT ![c] = "stopped"]
  /\ LetGo(c)
  /\ UNCHANGED <<sent, handled, failed, rejected>>

(* The process dies and its connection with it. *)
Crash(c) ==
  /\ task[c] # "stopped"
  /\ Requeue(Unacknowledged(c))
  /\ buffer' = [buffer EXCEPT ![c] = {}]
  /\ task' = [task EXCEPT ![c] = "stopped"]
  /\ LetGo(c)
  /\ UNCHANGED <<sent, handled, failed, rejected>>

Next ==
  \/ \E m \in Messages : Send(m)
  \/ \E c \in Consumers :
       \/ \E m \in Messages : Deliver(c, m) \/ Take(c, m)
       \/ Start(c) \/ Dispatch(c) \/ DispatchError(c) \/ Ack(c) \/ AckError(c)
       \/ AckIgnored(c) \/ LinkLost(c) \/ StopRejects(c) \/ Stop(c) \/ Crash(c)

Spec == Init /\ [][Next]_vars

(* What waits is delivered, taken and processed; processing ends, and so   *)
(* does the acknowledgement.  Nothing is assumed of starts, stops, crashes *)
(* and lost connections.                                                   *)
Fairness ==
  /\ \A m \in Messages : /\ WF_vars(\E c \in Consumers : Deliver(c, m))
                        /\ WF_vars(\E c \in Consumers : Take(c, m))
  /\ \A c \in Consumers : /\ WF_vars(Dispatch(c) \/ DispatchError(c))
                         /\ WF_vars(Ack(c) \/ AckError(c) \/ AckIgnored(c))

FairSpec == Spec /\ Fairness

-----------------------------------------------------------------------------

AtBroker(m) == m \in queue \/ \E c \in Consumers : m \in Unacknowledged(c)

(* Crashes, lost connections and restarts lose nothing, in any number and  *)
(* at any moment: a message that the broker no longer has was dispatched.  *)
(* What can be lost was lost by the consumer itself: an exception caught   *)
(* inside message.process(), or a rejection when stop cancelled it.        *)
OutagesLoseNothing ==
  \A m \in sent \ (failed \cup rejected) : AtBroker(m) \/ handled[m] > 0

(* "Messages are acknowledged after successful dispatch so the broker      *)
(* re-delivers on crash (at-least-once)" (consumer/rabbitmq.py:26): what   *)
(* the broker no longer has, acknowledged or rejected, was dispatched.     *)
DispatchedAtLeastOnce == \A m \in sent : AtBroker(m) \/ handled[m] > 0

(* The broker has one copy: a message waits in the queue, or with exactly  *)
(* one consumer.                                                           *)
OneCopy ==
  \A m \in Messages, c, d \in Consumers :
    m \in Unacknowledged(c) => m \notin queue /\ (m \in Unacknowledged(d) => c = d)

(* A message is dispatched once, plus once for every time it went back to  *)
(* the queue.                                                              *)
OncePerDelivery == \A m \in Messages : handled[m] <= 1 + returns[m]

(* As long as some consumer keeps consuming, every message comes to an     *)
(* end, whatever happened to the consumers that had it before.             *)
EveryMessageEnds ==
  (\E c \in Consumers : <>[](task[c] = "consuming")) =>
    \A m \in Messages :
      (m \in sent) ~> (handled[m] > 0 \/ m \in failed \/ m \in rejected)

=============================================================================
