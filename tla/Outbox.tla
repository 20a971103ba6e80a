------------------------------- MODULE Outbox -------------------------------
(***************************************************************************)
(* The transactional outbox as the application runs it: the units of work  *)
(* of the command handlers, the table, and the relays.  A worker process   *)
(* runs its share of the commands and one relay.  lifespan starts the      *)
(* relay before the first request and stops it after the last; a process   *)
(* may also die, with everything it has in hand.                           *)
(*                                                                         *)
(* The container constructs every unit of work with use_outbox=True.  The  *)
(* other mode of the class is left open for each unit: its events reach    *)
(* the subscribers without row and relay, and share nothing but the        *)
(* promise with those of the outbox.                                       *)
(***************************************************************************)
EXTENDS UnitOfWork, OutboxRelay

CONSTANTS
  Host          (* Host[c]: the worker that executes command c              *)

ASSUME HostAssumption == Host \in [Commands -> Workers]

vars == <<tableVars, uowVars, relayVars>>

TypeOK == TableTypeOK /\ UowTypeOK /\ RelayTypeOK

Init == TableInit /\ UowInit /\ RelayInit

Busy(w) == \E c \in Commands : Host[c] = w /\ InFlight(c)

(* A step of a command; none begins before the relay of its process runs. *)
CommandStep(c) ==
  /\ UowStep(c)
  /\ relay[Host[c]] # "stopped"
  /\ UNCHANGED relayVars

StartWorker(w) == Start(w) /\ UNCHANGED uowVars

(* Shutdown: the server has answered its requests before relay.stop runs. *)
StopWorker(w) == ~Busy(w) /\ Stop(w) /\ UNCHANGED uowVars

(* The process dies: the database rolls back the transaction of its relay  *)
(* and those of its commands.                                              *)
Crash(w) ==
  LET dead == {c \in Commands : Host[c] = w /\ InFlight(c)} IN
  /\ relay[w] # "stopped"
  /\ RollbackBatch(w, "stopped")
  /\ uow' = [c \in Commands |-> IF c \in dead THEN "failed" ELSE uow[c]]
  /\ pending' = [c \in Commands |-> IF c \in dead THEN {} ELSE pending[c]]
  /\ handled' = [c \in Commands |-> IF c \in dead THEN {} ELSE handled[c]]
  /\ staged' = [c \in Commands |-> IF c \in dead THEN {} ELSE staged[c]]
  /\ dirty' = [c \in Commands |-> IF c \in dead THEN FALSE ELSE dirty[c]]
  /\ UNCHANGED <<useOutbox, durable>>

(* The turn of row e in the loop over the batch. *)
Turn(w, e) == Publish(w, e) \/ SkipRow(w, e) \/ SkipDelivered(w, e)

RelayStep(w) ==
  /\ \/ Fetch(w)
     \/ \E e \in Events : Turn(w, e)
     \/ CommitBatch(w)
     \/ PollError(w)
  /\ UNCHANGED uowVars

Next ==
  \/ \E c \in Commands : CommandStep(c)
  \/ \E w \in Workers : StartWorker(w) \/ StopWorker(w) \/ Crash(w) \/ RelayStep(w)

Spec == Init /\ [][Next]_vars

(***************************************************************************)
(* Fairness.  Restarts, errors of the database and of the publisher may    *)
(* interrupt the relays again and again, but not for ever at the same      *)
(* place: some worker is started, some relay gets to poll, the turn of a   *)
(* row that comes up without end is at last taken without an error from    *)
(* outside (the event is published if it can be deserialized and passed    *)
(* over if not), and so is the commit of a relay.  Nothing is assumed of   *)
(* the commands.                                                           *)
(***************************************************************************)
Settle(w, e) == IF CanDeserialize(e) THEN Publish(w, e) ELSE SkipRow(w, e)

Fairness ==
  /\ WF_vars(\E w \in Workers : StartWorker(w))
  /\ SF_vars((\E w \in Workers : Fetch(w)) /\ UNCHANGED uowVars)
  /\ \A e \in Events : SF_vars((\E w \in Workers : Settle(w, e)) /\ UNCHANGED uowVars)
  /\ \A w \in Workers : SF_vars(CommitBatch(w) /\ UNCHANGED uowVars)

FairSpec == Spec /\ Fairness

-----------------------------------------------------------------------------

(* "If the transaction commits, the event row is durable, the relay will   *)
(* dispatch it" (outbox_publisher.py:8), for every event.                  *)
CommittedIsDispatched ==
  \A c \in Commands : \A e \in EventsOf[c] :
    (useOutbox[c] /\ c \in durable) ~> (delivered[e] > 0)

(* The same for the events that the registry knows. *)
RegisteredIsDispatched ==
  \A c \in Commands : \A e \in EventsOf[c] \cap Registered :
    (useOutbox[c] /\ c \in durable) ~> (delivered[e] > 0)

(* And the row is eventually marked, so that redelivery comes to an end.   *)
RegisteredIsPublished ==
  \A e \in Registered : (e \in rows) ~> (e \in publishedAt)

-----------------------------------------------------------------------------

(* What the outbox promises, told without rows, batches and workers. *)
Promise == INSTANCE EventDelivery WITH
             recorded <- UNION {EventsOf[c] : c \in durable},
             received <- {e \in Events : delivered[e] > 0}

RefinesDelivery == Promise!Spec

=============================================================================
