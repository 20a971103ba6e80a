----------------------------- MODULE OutboxTable -----------------------------
(***************************************************************************)
(* The state that the unit of work and the outbox relay share: the         *)
(* committed rows of the `outbox` table (OutboxORM) and what the           *)
(* downstream publisher has been given.  UnitOfWork inserts rows,          *)
(* OutboxRelay reads them and marks them.                                  *)
(*                                                                         *)
(* An event stands for one DomainEvent object, told apart by its event_id; *)
(* its payload is abstracted away.  Of the type of an event only one thing *)
(* matters here: whether its class is in EVENT_REGISTRY, for deserialize   *)
(* raises KeyError on the others.                                          *)
(***************************************************************************)
EXTENDS Naturals, FiniteSets

CONSTANTS
  Events,      (* the domain events that commands can record              *)
  Registered   (* those whose class EVENT_REGISTRY lists (the item events) *)

ASSUME EventsAssumption == /\ IsFiniteSet(Events)
                           /\ Registered \subseteq Events

VARIABLES
  rows,        (* events whose outbox row is committed                     *)
  publishedAt, (* rows whose published_at is not NULL, as committed        *)
  createdAt,   (* created_at of a row, from the time it is staged; 0: none *)
  now,         (* clock that created_at is read from                       *)
  delivered    (* history: how often each event reached the subscribers    *)

tableVars == <<rows, publishedAt, createdAt, now, delivered>>

TableTypeOK ==
  /\ rows \in SUBSET Events
  /\ publishedAt \in SUBSET Events
  /\ createdAt \in [Events -> Nat]
  /\ now \in Nat
  /\ delivered \in [Events -> Nat]

TableInit ==
  /\ rows = {}
  /\ publishedAt = {}
  /\ createdAt = [e \in Events |-> 0]
  /\ now = 0
  /\ delivered = [e \in Events |-> 0]

(* deserialize finds the event's class in the registry. *)
CanDeserialize(e) == e \in Registered

(* Subscribers get event e; times is 0 when publish raised before anything *)
(* reached them.                                                           *)
Deliver(e, times) == delivered' = [delivered EXCEPT ![e] = @ + times]

=============================================================================
