---------------------------- MODULE EventDelivery ----------------------------
(***************************************************************************)
(* What the event infrastructure promises to those who subscribe to domain *)
(* events: the events of a command are recorded all at once or not at all, *)
(* only recorded events are received, and what was received stays so.  A   *)
(* redelivery is a stutter: delivery is at least once.                     *)
(***************************************************************************)
CONSTANTS
  Events,    (* the domain events                                          *)
  Commands,  (* the commands that record them                              *)
  EventsOf   (* EventsOf[c]: the events command c records                  *)

VARIABLES
  recorded,  (* events of committed commands                               *)
  received   (* events that subscribers have seen                          *)

Init == recorded = {} /\ received = {}

Record(c) ==
  /\ EventsOf[c] \cap recorded = {}
  /\ recorded' = recorded \cup EventsOf[c]
  /\ UNCHANGED received

Receive(e) ==
  /\ e \in recorded
  /\ received' = received \cup {e}
  /\ UNCHANGED recorded

Next == (\E c \in Commands : Record(c)) \/ (\E e \in Events : Receive(e))

Spec == Init /\ [][Next]_<<recorded, received>>

(* Every recorded event is received in the end. *)
FairSpec == Spec /\ \A e \in Events : WF_<<recorded, received>>(Receive(e))

=============================================================================
