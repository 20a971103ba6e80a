---------------------------- MODULE KafkaConsumer ----------------------------
(***************************************************************************)
(* KafkaEventConsumer: the members of one consumer group read the          *)
(* partitions of the event topics and dispatch what they read to the       *)
(* in-process publisher.  A consumer handles one message at a time; after  *)
(* a successful dispatch it calls commit() without arguments, which        *)
(* commits its position in EVERY partition it owns.  The n-th message of   *)
(* partition p is <<p, n>>, and an offset is the number of messages before *)
(* it.  Broker and aiokafka are outside src/ and modelled from their use:  *)
(* a rebalance hands partitions to running members, and a new owner goes   *)
(* on from the committed offset.                                           *)
(***************************************************************************)
EXTENDS Naturals, FiniteSets

CONSTANTS
  Consumers,      (* members of the group                                   *)
  Partitions,     (* partitions of the topics subscribed to                 *)
  FromEnd,        (* auto_offset_reset: TRUE "latest", FALSE "earliest"     *)
  MaxMessages,    (* bound of the model: messages produced to each partition *)
  MaxRebalances,  (* bound of the model: rebalances                         *)
  None            (* no owner, no message, no committed offset              *)

ASSUME KafkaAssumption ==
  /\ IsFiniteSet(Consumers)
  /\ FromEnd \in BOOLEAN
  /\ MaxMessages \in [Partitions -> Nat]
  /\ MaxRebalances \in Nat
  /\ None \notin Consumers /\ None \notin Nat
  /\ None \notin Partitions \X Nat

VARIABLES
  running,     (* consumers whose poll task runs                            *)
  inHand,      (* inHand[c]: the message being dispatched                   *)
  dispatched,  (* consumers whose dispatch succeeded, commit is to follow   *)
  end,         (* end[p]: number of messages in partition p                 *)
  owner,       (* owner[p]: the consumer partition p is assigned to         *)
  position,    (* position[p]: offset the owner reads next                  *)
  committed,   (* committed[p]: the group's committed offset                *)
  rebalances,  (* number of rebalances                                      *)
  handled,     (* history: how often each message was dispatched            *)
  failed,      (* history: messages whose dispatch raised                   *)
  skipped      (* history: messages a first position at the end left out    *)

vars == <<running, inHand, dispatched, end, owner, position, committed,
          rebalances, handled, failed, skipped>>

Messages == UNION {{p} \X (1 .. MaxMessages[p]) : p \in Partitions}

TypeOK ==
  /\ running \subseteq Consumers
  /\ inHand \in [Consumers -> Messages \cup {None}]
  /\ dispatched \subseteq Consumers
  /\ end \in [Partitions -> Nat]
  /\ owner \in [Partitions -> Consumers \cup {None}]
  /\ position \in [Partitions -> Nat]
  /\ committed \in [Partitions -> Nat \cup {None}]
  /\ rebalances \in Nat
  /\ handled \in [Messages -> Nat]
  /\ failed \subseteq Messages
  /\ skipped \subseteq Messages

Init ==
  /\ running = {}
  /\ inHand = [c \in Consumers |-> None]
  /\ dispatched = {}
  /\ end = [p \in Partitions |-> 0]
  /\ owner = [p \in Partitions |-> None]
  /\ position = [p \in Partitions |-> 0]
  /\ committed = [p \in Partitions |-> None]
  /\ rebalances = 0
  /\ handled = [m \in Messages |-> 0]
  /\ failed = {}
  /\ skipped = {}

-----------------------------------------------------------------------------
(* The broker. *)

Produce(p) ==
  /\ end[p] < MaxMessages[p]
  /\ end' = [end EXCEPT ![p] = @ + 1]
  /\ UNCHANGED <<running, inHand, dispatched, owner, position, committed,
                 rebalances, handled, failed, skipped>>

(* Mutants of StartOffset: the beginning, or the end, always. *)
StartOffsetZero(p) == 0
StartOffsetEnd(p) == end[p]

(* Where the owner of a partition begins to read. *)
StartOffset(p) == IF committed[p] # None THEN committed[p]
                  ELSE IF FromEnd THEN end[p] ELSE 0

(* Members S share the partitions anew.  Whatever was read beyond the      *)
(* committed offsets will be read again.                                   *)
Rebalance(S) ==
  /\ rebalances < MaxRebalances
  /\ rebalances' = rebalances + 1
  /\ \/ S = {} /\ owner' = [p \in Partitions |-> None]
     \/ S # {} /\ owner' \in [Partitions -> S]
  /\ position' = [p \in Partitions |-> StartOffset(p)]
  /\ skipped' = skipped \cup {m \in Messages : /\ S # {} /\ committed[m[1]] = None
                                               /\ m[2] <= StartOffset(m[1])}

-----------------------------------------------------------------------------
(* The consumer. *)

Start(c) ==
  /\ c \notin running
  /\ running' = running \cup {c}
  /\ Rebalance(running \cup {c})
  /\ UNCHANGED <<inHand, dispatched, end, committed, handled, failed>>

(* `async for msg in self._consumer` *)
Poll(c, p) ==
  /\ c \in running
  /\ inHand[c] = None
  /\ owner[p] = c
  /\ position[p] < end[p]
  /\ position' = [position EXCEPT ![p] = @ + 1]
  /\ inHand' = [inHand EXCEPT ![c] = <<p, position[p] + 1>>]
  /\ UNCHANGED <<running, dispatched, end, owner, committed, rebalances,
                 handled, failed, skipped>>

(* deserialize and publish succeed. *)
Dispatch(c) ==
  /\ inHand[c] # None
  /\ c \notin dispatched
  /\ handled' = [handled EXCEPT ![inHand[c]] = @ + 1]
  /\ dispatched' = dispatched \cup {c}
  /\ UNCHANGED <<running, inHand, end, owner, position, committed, rebalances,
                 failed, skipped>>

(* deserialize raises, or a subscriber does: logged, and on to the next.   *)
DispatchError(c) ==
  /\ inHand[c] # None
  /\ c \notin dispatched
  /\ failed' = failed \cup {inHand[c]}
  /\ inHand' = [inHand EXCEPT ![c] = None]
  /\ UNCHANGED <<running, dispatched, end, owner, position, committed,
                 rebalances, handled, skipped>>

(* Done with the message in hand. *)
LetGo(c) ==
  /\ inHand' = [inHand EXCEPT ![c] = None]
  /\ dispatched' = dispatched \ {c}

(* Mutant of Commit: it does not wait for the dispatch. *)
CommitEarly(c) ==
  /\ inHand[c] # None
  /\ committed' = [p \in Partitions |-> IF owner[p] = c THEN position[p] ELSE committed[p]]
  /\ LetGo(c)
  /\ UNCHANGED <<running, end, owner, position, rebalances, handled, failed, skipped>>

(* await self._consumer.commit() *)
Commit(c) ==
  /\ c \in dispatched
  /\ committed' = [p \in Partitions |-> IF owner[p] = c THEN position[p] ELSE committed[p]]
  /\ LetGo(c)
  /\ UNCHANGED <<running, end, owner, position, rebalances, handled, failed, skipped>>

(* Mutant of CommitError: the message is dispatched again. *)
CommitErrorRetried(c) ==
  /\ c \in dispatched
  /\ dispatched' = dispatched \ {c}
  /\ UNCHANGED <<running, inHand, end, owner, position, committed, rebalances,
                 handled, failed, skipped>>

(* commit raises, for instance after a rebalance: logged like the others.  *)
CommitError(c) ==
  /\ c \in dispatched
  /\ LetGo(c)
  /\ UNCHANGED <<running, end, owner, position, committed, rebalances,
                 handled, failed, skipped>>

(* stop cancels the task wherever it is and leaves the group; a consumer   *)
(* that crashes is thrown out of it.                                       *)
Stop(c) ==
  /\ c \in running
  /\ running' = running \ {c}
  /\ LetGo(c)
  /\ Rebalance(running \ {c})
  /\ UNCHANGED <<end, committed, handled, failed>>

(* A member was too slow, or a topic has changed. *)
Regroup ==
  /\ running # {}
  /\ Rebalance(running)
  /\ UNCHANGED <<running, inHand, dispatched, end, committed, handled, failed>>

Next ==
  \/ \E p \in Partitions : Produce(p)
  \/ \E c \in Consumers :
       \/ Start(c) \/ Stop(c)
       \/ \E p \in Partitions : Poll(c, p)
       \/ Dispatch(c) \/ DispatchError(c) \/ Commit(c) \/ CommitError(c)
  \/ Regroup

Spec == Init /\ [][Next]_vars

(* A message that was taken is dispatched, or raises, and the commit that  *)
(* follows is answered, or raises; what is there to read is read.  Nothing *)
(* is assumed of starts, stops and rebalances.                             *)
Fairness ==
  /\ \A p \in Partitions : WF_vars(\E c \in Consumers : Poll(c, p))
  /\ \A c \in Consumers : /\ WF_vars(Dispatch(c) \/ DispatchError(c))
                         /\ WF_vars(Commit(c) \/ CommitError(c))

FairSpec == Spec /\ Fairness

-----------------------------------------------------------------------------

Settled(m) == handled[m] > 0 \/ m \in failed \/ m \in skipped

UpToCommitted(p) == {m \in Messages : m[1] = p /\ committed[p] # None /\ m[2] <= committed[p]}

(* "Offsets are committed after successful dispatch (at-least-once)"       *)
(* (kafka.py:24): no committed offset lies beyond a message that was read  *)
(* but never dispatched.                                                   *)
CommittedWasDispatched ==
  \A p \in Partitions : \A m \in UpToCommitted(p) : handled[m] > 0 \/ m \in skipped

(* The committed offset never passes a message that is still in hand or    *)
(* unread: a consumer that dies loses nothing but what raised before, or   *)
(* what it skipped by starting at the end (kafka.py:135-142).              *)
CommittedIsSettled ==
  \A p \in Partitions : \A m \in UpToCommitted(p) : Settled(m)

(* A message is dispatched at most once per assignment of its partition,   *)
(* so duplicates come from rebalances alone.                               *)
OncePerAssignment == \A m \in Messages : handled[m] <= rebalances

(* The committed offset of a partition never goes back, whichever owner    *)
(* commits, however late.                                                  *)
OffsetsForward ==
  [][\A p \in Partitions :
       committed[p] # None => committed'[p] # None /\ committed'[p] >= committed[p]]_vars

(* The first dispatch of a message does not overtake an earlier message of *)
(* its partition that is still to be settled.                              *)
PartitionOrder ==
  [][\A m \in Messages :
       handled[m] = 0 /\ handled'[m] > 0
         => \A k \in 1 .. m[2] - 1 : Settled(<<m[1], k>>)]_vars

(* As long as some consumer keeps running, every message is settled in the *)
(* end, whatever rebalances and failures came before.                      *)
EverythingIsSettled ==
  <>[](running # {}) =>
    \A m \in Messages : (m[2] <= end[m[1]]) ~> Settled(m)

=============================================================================
