------------------------- MODULE KafkaConsumerProof -------------------------
(***************************************************************************)
(* Proofs about module KafkaConsumer, for every set of partitions, every   *)
(* finite group of consumers, both offset resets and every bound on        *)
(* messages and rebalances.                                                *)
(***************************************************************************)
EXTENDS KafkaConsumer, FiniteSetTheorems, TLAPS

-----------------------------------------------------------------------------
(* The inductive invariant. *)

OffsetInv ==
  \A p \in Partitions : /\ end[p] <= MaxMessages[p]
                        /\ position[p] <= end[p]
                        /\ committed[p] # None => committed[p] <= position[p]

(* The commit follows a dispatch. *)
HandInv == \A c \in dispatched : inHand[c] # None /\ handled[inHand[c]] > 0

(* What the owner of a partition has read is settled or in its hands.      *)
ReadInv ==
  \A m \in Messages :
    owner[m[1]] # None /\ m[2] <= position[m[1]]
      => Settled(m) \/ inHand[owner[m[1]]] = m

(* What lies before a message in hand is settled, also when its partition  *)
(* has got another owner.                                                  *)
BeforeInv ==
  \A c \in Consumers :
    inHand[c] # None => \A k \in 1 .. inHand[c][2] - 1 : Settled(<<inHand[c][1], k>>)

Inv == TypeOK /\ OffsetInv /\ HandInv /\ ReadInv /\ BeforeInv /\ CommittedIsSettled

(* Consumers that have yet to dispatch m; and whether the owner will.      *)
Reading(m) == {c \in Consumers : inHand[c] = m /\ c \notin dispatched}
Unread(m) == owner[m[1]] # None /\ position[m[1]] < m[2]
ToCome(m) == Cardinality(Reading(m)) + IF Unread(m) THEN 1 ELSE 0

CountInv == \A m \in Messages : handled[m] + ToCome(m) <= rebalances

IInv == Inv /\ CountInv

-----------------------------------------------------------------------------
(* Messages, and what a rebalance does. *)

LEMMA MessageShape ==
  ASSUME NEW m \in Messages
  PROVE  /\ m[1] \in Partitions
         /\ m[2] \in 1 .. MaxMessages[m[1]]
         /\ m = <<m[1], m[2]>>
         /\ m # None
  BY KafkaAssumption DEF Messages

LEMMA IsMessage ==
  ASSUME NEW p \in Partitions, NEW n \in 1 .. MaxMessages[p]
  PROVE  <<p, n>> \in Messages
  BY DEF Messages

LEMMA StartOffsetInv ==
  ASSUME TypeOK, OffsetInv, NEW p \in Partitions
  PROVE  /\ StartOffset(p) \in Nat
         /\ StartOffset(p) <= end[p]
         /\ committed[p] # None => StartOffset(p) = committed[p]
  BY KafkaAssumption DEF TypeOK, OffsetInv, StartOffset

LEMMA RebalanceType ==
  ASSUME TypeOK, OffsetInv, NEW S \in SUBSET Consumers, Rebalance(S)
  PROVE  /\ (owner \in [Partitions -> Consumers \cup {None}])'
         /\ (position \in [Partitions -> Nat])'
         /\ (rebalances \in Nat)'
         /\ (skipped \subseteq Messages)'
         /\ rebalances' = rebalances + 1
         /\ skipped \subseteq skipped'
  <1>1. owner' \in [Partitions -> Consumers \cup {None}]
    BY DEF Rebalance
  <1>2. position' \in [Partitions -> Nat]
    BY StartOffsetInv DEF Rebalance
  <1>3. rebalances' \in Nat /\ rebalances' = rebalances + 1
    BY DEF TypeOK, Rebalance
  <1>4. skipped' \subseteq Messages /\ skipped \subseteq skipped'
    BY DEF TypeOK, Rebalance
  <1>5. QED
    BY <1>1, <1>2, <1>3, <1>4

LEMMA NextTypeOK ==
  ASSUME TypeOK, OffsetInv, [Next]_vars
  PROVE  TypeOK'
  <1> USE DEF TypeOK
  <1>1. ASSUME NEW p \in Partitions, Produce(p) PROVE TypeOK'
    BY <1>1 DEF Produce
  <1>2. ASSUME NEW c \in Consumers, Start(c) PROVE TypeOK'
    BY <1>2, RebalanceType DEF Start
  <1>3. ASSUME NEW c \in Consumers, Stop(c) PROVE TypeOK'
    BY <1>3, RebalanceType DEF Stop, LetGo
  <1>4. ASSUME NEW c \in Consumers, NEW p \in Partitions, Poll(c, p) PROVE TypeOK'
    <2>1. position[p] + 1 \in 1 .. MaxMessages[p]
      <3>1. position[p] \in Nat /\ end[p] \in Nat /\ MaxMessages[p] \in Nat
        BY KafkaAssumption
      <3>2. position[p] < end[p] /\ end[p] <= MaxMessages[p]
        BY <1>4 DEF Poll, OffsetInv
      <3>3. QED
        BY <3>1, <3>2
    <2>2. <<p, position[p] + 1>> \in Messages
      BY <2>1, IsMessage
    <2>3. PICK m \in Messages : inHand' = [inHand EXCEPT ![c] = m]
      <3>1. inHand' = [inHand EXCEPT ![c] = <<p, position[p] + 1>>]
        BY <1>4 DEF Poll
      <3>2. QED
        BY <2>2, <3>1, Zenon
    <2>4. position' \in [Partitions -> Nat]
      BY <1>4 DEF Poll
    <2>5. QED
      BY <1>4, <2>3, <2>4 DEF Poll
  <1>5. ASSUME NEW c \in Consumers, Dispatch(c) PROVE TypeOK'
    BY <1>5 DEF Dispatch
  <1>6. ASSUME NEW c \in Consumers, DispatchError(c) PROVE TypeOK'
    BY <1>6 DEF DispatchError
  <1>7. ASSUME NEW c \in Consumers, Commit(c) \/ CommitError(c) PROVE TypeOK'
    BY <1>7 DEF Commit, CommitError, LetGo
  <1>8. CASE Regroup
    BY <1>8, RebalanceType DEF Regroup
  <1>9. CASE UNCHANGED vars
    BY <1>9 DEF vars
  <1>10. QED
    BY <1>1, <1>2, <1>3, <1>4, <1>5, <1>6, <1>7, <1>8, <1>9 DEF Next

LEMMA InitIInv == Init => IInv
  <1> SUFFICES ASSUME Init PROVE IInv
    OBVIOUS
  <1>1. TypeOK
    BY DEF Init, TypeOK
  <1>2. OffsetInv
    BY KafkaAssumption DEF Init, OffsetInv
  <1>3. HandInv /\ BeforeInv
    BY DEF Init, HandInv, BeforeInv
  <1>4. ReadInv /\ CommittedIsSettled
    BY MessageShape DEF Init, ReadInv, CommittedIsSettled, UpToCommitted
  <1>5. ASSUME NEW m \in Messages PROVE handled[m] + ToCome(m) <= rebalances
    <2>1. Reading(m) = {}
      BY MessageShape DEF Init, Reading
    <2>2. QED
      BY <2>1, FS_EmptySet, MessageShape DEF Init, ToCome, Unread
  <1>6. QED
    BY <1>1, <1>2, <1>3, <1>4, <1>5 DEF IInv, Inv, CountInv

-----------------------------------------------------------------------------
(* What is settled stays settled, and offsets do not pass the rest.        *)

LEMMA SettledStays ==
  ASSUME Inv, [Next]_vars, NEW m \in Messages, Settled(m)
  PROVE  Settled(m)'
  <1> USE DEF Inv
  <1>1. ASSUME NEW S \in SUBSET Consumers, Rebalance(S), UNCHANGED <<handled, failed>>
        PROVE  Settled(m)'
    BY <1>1, RebalanceType DEF Settled
  <1>2. CASE UNCHANGED <<handled, failed, skipped>>
    BY <1>2 DEF Settled
  <1>3. ASSUME NEW c \in Consumers, Dispatch(c) PROVE Settled(m)'
    BY <1>3 DEF Dispatch, Settled, TypeOK
  <1>4. ASSUME NEW c \in Consumers, DispatchError(c) PROVE Settled(m)'
    BY <1>4 DEF DispatchError, Settled
  <1>5. ASSUME NEW c \in Consumers, Start(c) \/ Stop(c) PROVE Settled(m)'
    <2>1. PICK S \in SUBSET Consumers : Rebalance(S)
      BY <1>5 DEF Start, Stop, TypeOK
    <2>2. QED
      BY <1>1, <1>5, <2>1 DEF Start, Stop
  <1>6. CASE Regroup
    BY <1>1, <1>6 DEF Regroup, TypeOK
  <1>7. QED
    BY <1>2, <1>3, <1>4, <1>5, <1>6 DEF Next, vars, Produce, Poll, Commit, CommitError

(* After a rebalance the owners begin at what is settled or skipped.       *)
LEMMA RebalanceInv ==
  ASSUME Inv, NEW S \in SUBSET Consumers, Rebalance(S), [Next]_vars,
         UNCHANGED <<end, committed, handled, failed>>
  PROVE  OffsetInv' /\ ReadInv' /\ CommittedIsSettled'
  <1> USE DEF Inv
  <1>1. OffsetInv'
    BY StartOffsetInv DEF Rebalance, OffsetInv
  <1>2. ASSUME NEW m \in Messages, (owner[m[1]] # None /\ m[2] <= position[m[1]])'
        PROVE  Settled(m)'
    <2> DEFINE p == m[1]
    <2>1. p \in Partitions /\ m[2] \in Nat /\ m = <<p, m[2]>>
      BY MessageShape, KafkaAssumption
    <2>2. S # {}
      BY <1>2, <2>1, KafkaAssumption DEF Rebalance
    <2>3. m[2] <= StartOffset(p)
      BY <1>2, <2>1 DEF Rebalance
    <2>4. CASE committed[p] = None
      BY <2>1, <2>2, <2>3, <2>4 DEF Rebalance, Settled
    <2>5. CASE committed[p] # None
      <3>1. m \in UpToCommitted(p)
        BY <2>3, <2>5, <2>1, StartOffsetInv DEF UpToCommitted
      <3>2. Settled(m)
        BY <2>1, <3>1 DEF CommittedIsSettled
      <3>3. QED
        BY <3>2, SettledStays
    <2>6. QED
      BY <2>4, <2>5
  <1>3. ReadInv'
    BY <1>2 DEF ReadInv
  <1>4. CommittedIsSettled'
    BY SettledStays DEF CommittedIsSettled, UpToCommitted
  <1>5. QED
    BY <1>1, <1>3, <1>4

LEMMA NextOffsetInv ==
  ASSUME Inv, [Next]_vars
  PROVE  OffsetInv'
  <1> USE KafkaAssumption DEF Inv, TypeOK, OffsetInv
  <1>1. ASSUME NEW p \in Partitions, Produce(p) PROVE OffsetInv'
    BY <1>1 DEF Produce
  <1>2. ASSUME NEW c \in Consumers, NEW p \in Partitions, Poll(c, p) PROVE OffsetInv'
    BY <1>2 DEF Poll
  <1>3. ASSUME NEW c \in Consumers, Commit(c) PROVE OffsetInv'
    BY <1>3 DEF Commit
  <1>4. ASSUME NEW S \in SUBSET Consumers, Rebalance(S),
               UNCHANGED <<end, committed, handled, failed>>
        PROVE  OffsetInv'
    BY <1>4, RebalanceInv
  <1>5. CASE UNCHANGED <<end, position, committed>>
    BY <1>5
  <1>6. ASSUME NEW c \in Consumers, Start(c) \/ Stop(c) PROVE OffsetInv'
    <2>1. PICK S \in SUBSET Consumers : Rebalance(S)
      BY <1>6 DEF Start, Stop
    <2>2. QED
      BY <1>4, <1>6, <2>1 DEF Start, Stop
  <1>7. CASE Regroup
    BY <1>4, <1>7 DEF Regroup
  <1>8. QED
    BY <1>1, <1>2, <1>3, <1>5, <1>6, <1>7
       DEF Next, vars, Dispatch, DispatchError, CommitError

LEMMA NextHandInv ==
  ASSUME Inv, [Next]_vars
  PROVE  HandInv'
  <1> USE DEF Inv, TypeOK, HandInv
  <1>1. ASSUME NEW c \in Consumers, Dispatch(c) PROVE HandInv'
    BY <1>1 DEF Dispatch
  <1>2. ASSUME NEW c \in Consumers, Commit(c) \/ CommitError(c) \/ Stop(c) PROVE HandInv'
    BY <1>2 DEF Commit, CommitError, Stop, LetGo
  <1>3. ASSUME NEW c \in Consumers, DispatchError(c) PROVE HandInv'
    BY <1>3 DEF DispatchError
  <1>4. ASSUME NEW c \in Consumers, NEW p \in Partitions, Poll(c, p) PROVE HandInv'
    BY <1>4 DEF Poll
  <1>5. CASE UNCHANGED <<inHand, dispatched, handled>>
    BY <1>5
  <1>6. QED
    BY <1>1, <1>2, <1>3, <1>4, <1>5 DEF Next, vars, Produce, Start, Regroup

(* Only a consumer that lets go of what it had makes it unread again, and  *)
(* then it is settled.                                                     *)
LEMMA NextReadInv ==
  ASSUME Inv, [Next]_vars
  PROVE  ReadInv'
  <1> USE DEF Inv
  <1>1. ASSUME NEW c \in Consumers, NEW p \in Partitions, Poll(c, p),
               NEW m \in Messages, (owner[m[1]] # None /\ m[2] <= position[m[1]])'
        PROVE  Settled(m)' \/ (inHand[owner[m[1]]] = m)'
    <2> USE DEF TypeOK
    <2>1. m[1] \in Partitions /\ m[2] \in Nat /\ m = <<m[1], m[2]>>
      BY MessageShape, KafkaAssumption
    <2>2. owner' = owner /\ inHand' = [inHand EXCEPT ![c] = <<p, position[p] + 1>>]
      BY <1>1 DEF Poll
    <2>3. CASE m[1] = p /\ m[2] = position[p] + 1
      BY <1>1, <2>1, <2>2, <2>3 DEF Poll
    <2>4. CASE ~(m[1] = p /\ m[2] = position[p] + 1)
      <3>1. m[2] <= position[m[1]]
        BY <1>1, <2>1, <2>4 DEF Poll
      <3>2. Settled(m) \/ inHand[owner[m[1]]] = m
        BY <1>1, <2>2, <3>1 DEF ReadInv
      <3>3. inHand[owner[m[1]]] = m => owner[m[1]] # c
        BY <1>1, MessageShape DEF Poll
      <3>4. QED
        BY <1>1, <2>1, <2>2, <3>2, <3>3, SettledStays
    <2>5. QED
      BY <2>3, <2>4
  <1>2. ASSUME NEW c \in Consumers, DispatchError(c) \/ Commit(c) \/ CommitError(c),
               NEW m \in Messages, (owner[m[1]] # None /\ m[2] <= position[m[1]])'
        PROVE  Settled(m)' \/ (inHand[owner[m[1]]] = m)'
    <2>1. owner' = owner /\ position' = position
      BY <1>2 DEF DispatchError, Commit, CommitError
    <2>2. Settled(m) \/ inHand[owner[m[1]]] = m
      BY <1>2, <2>1 DEF ReadInv
    <2>3. m[1] \in Partitions /\ owner[m[1]] \in Consumers
      BY <1>2, <2>1, MessageShape DEF TypeOK
    <2>4. CASE Settled(m)
      BY <2>4, SettledStays
    <2>5. CASE owner[m[1]] = c /\ inHand[c] = m
      <3>1. CASE DispatchError(c)
        BY <2>5, <3>1 DEF DispatchError, Settled
      <3>2. CASE Commit(c) \/ CommitError(c)
        BY <2>5, <3>2, SettledStays DEF Commit, CommitError, HandInv, Settled
      <3>3. QED
        BY <1>2, <3>1, <3>2
    <2>6. CASE owner[m[1]] # c /\ inHand[owner[m[1]]] = m
      BY <1>2, <2>1, <2>3, <2>6 DEF DispatchError, Commit, CommitError, LetGo, TypeOK
    <2>7. QED
      BY <2>2, <2>4, <2>5, <2>6
  <1>3. CASE UNCHANGED <<owner, position, inHand>>
    BY <1>3, SettledStays DEF ReadInv
  <1>4. ASSUME NEW c \in Consumers, Start(c) \/ Stop(c) PROVE ReadInv'
    <2>1. PICK S \in SUBSET Consumers : Rebalance(S)
      BY <1>4 DEF Start, Stop, TypeOK
    <2>2. QED
      BY <1>4, <2>1, RebalanceInv DEF Start, Stop
  <1>5. CASE Regroup
    BY <1>5, RebalanceInv DEF Regroup, TypeOK
  <1>6. QED
    BY <1>1, <1>2, <1>3, <1>4, <1>5 DEF Next, vars, Produce, Dispatch, ReadInv

LEMMA NextBeforeInv ==
  ASSUME Inv, [Next]_vars
  PROVE  BeforeInv'
  <1> USE DEF Inv
  <1>1. ASSUME NEW c \in Consumers, inHand'[c] = inHand[c] \/ inHand'[c] = None,
               inHand'[c] # None, NEW k \in 1 .. inHand'[c][2] - 1
        PROVE  Settled(<<inHand[c][1], k>>)'
    <2>1. inHand[c] \in Messages /\ inHand'[c] = inHand[c]
      BY <1>1 DEF TypeOK
    <2>2. <<inHand[c][1], k>> \in Messages
      <3>1. k \in 1 .. MaxMessages[inHand[c][1]] /\ inHand[c][1] \in Partitions
        BY <1>1, <2>1, MessageShape, KafkaAssumption
      <3>2. QED
        BY <3>1, IsMessage
    <2>3. Settled(<<inHand[c][1], k>>)
      BY <1>1, <2>1 DEF BeforeInv
    <2>4. QED
      BY <2>1, <2>2, <2>3, SettledStays
  <1>2. ASSUME NEW c \in Consumers, NEW p \in Partitions, Poll(c, p),
               NEW k \in 1 .. position[p]
        PROVE  Settled(<<p, k>>)'
    <2> DEFINE m == <<p, k>>
    <2>1. m \in Messages /\ m[1] = p /\ m[2] = k
      <3>1. position[p] \in Nat /\ end[p] \in Nat /\ MaxMessages[p] \in Nat
        BY KafkaAssumption DEF TypeOK
      <3>2. k \in 1 .. MaxMessages[p]
        BY <3>1 DEF OffsetInv
      <3>3. QED
        BY <3>2, IsMessage
    <2>2. owner[p] = c /\ c # None /\ inHand[c] = None
      BY <1>2, KafkaAssumption DEF Poll
    <2>3. k <= position[p]
      BY DEF TypeOK
    <2>4. Settled(m) \/ inHand[c] = m
      BY <2>1, <2>2, <2>3 DEF ReadInv
    <2>5. Settled(m)
      BY <2>1, <2>2, <2>4, MessageShape
    <2>6. QED
      BY <2>1, <2>5, SettledStays
  <1>3. ASSUME NEW c \in Consumers, NEW p \in Partitions, Poll(c, p) PROVE BeforeInv'
    <2> SUFFICES ASSUME NEW d \in Consumers, inHand'[d] # None,
                        NEW k \in 1 .. inHand'[d][2] - 1
                 PROVE  Settled(<<inHand[d][1], k>>)'
      BY DEF BeforeInv
    <2>1. inHand' = [inHand EXCEPT ![c] = <<p, position[p] + 1>>]
      BY <1>3 DEF Poll
    <2>2. CASE d = c
      <3>1. inHand'[d] = <<p, position[p] + 1>>
        BY <2>1, <2>2 DEF TypeOK
      <3>2. k \in 1 .. position[p]
        BY <3>1 DEF TypeOK
      <3>3. QED
        BY <1>2, <1>3, <3>1, <3>2
    <2>3. CASE d # c
      BY <1>1, <2>1, <2>3 DEF TypeOK
    <2>4. QED
      BY <2>2, <2>3
  <1>4. CASE \A c \in Consumers : inHand'[c] = inHand[c] \/ inHand'[c] = None
    BY <1>1, <1>4 DEF BeforeInv
  <1>5. QED
    BY <1>3, <1>4 DEF Next, vars, TypeOK, Produce, Start, Stop, LetGo, Dispatch,
       DispatchError, Commit, CommitError, Regroup

(* The position that is committed lies behind what the owner has read, and *)
(* what it has in hand it has dispatched.                                  *)
LEMMA NextCommitted ==
  ASSUME Inv, [Next]_vars
  PROVE  CommittedIsSettled'
  <1> USE DEF Inv
  <1>1. ASSUME UNCHANGED committed PROVE CommittedIsSettled'
    BY <1>1, SettledStays DEF CommittedIsSettled, UpToCommitted
  <1>2. ASSUME NEW c \in Consumers, Commit(c) PROVE CommittedIsSettled'
    <2> SUFFICES ASSUME NEW p \in Partitions, NEW m \in UpToCommitted(p)' PROVE Settled(m)'
      BY DEF CommittedIsSettled
    <2>1. m \in Messages /\ m[1] = p /\ committed'[p] # None /\ m[2] <= committed'[p]
      BY DEF UpToCommitted
    <2>2. committed'[p] = IF owner[p] = c THEN position[p] ELSE committed[p]
      BY <1>2 DEF Commit
    <2>3. CASE owner[p] = c
      <3>1. Settled(m) \/ inHand[c] = m
        BY <2>1, <2>2, <2>3, KafkaAssumption DEF ReadInv
      <3>2. Settled(m)
        BY <1>2, <3>1 DEF Commit, HandInv, Settled
      <3>3. QED
        BY <2>1, <3>2, SettledStays
    <2>4. CASE owner[p] # c
      <3>1. Settled(m)
        BY <2>1, <2>2, <2>4 DEF CommittedIsSettled, UpToCommitted
      <3>2. QED
        BY <2>1, <3>1, SettledStays
    <2>5. QED
      BY <2>3, <2>4
  <1>3. QED
    BY <1>1, <1>2 DEF Next, vars, Produce, Start, Stop, Poll, Dispatch, DispatchError,
       CommitError, Regroup

LEMMA NextInv ==
  ASSUME Inv, [Next]_vars
  PROVE  Inv'
  BY NextTypeOK, NextOffsetInv, NextHandInv, NextReadInv, NextBeforeInv, NextCommitted
     DEF Inv

-----------------------------------------------------------------------------
(* How often messages are dispatched. *)

LEMMA ReadingFinite ==
  ASSUME NEW m
  PROVE  IsFiniteSet(Reading(m)) /\ Cardinality(Reading(m)) \in Nat
  BY KafkaAssumption, FS_Subset, FS_CardinalityType DEF Reading

(* A step after which m is less to come, and no more often dispatched. *)
LEMMA CountShrinks ==
  ASSUME IInv, NEW m \in Messages,
         Reading(m)' \subseteq Reading(m),
         handled'[m] = handled[m],
         \/ rebalances' = rebalances /\ (Unread(m)' => Unread(m))
         \/ rebalances' = rebalances + 1
  PROVE  (handled[m] + ToCome(m) <= rebalances)'
  <1>1. /\ Cardinality(Reading(m)) \in Nat
        /\ Cardinality(Reading(m)') \in Nat
        /\ Cardinality(Reading(m)') <= Cardinality(Reading(m))
    BY ReadingFinite, FS_Subset, FS_CardinalityType
  <1>2. handled[m] \in Nat /\ rebalances \in Nat
    BY DEF IInv, Inv, TypeOK
  <1>3. handled[m] + Cardinality(Reading(m)) + (IF Unread(m) THEN 1 ELSE 0) <= rebalances
    BY <1>1, <1>2 DEF IInv, CountInv, ToCome
  <1>4. QED
    BY <1>1, <1>2, <1>3 DEF ToCome

(* What c has in hand is one message to come fewer, and one dispatch more. *)
LEMMA CountDispatch ==
  ASSUME IInv, NEW c \in Consumers, Dispatch(c), NEW m \in Messages
  PROVE  (handled[m] + ToCome(m) <= rebalances)'
  <1> USE DEF IInv, Inv, TypeOK
  <1>1. Unread(m)' = Unread(m) /\ rebalances' = rebalances
    BY DEF Dispatch, Unread
  <1>2. CASE m = inHand[c]
    <2>1. Reading(m)' = Reading(m) \ {c} /\ c \in Reading(m)
      BY <1>2 DEF Dispatch, Reading
    <2>2. /\ Cardinality(Reading(m)) \in Nat
          /\ Cardinality(Reading(m)') = Cardinality(Reading(m)) - 1
      BY <2>1, ReadingFinite, FS_RemoveElement
    <2>3. handled'[m] = handled[m] + 1 /\ handled[m] \in Nat
      BY <1>2 DEF Dispatch
    <2>4. handled[m] + ToCome(m) <= rebalances
      BY DEF CountInv
    <2>5. QED
      BY <1>1, <2>2, <2>3, <2>4 DEF ToCome
  <1>3. CASE m # inHand[c]
    <2>1. Reading(m)' \subseteq Reading(m) /\ handled'[m] = handled[m]
      BY <1>3 DEF Dispatch, Reading
    <2>2. QED
      BY <1>1, <2>1, CountShrinks
  <1>4. QED
    BY <1>2, <1>3

(* The message c takes is behind the position of its partition from now on. *)
LEMMA CountPoll ==
  ASSUME IInv, NEW c \in Consumers, NEW p \in Partitions, Poll(c, p), NEW m \in Messages
  PROVE  (handled[m] + ToCome(m) <= rebalances)'
  <1> USE DEF IInv, Inv, TypeOK
  <1>1. handled' = handled /\ rebalances' = rebalances /\ owner' = owner
    BY DEF Poll
  <1>2. inHand' = [inHand EXCEPT ![c] = <<p, position[p] + 1>>]
    BY DEF Poll
  <1>3. m[1] \in Partitions /\ m[2] \in Nat /\ m = <<m[1], m[2]>>
    BY MessageShape, KafkaAssumption
  <1>4. CASE m = <<p, position[p] + 1>>
    <2>1. Reading(m)' \subseteq Reading(m) \cup {c}
      BY <1>2, <1>4 DEF Poll, Reading
    <2>2. /\ Cardinality(Reading(m)) \in Nat
          /\ Cardinality(Reading(m)') \in Nat
          /\ Cardinality(Reading(m)') <= Cardinality(Reading(m)) + 1
      <3>1. IsFiniteSet(Reading(m)) /\ Cardinality(Reading(m)) \in Nat
        BY ReadingFinite
      <3>2. /\ IsFiniteSet(Reading(m) \cup {c})
            /\ Cardinality(Reading(m) \cup {c}) \in
                 {Cardinality(Reading(m)), Cardinality(Reading(m)) + 1}
        BY <3>1, FS_AddElement
      <3>3. IsFiniteSet(Reading(m)') /\ Cardinality(Reading(m)') <= Cardinality(Reading(m) \cup {c})
        BY <2>1, <3>2, FS_Subset
      <3>4. Cardinality(Reading(m)') \in Nat
        BY <3>3, FS_CardinalityType
      <3>5. QED
        BY <3>1, <3>2, <3>3, <3>4
    <2>3. Unread(m)
      BY <1>4, KafkaAssumption DEF Poll, Unread
    <2>4. ~Unread(m)'
      BY <1>4 DEF Poll, Unread
    <2>5. handled[m] \in Nat /\ handled[m] + ToCome(m) <= rebalances
      BY DEF CountInv
    <2>6. QED
      BY <1>1, <2>2, <2>3, <2>4, <2>5 DEF ToCome
  <1>5. CASE m # <<p, position[p] + 1>>
    <2>1. Reading(m)' \subseteq Reading(m)
      BY <1>2, <1>5 DEF Poll, Reading
    <2>2. Unread(m)' => Unread(m)
      BY <1>3 DEF Poll, Unread
    <2>3. QED
      BY <1>1, <2>1, <2>2, CountShrinks
  <1>6. QED
    BY <1>4, <1>5

LEMMA NextCountInv ==
  ASSUME IInv, [Next]_vars
  PROVE  CountInv'
  <1> DEFINE Counted(m) == (handled[m] + ToCome(m) <= rebalances)'
  <1>1. ASSUME NEW c \in Consumers, Dispatch(c) PROVE CountInv'
    BY <1>1, CountDispatch DEF CountInv
  <1>2. ASSUME NEW c \in Consumers, NEW p \in Partitions, Poll(c, p) PROVE CountInv'
    BY <1>2, CountPoll DEF CountInv
  <1>3. ASSUME NEW c \in Consumers, DispatchError(c) \/ Commit(c) \/ CommitError(c)
        PROVE  CountInv'
    <2> SUFFICES ASSUME NEW m \in Messages PROVE Counted(m)
      BY DEF CountInv
    <2>1. Reading(m)' \subseteq Reading(m)
      BY <1>3, MessageShape DEF DispatchError, Commit, CommitError, LetGo, Reading,
                                IInv, Inv, TypeOK
    <2>2. UNCHANGED <<handled, rebalances, owner, position>>
      BY <1>3 DEF DispatchError, Commit, CommitError
    <2>3. QED
      BY <2>1, <2>2, CountShrinks DEF Unread
  <1>4. ASSUME NEW c \in Consumers, Start(c) \/ Stop(c) PROVE CountInv'
    <2> SUFFICES ASSUME NEW m \in Messages PROVE Counted(m)
      BY DEF CountInv
    <2>1. Reading(m)' \subseteq Reading(m)
      BY <1>4, MessageShape DEF Start, Stop, LetGo, Reading, IInv, Inv, TypeOK
    <2>2. handled' = handled /\ rebalances' = rebalances + 1
      BY <1>4 DEF Start, Stop, Rebalance
    <2>3. QED
      BY <2>1, <2>2, CountShrinks
  <1>5. CASE Regroup
    <2> SUFFICES ASSUME NEW m \in Messages PROVE Counted(m)
      BY DEF CountInv
    <2>1. Reading(m)' \subseteq Reading(m)
      BY <1>5 DEF Regroup, Reading
    <2>2. handled' = handled /\ rebalances' = rebalances + 1
      BY <1>5 DEF Regroup, Rebalance
    <2>3. QED
      BY <2>1, <2>2, CountShrinks
  <1>6. CASE UNCHANGED <<handled, inHand, dispatched, owner, position, rebalances>>
    BY <1>6 DEF IInv, CountInv, ToCome, Reading, Unread
  <1>7. QED
    BY <1>1, <1>2, <1>3, <1>4, <1>5, <1>6 DEF Next, vars, Produce

-----------------------------------------------------------------------------
(* The theorems. *)

LEMMA Invariance == Spec => []IInv
  <1>1. IInv /\ [Next]_vars => IInv'
    BY NextInv, NextCountInv DEF IInv
  <1>2. QED
    BY InitIInv, <1>1, PTL DEF Spec

(* Every variable of the group and its consumers stays in its type; what a *)
(* consumer has in hand is always a message that was produced.             *)
THEOREM TypeCorrect == Spec => []TypeOK
  BY Invariance, PTL DEF IInv, Inv

(* The group's offset never passes a message that is unread or in hand,    *)
(* whichever consumer commits and however late.                            *)
THEOREM CommittedOffsetsAreSafe == Spec => []CommittedIsSettled
  BY Invariance, PTL DEF IInv, Inv

(* A message is dispatched at most once per rebalance.                     *)
THEOREM DispatchesBounded == Spec => []OncePerAssignment
  <1>1. IInv => OncePerAssignment
    <2> SUFFICES ASSUME IInv, NEW m \in Messages PROVE handled[m] <= rebalances
      BY DEF OncePerAssignment
    <2>1. Cardinality(Reading(m)) \in Nat
      BY ReadingFinite
    <2>2. handled[m] \in Nat /\ rebalances \in Nat /\ handled[m] + ToCome(m) <= rebalances
      BY DEF IInv, Inv, TypeOK, CountInv
    <2>3. QED
      BY <2>1, <2>2 DEF ToCome
  <1>2. QED
    BY Invariance, <1>1, PTL

(* Committed offsets only grow: a position begins at the committed offset. *)
THEOREM OffsetsGrow == Spec => OffsetsForward
  <1>1. ASSUME IInv, [Next]_vars, NEW p \in Partitions, committed[p] # None
        PROVE  committed'[p] # None /\ committed'[p] >= committed[p]
    <2> USE DEF IInv, Inv, TypeOK, OffsetInv
    <2>1. committed[p] \in Nat /\ position[p] \in Nat /\ committed[p] <= position[p]
      BY <1>1
    <2>2. committed'[p] \in {committed[p], position[p]}
      BY <1>1 DEF Next, vars, Produce, Start, Stop, Poll, Dispatch, DispatchError, Commit,
                  CommitError, Regroup
    <2>3. QED
      BY <2>1, <2>2, KafkaAssumption
  <1>2. IInv /\ [Next]_vars =>
          [\A p \in Partitions :
             committed[p] # None => committed'[p] # None /\ committed'[p] >= committed[p]]_vars
    BY <1>1
  <1>3. QED
    BY Invariance, <1>2, PTL DEF Spec, OffsetsForward

(* The first dispatch of a message follows the settling of all earlier     *)
(* messages of its partition.                                              *)
THEOREM PartitionsAreOrdered == Spec => PartitionOrder
  <1>1. ASSUME IInv, [Next]_vars, NEW m \in Messages, handled[m] = 0, handled'[m] > 0,
               NEW k \in 1 .. m[2] - 1
        PROVE  Settled(<<m[1], k>>)
    <2>1. PICK c \in Consumers : Dispatch(c)
      <3>1. handled' # handled
        BY <1>1
      <3>2. QED
        BY <1>1, <3>1 DEF Next, vars, Produce, Start, Stop, Poll, DispatchError, Commit,
                         CommitError, Regroup
    <2>2. inHand[c] = m
      <3>1. handled' = [handled EXCEPT ![inHand[c]] = @ + 1]
        BY <2>1 DEF Dispatch
      <3>2. handled \in [Messages -> Nat]
        BY <1>1 DEF IInv, Inv, TypeOK
      <3>3. inHand[c] # m => handled'[m] = handled[m]
        BY <1>1, <3>1, <3>2
      <3>4. QED
        BY <1>1, <3>2, <3>3
    <2>3. QED
      BY <1>1, <2>2, MessageShape DEF IInv, Inv, BeforeInv
  <1>2. IInv /\ [Next]_vars =>
          [\A m \in Messages :
             handled[m] = 0 /\ handled'[m] > 0
               => \A k \in 1 .. m[2] - 1 : Settled(<<m[1], k>>)]_vars
    BY <1>1
  <1>3. QED
    BY Invariance, <1>2, PTL DEF Spec, PartitionOrder

=============================================================================
