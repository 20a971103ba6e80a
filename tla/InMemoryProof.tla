---------------------------- MODULE InMemoryProof ----------------------------
(***************************************************************************)
(* Proofs about module InMemoryUow, for every set of aggregates and every  *)
(* finite set of commands, whatever they do to which aggregate.            *)
(***************************************************************************)
EXTENDS InMemoryUow, FiniteSetTheorems, SequenceTheorems, TLAPS

-----------------------------------------------------------------------------
(* The inductive invariant. *)

(* No event is in the list twice. *)
OnceInv == \A i, j \in 1 .. Len(pending) : pending[i] = pending[j] => i = j

(* A command leaves its marks only when it runs. *)
NewInv ==
  \A c \in Commands : /\ Publishing(c) => c \in recorded
                      /\ phase[c] = "new" => c \notin recorded /\ \A d \in Commands : c \notin met[d]
                      /\ c \notin recorded => delivered[c] = 0

(* Commands that are in commit together have met. *)
MetInv ==
  \A c, d \in Commands : Publishing(c) /\ Publishing(d) /\ c # d => d \in met[c]

(* A command in commit finds its own event, or somebody has cleared it away. *)
LossInv ==
  \A c \in Commands : Publishing(c) =>
    \/ \E d \in met[c] : Over(d)
    \/ \E j \in 1 .. Len(pending) : pending[j] = c /\ (delivered[c] > 0 \/ at[c] < j)

(* Only what was created is updated or deleted. *)
CreatedInv ==
  \A d \in recorded : \E c \in recorded : Kind[c] = "create" /\ Target[c] = Target[d]

(* Commands whose loops have the event of c before them.                   *)
Ahead(c) ==
  {d \in Commands : Publishing(d) /\ \E j \in 1 .. Len(pending) : pending[j] = c /\ at[d] < j}

CountInv ==
  \A c \in Commands : delivered[c] + Cardinality(Ahead(c)) <= 1 + Cardinality(met[c])

IInv == /\ TypeOK /\ EventsHaveOwner /\ OnceInv /\ NewInv /\ MetInv /\ LossInv
        /\ CreatedInv /\ StoreIsRecorded /\ CountInv

-----------------------------------------------------------------------------
(* The list. *)

LEMMA CollectedFacts ==
  ASSUME TypeOK, NEW c \in Commands
  PROVE  /\ Collected(c) \in Seq(Commands)
         /\ Len(pending) \in Nat
         /\ Len(Collected(c)) = Len(pending) + 1
         /\ \A i \in 1 .. Len(pending) : Collected(c)[i] = pending[i] /\ pending[i] \in Commands
         /\ Collected(c)[Len(pending) + 1] = c
  BY DEF TypeOK, Collected

LEMMA FirstCommand ==
  ASSUME TypeOK, NEW c \in Commands
  PROVE  Collected(c)[1] \in Commands
  <1>1. 1 \in 1 .. Len(Collected(c))
    BY CollectedFacts
  <1>2. QED
    BY <1>1, CollectedFacts

(* What every step but Execute does with the list: nothing, or it clears it. *)
LEMMA ListStep ==
  ASSUME [Next]_vars
  PROVE  \/ \E c \in Commands : Execute(c)
         \/ pending' = pending /\ \A d \in Commands : Publishing(d)' = Publishing(d)
         \/ pending' = <<>>
  <1>1. ASSUME NEW c \in Commands, NotFound(c)
        PROVE  pending' = pending /\ \A d \in Commands : Publishing(d)' = Publishing(d)
    BY <1>1 DEF NotFound, Publishing
  <1>2. QED
    BY <1>1 DEF Next, vars, Done, NextEvent, Finish, Fail, Refuse, Rollback, Publishing

-----------------------------------------------------------------------------
(* Types. *)

LEMMA TypeStep ==
  ASSUME TypeOK, [Next]_vars
  PROVE  TypeOK'
  <1> USE DEF TypeOK
  <1>1. CASE UNCHANGED vars \/ Done
    BY <1>1 DEF vars, Done
  <1>2. ASSUME NEW c \in Commands, Execute(c)
        PROVE  TypeOK'
    <2>1. store' \in SUBSET Aggregates /\ recorded' \in SUBSET Commands
      BY <1>2, InMemoryAssumption DEF Execute, Stored
    <2>2. pending' \in Seq(Commands)
      BY <1>2, CollectedFacts DEF Execute
    <2>3. phase' \in [Commands -> Phases] /\ at' \in [Commands -> Nat]
      BY <1>2 DEF Execute, PublishNth, Phases
    <2>4. delivered' \in [Commands -> Nat]
      <3>1. PICK x \in Commands : x = Collected(c)[1]
        BY FirstCommand
      <3>2. delivered' = [delivered EXCEPT ![x] = @ + 1]
        BY <1>2, <3>1 DEF Execute, PublishNth
      <3>3. QED
        BY <3>2
    <2>5. met' \in [Commands -> SUBSET Commands]
      BY <1>2 DEF Execute, Meet
    <2>6. QED
      BY <2>1, <2>2, <2>3, <2>4, <2>5
  <1>3. ASSUME NEW c \in Commands, NotFound(c) \/ Finish(c) \/ Fail(c)
        PROVE  TypeOK'
    <2>1. pending' = pending \/ pending' = <<>>
      BY <1>3 DEF NotFound, Finish, Fail, Rollback
    <2>2. pending' \in Seq(Commands)
      BY <2>1, EmptySeq
    <2>3. phase' \in [Commands -> Phases]
      BY <1>3 DEF NotFound, Finish, Fail, Phases
    <2>4. QED
      BY <1>3, <2>2, <2>3 DEF NotFound, Finish, Fail
  <1>4. ASSUME NEW c \in Commands, Refuse(c)
        PROVE  TypeOK'
    <2>1. pending' \in Seq(Commands)
      BY <1>4, EmptySeq DEF Refuse, Rollback
    <2>2. phase' \in [Commands -> Phases]
      BY <1>4 DEF Refuse, Phases
    <2>3. met' \in [Commands -> SUBSET Commands]
      BY <1>4 DEF Refuse, Meet
    <2>4. QED
      BY <1>4, <2>1, <2>2, <2>3 DEF Refuse
  <1>5. ASSUME NEW c \in Commands, NextEvent(c)
        PROVE  TypeOK'
    <2>1. PICK x \in Commands : x = pending[at[c] + 1]
      BY <1>5 DEF NextEvent, HasMore
    <2>2. delivered' = [delivered EXCEPT ![x] = @ + 1] /\ at' = [at EXCEPT ![c] = at[c] + 1]
      BY <1>5, <2>1 DEF NextEvent, PublishNth
    <2>3. QED
      BY <1>5, <2>2 DEF NextEvent
  <1>6. QED
    BY <1>1, <1>2, <1>3, <1>4, <1>5 DEF Next

-----------------------------------------------------------------------------
(* Who owns the events of the list. *)

LEMMA OwnerStep ==
  ASSUME IInv, [Next]_vars
  PROVE  EventsHaveOwner' /\ OnceInv'
  <1> USE DEF EventsHaveOwner, OnceInv
  <1>1. CASE pending' = <<>>
    BY <1>1
  <1>2. CASE pending' = pending /\ \A d \in Commands : Publishing(d)' = Publishing(d)
    BY <1>2 DEF IInv, TypeOK
  <1>3. ASSUME NEW c \in Commands, Execute(c)
        PROVE  EventsHaveOwner' /\ OnceInv'
    <2>1. \A d \in Commands : Publishing(d)' <=> Publishing(d) \/ d = c
      BY <1>3 DEF Execute, Publishing, IInv, TypeOK
    <2>2. \A i \in 1 .. Len(pending) : Publishing(pending[i]) /\ pending[i] \in Commands /\ pending[i] # c
      BY <1>3, CollectedFacts DEF Execute, Publishing, IInv
    <2>3. pending' = Collected(c)
      BY <1>3 DEF Execute
    <2>4. /\ Len(pending') = Len(pending) + 1 /\ Len(pending) \in Nat
          /\ \A i \in 1 .. Len(pending) : pending'[i] = pending[i]
          /\ pending'[Len(pending) + 1] = c
      BY <2>3, CollectedFacts DEF IInv
    <2>5. \A i \in 1 .. Len(pending') : i \in 1 .. Len(pending) \/ i = Len(pending) + 1
      BY <2>4
    <2>6. EventsHaveOwner'
      BY <2>1, <2>2, <2>4, <2>5
    <2>7. OnceInv'
      BY <2>2, <2>4, <2>5 DEF IInv
    <2>8. QED
      BY <2>6, <2>7
  <1>4. QED
    BY <1>1, <1>2, <1>3, ListStep

LEMMA NewStep ==
  ASSUME IInv, [Next]_vars
  PROVE  NewInv'
  <1> USE DEF NewInv, Publishing
  <1>1. CASE UNCHANGED vars \/ Done
    BY <1>1 DEF vars, Done, IInv
  <1>2. ASSUME NEW c \in Commands, Execute(c)
        PROVE  NewInv'
    <2>1. recorded' = recorded \cup {c} /\ phase' = [phase EXCEPT ![c] = "publishing"]
      BY <1>2 DEF Execute
    <2>2. \A d \in Commands : met'[d] \subseteq met[d] \cup {c} \cup {x \in Commands : Publishing(x)}
      BY <1>2 DEF Execute, Meet
    <2>3. Collected(c)[1] \in recorded'
      <3>1. CASE Len(pending) = 0
        BY <3>1, <2>1, CollectedFacts DEF IInv
      <3>2. CASE Len(pending) # 0
        <4>1. 1 \in 1 .. Len(pending)
          BY <3>2, CollectedFacts DEF IInv
        <4>2. pending[1] \in Commands /\ Publishing(pending[1]) /\ Collected(c)[1] = pending[1]
          BY <4>1, CollectedFacts DEF IInv, EventsHaveOwner
        <4>3. QED
          BY <2>1, <4>2 DEF IInv
      <3>3. QED
        BY <3>1, <3>2
    <2>4. \A d \in Commands : d \notin recorded' => delivered'[d] = delivered[d]
      BY <1>2, <2>3 DEF Execute, PublishNth, IInv, TypeOK
    <2>5. QED
      BY <2>1, <2>2, <2>4 DEF IInv, TypeOK
  <1>3. ASSUME NEW c \in Commands, NotFound(c) \/ Finish(c) \/ Fail(c)
        PROVE  NewInv'
    BY <1>3 DEF NotFound, Finish, Fail, Rollback, IInv, TypeOK
  <1>4. ASSUME NEW c \in Commands, Refuse(c)
        PROVE  NewInv'
    <2>1. \A d \in Commands : met'[d] \subseteq met[d] \cup {c} \cup {x \in Commands : Publishing(x)}
      BY <1>4 DEF Refuse, Meet
    <2>2. recorded' = recorded /\ delivered' = delivered /\ phase' = [phase EXCEPT ![c] = "failed"]
      BY <1>4 DEF Refuse
    <2>3. QED
      BY <2>1, <2>2 DEF IInv, TypeOK
  <1>5. ASSUME NEW c \in Commands, NextEvent(c)
        PROVE  NewInv'
    <2>1. at[c] + 1 \in 1 .. Len(pending)
      BY <1>5 DEF NextEvent, HasMore, IInv, TypeOK
    <2>2. pending[at[c] + 1] \in recorded
      BY <2>1, CollectedFacts DEF IInv, EventsHaveOwner
    <2>3. QED
      BY <1>5, <2>2 DEF NextEvent, PublishNth, IInv, TypeOK
  <1>6. QED
    BY <1>1, <1>2, <1>3, <1>4, <1>5 DEF Next

LEMMA MetStep ==
  ASSUME IInv, [Next]_vars
  PROVE  MetInv'
  <1> USE DEF MetInv, Publishing
  <1>1. CASE UNCHANGED vars \/ Done
    BY <1>1 DEF vars, Done, IInv
  <1>2. ASSUME NEW c \in Commands, Execute(c)
        PROVE  MetInv'
    BY <1>2 DEF Execute, Meet, IInv, TypeOK
  <1>3. ASSUME NEW c \in Commands, NotFound(c) \/ Finish(c) \/ Fail(c) \/ NextEvent(c)
        PROVE  MetInv'
    BY <1>3 DEF NotFound, Finish, Fail, NextEvent, IInv, TypeOK
  <1>4. ASSUME NEW c \in Commands, Refuse(c)
        PROVE  MetInv'
    BY <1>4 DEF Refuse, Meet, IInv, TypeOK
  <1>5. QED
    BY <1>1, <1>2, <1>3, <1>4 DEF Next

-----------------------------------------------------------------------------
(* Losses. *)

(* One turn of a loop: it gets on by one, and the event there is delivered. *)
LEMMA NextEventFacts ==
  ASSUME TypeOK, NEW c \in Commands, NextEvent(c)
  PROVE  /\ at[c] + 1 \in 1 .. Len(pending)
         /\ pending[at[c] + 1] \in Commands
         /\ delivered' = [delivered EXCEPT ![pending[at[c] + 1]] = @ + 1]
         /\ at' = [at EXCEPT ![c] = at[c] + 1]
         /\ UNCHANGED <<store, pending, phase, recorded, met>>
  BY DEF NextEvent, HasMore, PublishNth, TypeOK

LEMMA ExecuteFacts ==
  ASSUME TypeOK, NEW c \in Commands, Execute(c)
  PROVE  /\ phase[c] = "new" /\ phase' = [phase EXCEPT ![c] = "publishing"]
         /\ pending' = Collected(c)
         /\ pending'[1] \in Commands
         /\ delivered' = [delivered EXCEPT ![pending'[1]] = @ + 1]
         /\ at' = [at EXCEPT ![c] = 1]
         /\ recorded' = recorded \cup {c}
         /\ \A d \in Commands : met[d] \subseteq met'[d] \/ d = c
  BY FirstCommand DEF Execute, PublishNth, Meet, TypeOK

LEMMA LossStep ==
  ASSUME IInv, [Next]_vars
  PROVE  LossInv'
  <1> USE DEF LossInv, Publishing, Over
  <1>1. CASE UNCHANGED vars \/ Done
    BY <1>1 DEF vars, Done, IInv
  <1>2. ASSUME NEW c \in Commands, Execute(c)
        PROVE  LossInv'
    <2> SUFFICES ASSUME NEW d \in Commands, Publishing(d)'
                 PROVE  \/ \E e \in met'[d] : Over(e)'
                        \/ \E j \in 1 .. Len(pending') :
                             pending'[j] = d /\ (delivered'[d] > 0 \/ at'[d] < j)
      OBVIOUS
    <2>0. TypeOK
      BY DEF IInv
    <2>1. /\ Len(pending) \in Nat /\ Len(pending') = Len(pending) + 1
          /\ \A i \in 1 .. Len(pending) : pending'[i] = pending[i]
          /\ pending'[Len(pending) + 1] = c
      BY <1>2, <2>0, CollectedFacts, ExecuteFacts
    <2>2. at'[c] = 1 /\ \A x \in Commands : x # c => at'[x] = at[x]
      BY <1>2, <2>0, ExecuteFacts DEF TypeOK
    <2>3. \A x \in Commands : /\ delivered[x] \in Nat /\ delivered'[x] \in Nat
                              /\ delivered'[x] >= delivered[x]
                              /\ pending'[1] = x => delivered'[x] > 0
      <3>1. PICK y \in Commands : y = pending'[1] /\ delivered' = [delivered EXCEPT ![y] = @ + 1]
        BY <1>2, <2>0, ExecuteFacts
      <3>2. QED
        BY <2>0, <3>1 DEF TypeOK
    <2>4. CASE d = c
      <3>1. Len(pending) + 1 \in 1 .. Len(pending')
        BY <2>1
      <3>2. delivered'[c] > 0 \/ 1 < Len(pending) + 1
        BY <2>1, <2>3
      <3>3. QED
        BY <2>1, <2>2, <2>4, <3>1, <3>2
    <2>5. CASE d # c
      <3>1. Publishing(d) /\ met[d] \subseteq met'[d]
        BY <1>2, <2>0, <2>5, ExecuteFacts DEF TypeOK
      <3>2. CASE \E e \in met[d] : Over(e)
        <4>1. PICK e \in met[d] : Over(e)
          BY <3>2
        <4>2. e \in Commands /\ e # c
          BY <1>2, <2>0, <4>1, ExecuteFacts DEF TypeOK
        <4>3. Over(e)'
          BY <1>2, <2>0, <4>1, <4>2, ExecuteFacts DEF TypeOK
        <4>4. QED
          BY <3>1, <4>3
      <3>3. CASE \E j \in 1 .. Len(pending) : pending[j] = d /\ (delivered[d] > 0 \/ at[d] < j)
        <4>1. PICK j \in 1 .. Len(pending) : pending[j] = d /\ (delivered[d] > 0 \/ at[d] < j)
          BY <3>3
        <4>2. j \in 1 .. Len(pending') /\ pending'[j] = d
          BY <2>1, <4>1
        <4>3. delivered'[d] > 0 \/ at'[d] < j
          BY <2>2, <2>3, <2>5, <4>1
        <4>4. QED
          BY <4>2, <4>3
      <3>4. QED
        BY <3>1, <3>2, <3>3 DEF IInv
    <2>6. QED
      BY <2>4, <2>5
  <1>3. ASSUME NEW c \in Commands, NotFound(c)
        PROVE  LossInv'
    <2>1. \A d \in Commands : Over(d) => Over(d)'
      BY <1>3 DEF NotFound, IInv, TypeOK
    <2>2. \A d \in Commands : Publishing(d)' => Publishing(d)
      BY <1>3 DEF NotFound, IInv, TypeOK
    <2>3. QED
      BY <1>3, <2>1, <2>2 DEF NotFound, IInv, TypeOK
  <1>4. ASSUME NEW c \in Commands, Finish(c) \/ Fail(c)
        PROVE  LossInv'
    <2>1. /\ Publishing(c) /\ Over(c)' /\ met' = met
          /\ \A d \in Commands : Publishing(d)' => Publishing(d) /\ d # c
      BY <1>4 DEF Finish, Fail, IInv, TypeOK
    <2>2. \A d \in Commands : Publishing(d)' => c \in met'[d]
      BY <2>1 DEF IInv, MetInv
    <2>3. QED
      BY <2>1, <2>2
  <1>5. ASSUME NEW c \in Commands, Refuse(c)
        PROVE  LossInv'
    <2>1. /\ Over(c)'
          /\ \A d \in Commands : Publishing(d)' => Publishing(d) /\ d # c
      BY <1>5 DEF Refuse, IInv, TypeOK
    <2>2. \A d \in Commands : Publishing(d)' => c \in met'[d]
      BY <1>5, <2>1 DEF Refuse, Meet
    <2>3. QED
      BY <2>1, <2>2
  <1>6. ASSUME NEW c \in Commands, NextEvent(c)
        PROVE  LossInv'
    <2> SUFFICES ASSUME NEW d \in Commands, Publishing(d),
                        NEW j \in 1 .. Len(pending), pending[j] = d,
                        delivered[d] > 0 \/ at[d] < j
                 PROVE  delivered'[d] > 0 \/ at'[d] < j
      BY <1>6, NextEventFacts DEF IInv
    <2>1. delivered'[d] >= delivered[d] /\ delivered[d] \in Nat /\ delivered'[d] \in Nat
      <3>1. PICK y \in Commands : y = pending[at[c] + 1] /\ delivered' = [delivered EXCEPT ![y] = @ + 1]
        BY <1>6, NextEventFacts DEF IInv
      <3>2. QED
        BY <3>1 DEF IInv, TypeOK
    <2>2. CASE at[d] < j /\ at'[d] >= j
      <3>1. d = c /\ at'[d] = at[c] + 1 /\ at[c] \in Nat
        BY <1>6, <2>2, NextEventFacts DEF IInv, TypeOK
      <3>2. j = at[c] + 1
        BY <2>2, <3>1
      <3>3. delivered'[d] = delivered[d] + 1
        BY <1>6, <3>2, NextEventFacts DEF IInv, TypeOK
      <3>4. QED
        BY <2>1, <3>3
    <2>3. at'[d] \in Nat
      BY <1>6, TypeStep DEF IInv, TypeOK, Next
    <2>4. CASE delivered[d] > 0
      BY <2>1, <2>4
    <2>5. CASE at[d] < j /\ at'[d] < j
      BY <2>5
    <2>6. at[d] \in Nat /\ j \in Nat
      BY DEF IInv, TypeOK
    <2>7. QED
      BY <2>2, <2>3, <2>4, <2>5, <2>6
  <1>7. QED
    BY <1>1, <1>2, <1>3, <1>4, <1>5, <1>6 DEF Next

-----------------------------------------------------------------------------
(* The dictionary. *)

LEMMA StoreStep ==
  ASSUME IInv, [Next]_vars
  PROVE  CreatedInv' /\ StoreIsRecorded'
  <1> USE DEF CreatedInv, StoreIsRecorded
  <1>1. ASSUME NEW c \in Commands, Execute(c)
        PROVE  CreatedInv' /\ StoreIsRecorded'
    <2>0. /\ recorded' = recorded \cup {c} /\ c \notin recorded /\ recorded \subseteq Commands
          /\ store' = Stored(c) /\ Found(c)
      BY <1>1 DEF Execute, IInv, NewInv, TypeOK
    <2>1. /\ \A x : x \in store <=> /\ \E d \in recorded : Kind[d] = "create" /\ Target[d] = x
                                   /\ \A d \in recorded : Kind[d] = "delete" => Target[d] # x
          /\ \A d, e \in recorded :
               Kind[d] = "delete" /\ Kind[e] = "delete" /\ Target[d] = Target[e] => d = e
      BY DEF IInv
    <2>2. \A d \in recorded : \E e \in recorded : Kind[e] = "create" /\ Target[e] = Target[d]
      BY DEF IInv
    <2>3. CASE Kind[c] = "create"
      <3>1. \A d \in recorded : Target[d] # Target[c]
        BY <2>0, <2>2, <2>3, InMemoryAssumption
      <3>2. store' = store \cup {Target[c]}
        BY <2>0, <2>3 DEF Stored
      <3>3. QED
        BY <2>0, <2>1, <2>2, <2>3, <3>1, <3>2
    <2>4. CASE Kind[c] = "update"
      <3>1. Target[c] \in store /\ store' = store
        BY <2>0, <2>4 DEF Found, Stored
      <3>2. QED
        BY <2>0, <2>1, <2>2, <2>4, <3>1
    <2>5. CASE Kind[c] = "delete"
      <3>1. Target[c] \in store /\ store' = store \ {Target[c]}
        BY <2>0, <2>5 DEF Found, Stored
      <3>2. QED
        BY <2>0, <2>1, <2>2, <2>5, <3>1
    <2>6. QED
      BY <2>3, <2>4, <2>5, InMemoryAssumption
  <1>2. CASE ~\E c \in Commands : Execute(c)
    <2>1. store' = store /\ recorded' = recorded
      BY <1>2 DEF Next, vars, Done, NotFound, Refuse, NextEvent, Finish, Fail
    <2>2. QED
      BY <2>1 DEF IInv
  <1>3. QED
    BY <1>1, <1>2

-----------------------------------------------------------------------------
(* Duplicates. *)

LEMMA AheadFinite ==
  ASSUME NEW c \in Commands
  PROVE  IsFiniteSet(Ahead(c)) /\ Cardinality(Ahead(c)) \in Nat
  <1>1. Ahead(c) \subseteq Commands
    BY DEF Ahead
  <1>2. IsFiniteSet(Ahead(c))
    BY <1>1, InMemoryAssumption, FS_Subset
  <1>3. QED
    BY <1>2, FS_CardinalityType

LEMMA MetFinite ==
  ASSUME TypeOK, NEW c \in Commands
  PROVE  IsFiniteSet(met[c]) /\ Cardinality(met[c]) \in Nat
  <1>1. met[c] \subseteq Commands
    BY DEF TypeOK
  <1>2. IsFiniteSet(met[c])
    BY <1>1, InMemoryAssumption, FS_Subset
  <1>3. QED
    BY <1>2, FS_CardinalityType

LEMMA SmallerSet ==
  ASSUME NEW T, IsFiniteSet(T), NEW S \in SUBSET T
  PROVE  Cardinality(S) \in Nat /\ Cardinality(T) \in Nat /\ Cardinality(S) <= Cardinality(T)
  <1>1. IsFiniteSet(S) /\ Cardinality(S) <= Cardinality(T)
    BY FS_Subset
  <1>2. QED
    BY <1>1, FS_CardinalityType

LEMMA OneMore ==
  ASSUME NEW T, IsFiniteSet(T), NEW x, NEW S \in SUBSET (T \cup {x})
  PROVE  Cardinality(S) \in Nat /\ Cardinality(T) \in Nat /\ Cardinality(S) <= Cardinality(T) + 1
  <1>1. IsFiniteSet(T \cup {x}) /\ Cardinality(T \cup {x}) <= Cardinality(T) + 1
    <2>1. /\ IsFiniteSet(T \cup {x})
          /\ Cardinality(T \cup {x}) = Cardinality(T) \/ Cardinality(T \cup {x}) = Cardinality(T) + 1
      BY FS_AddElement
    <2>2. Cardinality(T) \in Nat
      BY FS_CardinalityType
    <2>3. QED
      BY <2>1, <2>2
  <1>2. Cardinality(S) \in Nat /\ Cardinality(T \cup {x}) \in Nat
        /\ Cardinality(S) <= Cardinality(T \cup {x})
    BY <1>1, SmallerSet
  <1>3. Cardinality(T) \in Nat
    BY FS_CardinalityType
  <1>4. QED
    BY <1>1, <1>2, <1>3

(* Clearing the list leaves nobody anything to deliver.                    *)
LEMMA ClearCount ==
  ASSUME IInv, [Next]_vars, pending' = <<>>, delivered' = delivered,
         NEW x \in Commands, met[x] \subseteq met'[x] \/ delivered[x] = 0
  PROVE  (delivered[x] + Cardinality(Ahead(x)) <= 1 + Cardinality(met[x]))'
  <1>1. Ahead(x)' = {}
    BY DEF Ahead
  <1>2. Cardinality(Ahead(x)') = 0
    BY <1>1, FS_EmptySet
  <1>3. delivered[x] + Cardinality(Ahead(x)) <= 1 + Cardinality(met[x]) /\ delivered[x] \in Nat
    BY DEF IInv, CountInv, TypeOK
  <1>4. Cardinality(Ahead(x)) \in Nat /\ Cardinality(met[x]) \in Nat
    BY AheadFinite, MetFinite DEF IInv
  <1>5. IsFiniteSet(met'[x])
    <2>1. TypeOK'
      BY TypeStep DEF IInv
    <2>2. met'[x] \subseteq Commands
      BY <2>1 DEF TypeOK
    <2>3. QED
      BY <2>2, InMemoryAssumption, FS_Subset
  <1>6. /\ Cardinality(met'[x]) \in Nat
        /\ Cardinality(met[x]) <= Cardinality(met'[x]) \/ delivered[x] = 0
    BY <1>5, SmallerSet, FS_CardinalityType
  <1>7. QED
    BY <1>2, <1>3, <1>4, <1>6

LEMMA NextEventCount ==
  ASSUME IInv, NEW c \in Commands, NextEvent(c), NEW x \in Commands
  PROVE  (delivered[x] + Cardinality(Ahead(x)) <= 1 + Cardinality(met[x]))'
  <1>0. delivered[x] + Cardinality(Ahead(x)) <= 1 + Cardinality(met[x])
        /\ delivered[x] \in Nat /\ at[c] \in Nat /\ TypeOK
    BY DEF IInv, CountInv, TypeOK
  <1>1. PICK y \in Commands : /\ y = pending[at[c] + 1]
                              /\ delivered' = [delivered EXCEPT ![y] = @ + 1]
    BY NextEventFacts DEF IInv
  <1>2. /\ at[c] + 1 \in 1 .. Len(pending)
        /\ at'[c] = at[c] + 1 /\ \A d \in Commands : d # c => at'[d] = at[d]
        /\ pending' = pending /\ phase' = phase /\ met' = met
    BY NextEventFacts DEF IInv, TypeOK
  <1>3. Ahead(x)' \subseteq Ahead(x)
    BY <1>0, <1>2 DEF Ahead, Publishing
  <1>4. Cardinality(Ahead(x)) \in Nat /\ Cardinality(met[x]) \in Nat /\ IsFiniteSet(Ahead(x))
    BY <1>0, AheadFinite, MetFinite
  <1>5. CASE x # y
    <2>1. delivered'[x] = delivered[x]
      BY <1>0, <1>1, <1>5 DEF TypeOK
    <2>2. Cardinality(Ahead(x)') \in Nat /\ Cardinality(Ahead(x)') <= Cardinality(Ahead(x))
      BY <1>3, <1>4, SmallerSet
    <2>3. QED
      BY <1>0, <1>2, <1>4, <2>1, <2>2
  <1>6. CASE x = y
    <2>1. delivered'[x] = delivered[x] + 1
      BY <1>0, <1>1, <1>6 DEF TypeOK
    <2>2. c \in Ahead(x)
      BY <1>0, <1>1, <1>2, <1>6 DEF Ahead, NextEvent
    <2>3. c \notin Ahead(x)'
      <3>1. \A j \in 1 .. Len(pending) : pending[j] = x => j = at[c] + 1
        BY <1>1, <1>2, <1>6 DEF IInv, OnceInv
      <3>2. \A j \in 1 .. Len(pending') : pending'[j] = x => ~(at'[c] < j)
        BY <1>0, <1>2, <3>1
      <3>3. QED
        BY <3>2 DEF Ahead
    <2>4. Cardinality(Ahead(x) \ {c}) = Cardinality(Ahead(x)) - 1 /\ IsFiniteSet(Ahead(x) \ {c})
      BY <1>4, <2>2, FS_RemoveElement
    <2>5. Ahead(x)' \in SUBSET (Ahead(x) \ {c})
      BY <1>3, <2>3
    <2>6. Cardinality(Ahead(x)') \in Nat
          /\ Cardinality(Ahead(x)') <= Cardinality(Ahead(x) \ {c})
      BY <2>4, <2>5, SmallerSet
    <2>7. QED
      BY <1>0, <1>2, <1>4, <2>1, <2>4, <2>6
  <1>7. QED
    BY <1>5, <1>6

LEMMA ExecuteCount ==
  ASSUME IInv, [Next]_vars, NEW c \in Commands, Execute(c), NEW x \in Commands
  PROVE  (delivered[x] + Cardinality(Ahead(x)) <= 1 + Cardinality(met[x]))'
  <1> DEFINE P == {d \in Commands : Publishing(d)}
  <1>0. TypeOK /\ OnceInv' /\ Len(pending) \in Nat
        /\ delivered[x] + Cardinality(Ahead(x)) <= 1 + Cardinality(met[x]) /\ delivered[x] \in Nat
    BY OwnerStep, CollectedFacts DEF IInv, CountInv, TypeOK
  <1>1. PICK y \in Commands : /\ y = pending'[1]
                              /\ delivered' = [delivered EXCEPT ![y] = @ + 1]
    BY <1>0, ExecuteFacts
  <1>2. delivered'[x] = IF x = y THEN delivered[x] + 1 ELSE delivered[x]
    BY <1>0, <1>1 DEF TypeOK
  <1>3. /\ Len(pending') = Len(pending) + 1
        /\ \A i \in 1 .. Len(pending) : pending'[i] = pending[i] /\ pending[i] \in Commands
        /\ pending'[Len(pending) + 1] = c
    BY <1>0, CollectedFacts, ExecuteFacts
  <1>4. /\ at'[c] = 1 /\ \A d \in Commands : d # c => at'[d] = at[d]
        /\ ~Publishing(c)
        /\ \A d \in Commands : d # c => (Publishing(d)' <=> Publishing(d))
    BY <1>0, ExecuteFacts DEF TypeOK, Publishing
  <1>5. Ahead(x)' \subseteq P \cup {c}
    BY <1>4 DEF Ahead
  <1>6. x = y => c \notin Ahead(x)'
    <2>1. SUFFICES ASSUME x = y, NEW j \in 1 .. Len(pending'), pending'[j] = x, at'[c] < j
                   PROVE  FALSE
      BY DEF Ahead
    <2>2. 1 \in 1 .. Len(pending')
      BY <1>0, <1>3
    <2>3. j = 1
      BY <1>0, <1>1, <2>1, <2>2 DEF OnceInv
    <2>4. QED
      BY <1>4, <2>1, <2>3
  <1>7. IsFiniteSet(P)
    <2>1. P \subseteq Commands
      OBVIOUS
    <2>2. QED
      BY <2>1, InMemoryAssumption, FS_Subset
  <1>8. CASE x = c
    <2>1. delivered[x] = 0 /\ met'[x] = P
      BY <1>0, <1>8 DEF Execute, Meet, IInv, NewInv
    <2>2. CASE x = y
      <3>1. Ahead(x)' \in SUBSET P
        BY <1>5, <1>6, <2>2
      <3>2. Cardinality(Ahead(x)') \in Nat /\ Cardinality(P) \in Nat
            /\ Cardinality(Ahead(x)') <= Cardinality(P)
        BY <1>7, <3>1, SmallerSet
      <3>3. QED
        BY <1>2, <2>1, <2>2, <3>2
    <2>3. CASE x # y
      <3>1. Ahead(x)' \in SUBSET (P \cup {c})
        BY <1>5
      <3>2. Cardinality(Ahead(x)') \in Nat /\ Cardinality(P) \in Nat
            /\ Cardinality(Ahead(x)') <= Cardinality(P) + 1
        BY <1>7, <3>1, OneMore
      <3>3. QED
        BY <1>2, <2>1, <2>3, <3>2
    <2>4. QED
      BY <2>2, <2>3
  <1>9. CASE x # c
    <2>1. Ahead(x)' \subseteq Ahead(x) \cup {c}
      <3> SUFFICES ASSUME NEW d \in Ahead(x)', d # c
                   PROVE  d \in Ahead(x)
        OBVIOUS
      <3>1. PICK j \in 1 .. Len(pending') : pending'[j] = x /\ at'[d] < j
        BY DEF Ahead
      <3>2. d \in Commands /\ Publishing(d) /\ at'[d] = at[d]
        BY <1>4 DEF Ahead
      <3>3. j \in 1 .. Len(pending)
        BY <1>0, <1>3, <1>9, <3>1
      <3>4. QED
        BY <1>3, <3>1, <3>2, <3>3 DEF Ahead
    <2>2. IsFiniteSet(Ahead(x)) /\ Cardinality(Ahead(x)) \in Nat
          /\ IsFiniteSet(met[x]) /\ Cardinality(met[x]) \in Nat
      BY <1>0, AheadFinite, MetFinite
    <2>3. CASE Publishing(x)
      <3>1. met'[x] = met[x] \cup {c} /\ c \notin met[x]
        BY <1>9, <2>3 DEF Execute, Meet, IInv, NewInv
      <3>2. Cardinality(met'[x]) = Cardinality(met[x]) + 1
        BY <2>2, <3>1, FS_AddElement
      <3>3. CASE x = y
        <4>1. Ahead(x)' \in SUBSET Ahead(x)
          BY <1>6, <2>1, <3>3
        <4>2. Cardinality(Ahead(x)') \in Nat /\ Cardinality(Ahead(x)') <= Cardinality(Ahead(x))
          BY <2>2, <4>1, SmallerSet
        <4>3. QED
          BY <1>0, <1>2, <2>2, <3>2, <3>3, <4>2
      <3>4. CASE x # y
        <4>1. Ahead(x)' \in SUBSET (Ahead(x) \cup {c})
          BY <2>1
        <4>2. Cardinality(Ahead(x)') \in Nat /\ Cardinality(Ahead(x)') <= Cardinality(Ahead(x)) + 1
          BY <2>2, <4>1, OneMore
        <4>3. QED
          BY <1>0, <1>2, <2>2, <3>2, <3>4, <4>2
      <3>5. QED
        BY <3>3, <3>4
    <2>4. CASE ~Publishing(x)
      <3>1. \A j \in 1 .. Len(pending') : pending'[j] # x
        BY <1>0, <1>3, <1>9, <2>4 DEF IInv, EventsHaveOwner
      <3>2. Ahead(x)' = {} /\ x # y
        <4>1. 1 \in 1 .. Len(pending')
          BY <1>0, <1>3
        <4>2. QED
          BY <1>1, <3>1, <4>1 DEF Ahead
      <3>3. Cardinality(Ahead(x)') = 0
        BY <3>2, FS_EmptySet
      <3>4. met'[x] = met[x]
        BY <1>9, <2>4 DEF Execute, Meet
      <3>5. QED
        BY <1>0, <1>2, <2>2, <3>2, <3>3, <3>4
    <2>5. QED
      BY <2>3, <2>4
  <1>10. QED
    BY <1>8, <1>9

LEMMA CountStep ==
  ASSUME IInv, [Next]_vars
  PROVE  CountInv'
  <1> SUFFICES ASSUME NEW x \in Commands
               PROVE  (delivered[x] + Cardinality(Ahead(x)) <= 1 + Cardinality(met[x]))'
    BY DEF CountInv
  <1>1. CASE UNCHANGED vars \/ Done
    <2>1. Ahead(x)' = Ahead(x) /\ delivered' = delivered /\ met' = met
      BY <1>1 DEF vars, Done, Ahead, Publishing
    <2>2. QED
      BY <2>1 DEF IInv, CountInv
  <1>2. ASSUME NEW c \in Commands, Execute(c)
        PROVE  (delivered[x] + Cardinality(Ahead(x)) <= 1 + Cardinality(met[x]))'
    BY <1>2, ExecuteCount
  <1>3. ASSUME NEW c \in Commands, NotFound(c)
        PROVE  (delivered[x] + Cardinality(Ahead(x)) <= 1 + Cardinality(met[x]))'
    <2>1. \A d \in Commands : Publishing(d)' <=> Publishing(d)
      BY <1>3 DEF NotFound, Publishing, IInv, TypeOK
    <2>2. Ahead(x)' = Ahead(x) /\ delivered' = delivered /\ met' = met
      BY <1>3, <2>1 DEF NotFound, Ahead
    <2>3. QED
      BY <2>2 DEF IInv, CountInv
  <1>4. ASSUME NEW c \in Commands, Finish(c) \/ Fail(c) \/ Refuse(c)
        PROVE  (delivered[x] + Cardinality(Ahead(x)) <= 1 + Cardinality(met[x]))'
    <2>1. pending' = <<>> /\ delivered' = delivered
      BY <1>4 DEF Finish, Fail, Refuse, Rollback
    <2>2. met[x] \subseteq met'[x] \/ delivered[x] = 0
      <3>1. CASE Refuse(c) /\ x # c
        BY <3>1 DEF Refuse, Meet
      <3>2. CASE Refuse(c) /\ x = c
        BY <3>2 DEF Refuse, IInv, NewInv
      <3>3. QED
        BY <1>4, <3>1, <3>2 DEF Finish, Fail
    <2>3. QED
      BY <2>1, <2>2, ClearCount
  <1>5. ASSUME NEW c \in Commands, NextEvent(c)
        PROVE  (delivered[x] + Cardinality(Ahead(x)) <= 1 + Cardinality(met[x]))'
    BY <1>5, NextEventCount
  <1>6. QED
    BY <1>1, <1>2, <1>3, <1>4, <1>5 DEF Next

-----------------------------------------------------------------------------
(* The theorems. *)

LEMMA InitIInv == Init => IInv
  <1> SUFFICES ASSUME Init PROVE IInv
    OBVIOUS
  <1> USE DEF Init
  <1>1. TypeOK
    BY EmptySeq DEF TypeOK, Phases
  <1>2. EventsHaveOwner /\ OnceInv
    BY DEF EventsHaveOwner, OnceInv
  <1>3. NewInv /\ MetInv /\ LossInv
    BY DEF NewInv, MetInv, LossInv, Publishing
  <1>4. CreatedInv /\ StoreIsRecorded
    BY DEF CreatedInv, StoreIsRecorded
  <1>5. CountInv
    <2>1. \A c \in Commands : Ahead(c) = {} /\ met[c] = {} /\ delivered[c] = 0
      BY DEF Ahead, Publishing
    <2>2. Cardinality({}) = 0
      BY FS_EmptySet
    <2>3. SUFFICES ASSUME NEW c \in Commands
                   PROVE  delivered[c] + Cardinality(Ahead(c)) <= 1 + Cardinality(met[c])
      BY DEF CountInv
    <2>4. Cardinality(Ahead(c)) = 0 /\ Cardinality(met[c]) = 0 /\ delivered[c] = 0
      <3>1. Ahead(c) = {} /\ met[c] = {} /\ delivered[c] = 0
        BY <2>1
      <3> HIDE DEF Init
      <3>2. QED
        BY ONLY <3>1, <2>2
    <2>5. QED
      BY ONLY <2>4
  <1>6. QED
    BY <1>1, <1>2, <1>3, <1>4, <1>5 DEF IInv

LEMMA Invariance == Spec => []IInv
  <1>1. IInv /\ [Next]_vars => IInv'
    BY TypeStep, OwnerStep, NewStep, MetStep, LossStep, StoreStep, CountStep DEF IInv
  <1>2. QED
    BY InitIInv, <1>1, PTL DEF Spec

(* List, dictionary and the places of all commands keep their types.       *)
THEOREM TypeCorrect == Spec => []TypeOK
  BY Invariance, PTL DEF IInv

(* The shared list holds only events of commands that wait in commit.      *)
THEOREM NothingLeftInTheList == Spec => []EventsHaveOwner
  BY Invariance, PTL DEF IInv

(* However commands interleave, what is stored is what was recorded, and   *)
(* an aggregate is deleted once.                                           *)
THEOREM StoreFollowsRecords == Spec => []StoreIsRecorded
  BY Invariance, PTL DEF IInv

(* An event is published at most once by its own command and once by each  *)
(* command that was in its block at the same time.                         *)
THEOREM DuplicatesBounded == Spec => []DuplicatesNeedOverlap
  <1>1. IInv => DuplicatesNeedOverlap
    <2> SUFFICES ASSUME IInv, NEW c \in Commands
                 PROVE  delivered[c] <= 1 + Cardinality(met[c])
      BY DEF DuplicatesNeedOverlap
    <2>1. delivered[c] + Cardinality(Ahead(c)) <= 1 + Cardinality(met[c]) /\ delivered[c] \in Nat
      BY DEF IInv, CountInv, TypeOK
    <2>2. Cardinality(Ahead(c)) \in Nat /\ Cardinality(met[c]) \in Nat
      BY AheadFinite, MetFinite DEF IInv
    <2>3. QED
      BY <2>1, <2>2
  <1>2. QED
    BY Invariance, <1>1, PTL

(* A successful commit that published nothing of its own had its event     *)
(* cleared away by a command that is over.                                 *)
THEOREM LossesNeedOverlap == Spec => LossNeedsEarlierEnd
  <1>1. ASSUME IInv, [Next]_vars, NEW c \in Commands,
               Publishing(c), phase'[c] = "committed", delivered[c] = 0
        PROVE  \E d \in met[c] : Over(d)
    <2>1. Finish(c)
      <3>1. \A d \in Commands : d # c => ~Finish(d)
        BY <1>1 DEF Finish, Publishing, IInv, TypeOK
      <3>2. phase' # phase
        BY <1>1 DEF Publishing
      <3>3. QED
        BY <1>1, <3>1, <3>2 DEF Next, vars, Done, Execute, NotFound, Refuse, NextEvent, Fail,
                                IInv, TypeOK, Publishing
    <2>2. \A j \in 1 .. Len(pending) : ~(at[c] < j)
      <3>1. ~(at[c] < Len(pending))
        BY <2>1 DEF Finish, HasMore
      <3>2. at[c] \in Nat /\ pending \in Seq(Commands)
        BY <1>1 DEF IInv, TypeOK
      <3>3. Len(pending) \in Nat
        BY <3>2
      <3>4. QED
        BY <3>1, <3>2, <3>3
    <2>3. QED
      BY <1>1, <2>2 DEF IInv, LossInv
  <1>2. IInv /\ [Next]_vars =>
          [\A c \in Commands :
             Publishing(c) /\ phase'[c] = "committed" /\ delivered[c] = 0
               => \E d \in met[c] : Over(d)]_vars
    BY <1>1
  <1>3. QED
    BY Invariance, <1>2, PTL DEF Spec, LossNeedsEarlierEnd

=============================================================================
