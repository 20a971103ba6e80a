---------------------------- MODULE ServingProof ----------------------------
(***************************************************************************)
(* Proofs of the safety properties of Serving, for any number of requests  *)
(* and any size of the pool.                                               *)
(***************************************************************************)
EXTENDS Serving, FiniteSetTheorems, TLAPS

(* What the lifespan has set up at each of its points.                     *)
StartupInv ==
  /\ process \in {"starting", "serving", "stopping", "disconnecting"} /\ config.broker => connected
  /\ process \notin {"down", "loading"} /\ config.issuer => jwks
  /\ relay # "off" => process \in {"serving", "stopping"}
  /\ \A r \in Requests :
       phase[r] \in InProgress => process \notin {"down", "loading", "connecting", "starting"}

(* Checked out are a session of the relay while it publishes, and all      *)
(* sessions of a request that works; a request needs at most one.          *)
HoldInv ==
  \A c \in held : /\ c[1] = Relay => relay = "publishing"
                  /\ c[1] # Relay => phase[c[1]] = "working"

Inv == TypeOK /\ StartupInv /\ HoldInv

-----------------------------------------------------------------------------

(* A request never waits for a second connection: that of its first        *)
(* session is the only one it needs (container.py:234-264).                *)
LEMMA OneSession ==
  ASSUME NEW k \in Kinds, NEW s \in Needs(k), NEW t \in Needs(k)
  PROVE  s = t /\ s \in Sessions
  BY DEF Kinds, Needs, Sessions

(* The end of the process puts every invariant back.                       *)
LEMMA DownInv ==
  ASSUME Inv, Down
  PROVE  Inv'
  BY DEF Inv, TypeOK, StartupInv, HoldInv, Down, InProgress

(* Answering a request, which gives back what it holds, keeps them.        *)
LEMMA AnswerInv ==
  ASSUME Inv, NEW r \in Requests, NEW how \in {"answered", "failed", "degraded"}, Answer(r, how)
  PROVE  Inv'
<1> USE DEF Answer, lifespan, InProgress
<1>1. TypeOK'
  BY DEF Inv, TypeOK, HeldBy
<1>2. StartupInv'
  BY DEF Inv, TypeOK, StartupInv
<1>3. HoldInv'
  <2> SUFFICES ASSUME NEW c \in held'
               PROVE  /\ c[1] = Relay => relay' = "publishing"
                      /\ c[1] # Relay => phase'[c[1]] = "working"
    BY DEF HoldInv
  <2>1. c \in held /\ c[1] # r
    BY DEF HeldBy
  <2>2. c[1] \in Requests \cup {Relay}
    BY <2>1 DEF Inv, TypeOK
  <2> QED
    BY <2>1, <2>2 DEF Inv, TypeOK, HoldInv
<1> QED
  BY <1>1, <1>2, <1>3 DEF Inv

(* The steps of the lifespan.                                              *)
LEMMA LifespanInv ==
  ASSUME Inv,
         \/ Boot \/ LoadKeys \/ ConnectBroker \/ StartupFails \/ StartRelay
         \/ Terminate \/ StopRelay \/ Disconnect \/ Exit \/ Crash
  PROVE  Inv'
<1> USE DEF Inv, TypeOK, StartupInv, HoldInv, lifespan, requests, InProgress
<1>1. CASE Boot
  BY <1>1 DEF Boot
<1>2. CASE LoadKeys
  BY <1>2 DEF LoadKeys
<1>3. CASE ConnectBroker
  BY <1>3 DEF ConnectBroker
<1>4. CASE StartupFails \/ Exit \/ Crash
  BY <1>4, DownInv DEF StartupFails, Exit, Crash
<1>5. CASE StartRelay
  BY <1>5 DEF StartRelay
<1>6. CASE Terminate
  BY <1>6 DEF Terminate
<1>7. CASE StopRelay
  BY <1>7 DEF StopRelay, HeldBy
<1>8. CASE Disconnect
  BY <1>8 DEF Disconnect
<1> QED
  BY <1>1, <1>2, <1>3, <1>4, <1>5, <1>6, <1>7, <1>8

(* The steps of the relay, which holds its one connection while it         *)
(* publishes.                                                              *)
LEMMA RelayInv ==
  ASSUME Inv, Poll \/ PollFails \/ EndBatch \/ Wake
  PROVE  Inv'
<1> USE DEF Inv, TypeOK, StartupInv, HoldInv, lifespan, requests, InProgress
<1>1. CASE Poll
  BY <1>1, ServingAssumption DEF Poll, Sessions
<1>2. CASE PollFails
  BY <1>2 DEF PollFails
<1>3. CASE EndBatch
  BY <1>3 DEF EndBatch, HeldBy
<1>4. CASE Wake
  BY <1>4 DEF Wake
<1> QED
  BY <1>1, <1>2, <1>3, <1>4

(* A request that comes in holds nothing yet.                              *)
LEMMA ArriveInv ==
  ASSUME Inv, NEW r \in Requests, NEW k \in Kinds, Arrive(r, k)
  PROVE  Inv'
<1>1. phase'[r] # "working" /\ phase[r] # "working"
  BY DEF Arrive, InProgress, Inv, TypeOK
<1>2. \A c \in held : c[1] # r
  BY <1>1, ServingAssumption DEF Inv, HoldInv
<1>3. TypeOK'
  BY DEF Arrive, Inv, TypeOK, lifespan, InProgress
<1>4. StartupInv'
  BY DEF Arrive, Inv, TypeOK, StartupInv, lifespan, InProgress
<1>5. HoldInv'
  BY <1>2 DEF Arrive, Inv, TypeOK, HoldInv, lifespan
<1> QED
  BY <1>3, <1>4, <1>5 DEF Inv

(* A request that gets its connection has all it needs.                    *)
LEMMA AcquireInv ==
  ASSUME Inv, NEW r \in Requests, NEW s \in Sessions, Acquire(r, s)
  PROVE  Inv'
<1>1. CASE database = "down"
  BY <1>1, AnswerInv DEF Acquire
<1>2. CASE database # "down"
  <2>1. \A t \in Needs(kind[r]) : t = s
    BY OneSession DEF Acquire, Inv, TypeOK
  <2>2. /\ held' = held \cup {<<r, s>>}
        /\ phase' = [phase EXCEPT ![r] = "working"]
        /\ UNCHANGED <<config, lifespan, relay, database, kind>>
    BY <1>2, <2>1 DEF Acquire
  <2>3. TypeOK'
    BY <2>2 DEF Inv, TypeOK, lifespan, InProgress
  <2>4. StartupInv'
    BY <2>2 DEF Acquire, Inv, TypeOK, StartupInv, lifespan, InProgress
  <2>5. HoldInv'
    BY <2>2, ServingAssumption DEF Inv, TypeOK, HoldInv, lifespan
  <2> QED
    BY <2>3, <2>4, <2>5 DEF Inv
<1> QED
  BY <1>1, <1>2

THEOREM InvInductive == Init /\ [][Next]_vars => []Inv
<1>1. Init => Inv
  BY DEF Init, Inv, TypeOK, StartupInv, HoldInv, InProgress, Kinds
<1>2. Inv /\ [Next]_vars => Inv'
  <2> SUFFICES ASSUME Inv, [Next]_vars PROVE Inv'
    OBVIOUS
  <2>1. CASE \/ Boot \/ LoadKeys \/ ConnectBroker \/ StartupFails \/ StartRelay
             \/ Terminate \/ StopRelay \/ Disconnect \/ Exit \/ Crash
    BY <2>1, LifespanInv
  <2>2. CASE Poll \/ PollFails \/ EndBatch \/ Wake
    BY <2>2, RelayInv
  <2>3. ASSUME NEW r \in Requests, NEW k \in Kinds, Arrive(r, k) PROVE Inv'
    BY <2>3, ArriveInv
  <2>4. ASSUME NEW r \in Requests, Proceed(r) PROVE Inv'
    <3>1. CASE \E s \in Sessions : Acquire(r, s)
      BY <3>1, AcquireInv
    <3>2. CASE PoolTimeout(r)
      BY <3>2, AnswerInv DEF PoolTimeout
    <3>3. CASE Finish(r)
      BY <3>3, AnswerInv DEF Finish
    <3> QED
      BY <2>4, <3>1, <3>2, <3>3 DEF Proceed
  <2>5. CASE DatabaseGoes \/ DatabaseReturns
    BY <2>5 DEF DatabaseGoes, DatabaseReturns, Inv, TypeOK, StartupInv, HoldInv, lifespan, requests
  <2>6. CASE UNCHANGED vars
    BY <2>6 DEF vars, Inv, TypeOK, StartupInv, HoldInv
  <2> QED
    BY <2>1, <2>2, <2>3, <2>4, <2>5, <2>6 DEF Next
<1> QED
  BY <1>1, <1>2, PTL

-----------------------------------------------------------------------------

(* Every variable keeps its type.                                          *)
THEOREM ServingTypeCorrect == Spec => []TypeOK
  BY InvInductive, PTL DEF Spec, Inv

(* The relay publishes only while the broker is connected, and requests    *)
(* run only after the keys are loaded, however often the process restarts  *)
(* (main.py:37-67).                                                        *)
THEOREM LifespanInOrder == Spec => []LifespanOrder
<1>1. Inv => LifespanOrder
  BY DEF Inv, StartupInv, LifespanOrder
<1> QED
  BY <1>1, InvInductive, PTL DEF Spec

(* No request waits for a connection while it holds one, whatever the size *)
(* of the pool (container.py:234-264).                                     *)
THEOREM WaitersHoldNothing == Spec => []NoHoldAndWait
<1>1. Inv => NoHoldAndWait
  BY ServingAssumption DEF Inv, HoldInv, NoHoldAndWait, HeldBy
<1> QED
  BY <1>1, InvInductive, PTL DEF Spec

(* Only a relay that publishes and requests in progress hold connections   *)
(* (container.py:259-262, outbox_relay.py:71-77).                          *)
THEOREM ConnectionsComeBack == Spec => []NothingLeaks
<1>1. Inv => NothingLeaks
  BY DEF Inv, TypeOK, HoldInv, NothingLeaks, InProgress
<1> QED
  BY <1>1, InvInductive, PTL DEF Spec

(* The pool lends at most pool_size + max_overflow connections             *)
(* (persistence_container.py:31-39).                                       *)
THEOREM PoolIsBounded == Spec => []PoolBound
<1>1. Init => PoolBound
  BY FS_EmptySet, ServingAssumption DEF Init, PoolBound, Capacity
<1>2. PoolBound /\ [Next]_vars => PoolBound'
  <2> SUFFICES ASSUME PoolBound, [Next]_vars PROVE PoolBound'
    OBVIOUS
  <2>1. ASSUME held' \subseteq held PROVE PoolBound'
    <3>1. IsFiniteSet(held') /\ Cardinality(held') <= Cardinality(held)
      BY <2>1, FS_Subset DEF PoolBound
    <3>2. Cardinality(held') \in Nat /\ Cardinality(held) \in Nat
      BY <3>1, FS_CardinalityType DEF PoolBound
    <3> QED
      BY <3>1, <3>2, ServingAssumption DEF PoolBound, Capacity
  <2>2. ASSUME NEW c, Free, held' = held \cup {c} PROVE PoolBound'
    <3>1. IsFiniteSet(held') /\ Cardinality(held') \in {Cardinality(held), Cardinality(held) + 1}
      BY <2>2, FS_AddElement DEF PoolBound
    <3>2. Cardinality(held) \in Nat
      BY FS_CardinalityType DEF PoolBound
    <3> QED
      BY <2>2, <3>1, <3>2, ServingAssumption DEF PoolBound, Free, Capacity
  <2>3. CASE Poll
    BY <2>3, <2>2 DEF Poll
  <2>4. ASSUME NEW r \in Requests, NEW s \in Sessions, Acquire(r, s) PROVE PoolBound'
    BY <2>4, <2>1, <2>2 DEF Acquire, Answer
  <2>5. CASE \/ Boot \/ LoadKeys \/ ConnectBroker \/ StartupFails \/ StartRelay
             \/ Terminate \/ StopRelay \/ Disconnect \/ Exit \/ Crash
    BY <2>5, <2>1 DEF Boot, LoadKeys, ConnectBroker, StartupFails, StartRelay,
                      Terminate, StopRelay, Disconnect, Exit, Crash, Down
  <2>6. CASE PollFails \/ EndBatch \/ Wake
    BY <2>6, <2>1 DEF PollFails, EndBatch, Wake
  <2>7. ASSUME NEW r \in Requests,
               (\E k \in Kinds : Arrive(r, k)) \/ PoolTimeout(r) \/ Finish(r)
        PROVE  PoolBound'
    BY <2>7, <2>1 DEF Arrive, PoolTimeout, Finish, Answer
  <2>8. CASE DatabaseGoes \/ DatabaseReturns \/ UNCHANGED vars
    BY <2>8, <2>1 DEF DatabaseGoes, DatabaseReturns, vars
  <2> QED
    BY <2>3, <2>4, <2>5, <2>6, <2>7, <2>8 DEF Next, Proceed
<1> QED
  BY <1>1, <1>2, PTL DEF Spec
=============================================================================
