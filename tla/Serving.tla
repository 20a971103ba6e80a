------------------------------ MODULE Serving -------------------------------
(***************************************************************************)
(* The life of one process of the service on the SQL backend: the lifespan *)
(* of main.py with the keys of the token issuer, the broker connection and *)
(* the relay; the requests; and the pool of database connections that the  *)
(* requests, the readiness probe and the relay share.                      *)
(*                                                                         *)
(* What a request does with its connection is the matter of UnitOfWork,    *)
(* Catalog and Queries, what the relay does with its own that of           *)
(* OutboxRelay.  Who may ask for what is not modelled.                     *)
(***************************************************************************)
EXTENDS Naturals, FiniteSets

CONSTANTS
  Requests,               (* the requests that may be in progress at once   *)
  Relay,                  (* the outbox relay                               *)
  PoolSize, MaxOverflow   (* db_pool_size and db_max_overflow               *)

ASSUME ServingAssumption ==
  /\ Relay \notin Requests
  /\ PoolSize \in Nat \ {0} /\ MaxOverflow \in Nat

VARIABLES
  config,      (* which of oidc_issuer and event_broker are configured      *)
  process,     (* how far the lifespan has come                             *)
  jwks,        (* the keys of the issuer are loaded                         *)
  connected,   (* the broker publisher is connected                         *)
  relay,       (* state of the relay task                                   *)
  held,        (* connections checked out of the pool: <<holder, session>>  *)
  database,    (* the database accepts connections and answers              *)
  kind,        (* kind[r]: which sort of request r is                       *)
  phase        (* phase[r]: how far request r has come                      *)

vars == <<config, process, jwks, connected, relay, held, database, kind, phase>>

lifespan == <<process, jwks, connected>>
requests == <<kind, phase>>

Kinds == {"query", "command", "ready", "live"}
Sessions == {"read", "write", "probe"}
InProgress == {"waiting", "working"}

-----------------------------------------------------------------------------

(* Mutant of Needs: a command reads through the session of the queries     *)
(* before it writes.                                                       *)
NeedsBoth(k) ==
  CASE k = "query" -> {"read"} [] k = "command" -> {"read", "write"}
    [] k = "ready" -> {"probe"} [] k = "live" -> {}

(* The sessions that take a connection.  _request_scoped opens a read      *)
(* session for every request, but a session takes a connection with its    *)
(* first statement only, and a command executes all of its own in the      *)
(* session of the unit of work.                                            *)
Needs(k) ==
  CASE k = "query" -> {"read"} [] k = "command" -> {"write"}
    [] k = "ready" -> {"probe"} [] k = "live" -> {}

Capacity == PoolSize + MaxOverflow
Free == Cardinality(held) < Capacity
HeldBy(p) == {c \in held : c[1] = p}

(* The process is gone, by itself, by a signal or by a crash. *)
Down ==
  /\ process' = "down" /\ jwks' = FALSE /\ connected' = FALSE
  /\ relay' = "off" /\ held' = {}
  /\ phase' = [r \in Requests |-> IF phase[r] \in InProgress THEN "lost" ELSE phase[r]]
  /\ UNCHANGED <<config, database, kind>>

-----------------------------------------------------------------------------

(* create_app: everything is built, nothing is connected. *)
Boot ==
  /\ process = "down"
  /\ process' = "loading"
  /\ UNCHANGED <<config, jwks, connected, relay, held, database, requests>>

(* oidc_verifier.initialize; without an issuer there is nothing to load.   *)
(* It asks once per process, so that the circuit breaker only counts.      *)
LoadKeys ==
  /\ process = "loading"
  /\ process' = "connecting"
  /\ jwks' = config.issuer
  /\ UNCHANGED <<config, connected, relay, held, database, requests>>

(* broker.connect, if there is a broker. *)
ConnectBroker ==
  /\ process = "connecting"
  /\ process' = "starting"
  /\ connected' = config.broker
  /\ UNCHANGED <<config, jwks, relay, held, database, requests>>

(* The issuer or the broker cannot be reached: the exception ends the      *)
(* lifespan and with it the process.                                       *)
StartupFails ==
  /\ \/ process = "loading" /\ config.issuer
     \/ process = "connecting" /\ config.broker
  /\ Down

(* relay.start creates the task; then the application serves. *)
StartRelay ==
  /\ process = "starting"
  /\ process' = "serving"
  /\ relay' = "polling"
  /\ UNCHANGED <<config, jwks, connected, held, database, requests>>

(* The server is told to stop and takes no more requests; those in         *)
(* progress may or may not end before the process does.                    *)
Terminate ==
  /\ process = "serving"
  /\ process' = "stopping"
  /\ UNCHANGED <<config, jwks, connected, relay, held, database, requests>>

(* Mutants of StopRelay: it waits for the end of the batch instead of      *)
(* cancelling the task; it comes after broker.disconnect.                  *)
StopRelayAfterBatch ==
  /\ process = "stopping" /\ relay # "publishing"
  /\ process' = "disconnecting"
  /\ relay' = "off" /\ held' = held \ HeldBy(Relay)
  /\ UNCHANGED <<config, jwks, connected, database, requests>>
StopRelayLast ==
  /\ process = "stopping"
  /\ process' = "disconnecting" /\ connected' = FALSE
  /\ UNCHANGED <<config, jwks, relay, held, database, requests>>

(* relay.stop: the task is cancelled wherever it is, its session rolls     *)
(* back and gives the connection up.                                       *)
StopRelay ==
  /\ process = "stopping"
  /\ process' = "disconnecting"
  /\ relay' = "off" /\ held' = held \ HeldBy(Relay)
  /\ UNCHANGED <<config, jwks, connected, database, requests>>

(* broker.disconnect; the lifespan is over. *)
Disconnect ==
  /\ process = "disconnecting"
  /\ process' = "exiting" /\ connected' = FALSE
  /\ UNCHANGED <<config, jwks, relay, held, database, requests>>

Exit == process = "exiting" /\ Down
Crash == process # "down" /\ Down

-----------------------------------------------------------------------------

(* OutboxRelay._process_batch opens its session. *)
Poll ==
  /\ relay = "polling" /\ Free /\ database = "up"
  /\ relay' = "publishing" /\ held' = held \cup {<<Relay, "write">>}
  /\ UNCHANGED <<config, lifespan, database, requests>>

(* No connection within pool_timeout, or no database: logged, tried again. *)
PollFails ==
  /\ relay = "polling" /\ (~Free \/ database = "down")
  /\ relay' = "sleeping"
  /\ UNCHANGED <<config, lifespan, held, database, requests>>

(* The batch is published, as far as it can be, and the session closed; a  *)
(* publisher may take any time for that, and the connection waits with it. *)
EndBatch ==
  /\ relay = "publishing"
  /\ relay' = "sleeping" /\ held' = held \ HeldBy(Relay)
  /\ UNCHANGED <<config, lifespan, database, requests>>

Wake ==
  /\ relay = "sleeping"
  /\ relay' = "polling"
  /\ UNCHANGED <<config, lifespan, held, database, requests>>

-----------------------------------------------------------------------------

(* Mutant of Answer: the session of the request is not closed. *)
AnswerKeeping(r, how) ==
  /\ phase' = [phase EXCEPT ![r] = how]
  /\ UNCHANGED <<config, held, lifespan, relay, database, kind>>

(* The response is made and the sessions of the request are closed. *)
Answer(r, how) ==
  /\ phase' = [phase EXCEPT ![r] = how]
  /\ held' = held \ HeldBy(r)
  /\ UNCHANGED <<config, lifespan, relay, database, kind>>

(* A request of kind k comes in.  The limiter may answer any with 429, the *)
(* liveness probe included: its counters are not modelled.  The liveness   *)
(* probe needs nothing.                                                    *)
Arrive(r, k) ==
  /\ process = "serving" /\ phase[r] \notin InProgress
  /\ kind' = [kind EXCEPT ![r] = k]
  /\ \E how \in IF Needs(k) = {} THEN {"limited", "answered"} ELSE {"limited", "waiting"} :
       phase' = [phase EXCEPT ![r] = how]
  /\ UNCHANGED <<config, lifespan, relay, held, database>>

(* A session checks a connection out, pinged before use.  Without a        *)
(* database that raises, and the request fails with a 500: a readiness     *)
(* probe too, for check() catches SQLAlchemyError and a refused connection *)
(* is an OSError.                                                          *)
Acquire(r, s) ==
  /\ phase[r] = "waiting" /\ Free /\ s \in Needs(kind[r]) /\ <<r, s>> \notin held
  /\ IF database = "down" THEN Answer(r, "failed")
     ELSE /\ held' = held \cup {<<r, s>>}
          /\ phase' = [phase EXCEPT ![r] =
               IF \A t \in Needs(kind[r]) : t = s \/ <<r, t>> \in held THEN "working" ELSE @]
          /\ UNCHANGED <<config, lifespan, relay, database, kind>>

(* Mutant of PoolTimeout: only a probe gives up. *)
PoolTimeoutOfProbe(r) ==
  /\ phase[r] = "waiting" /\ ~Free /\ kind[r] = "ready"
  /\ Answer(r, "degraded")

(* Every connection is in use and stays so for pool_timeout seconds: a     *)
(* TimeoutError, 503 for the probe and 500 for the others.                 *)
PoolTimeout(r) ==
  /\ phase[r] = "waiting" /\ ~Free
  /\ Answer(r, IF kind[r] = "ready" THEN "degraded" ELSE "failed")

(* The handler has its result, or its statement failed because the         *)
(* database is gone (which the probe does catch).                          *)
Finish(r) ==
  /\ phase[r] = "working"
  /\ Answer(r, IF database = "up" THEN "answered"
               ELSE IF kind[r] = "ready" THEN "degraded" ELSE "failed")

DatabaseGoes == database = "up" /\ database' = "down"
                  /\ UNCHANGED <<config, lifespan, relay, held, requests>>
DatabaseReturns == database = "down" /\ database' = "up"
                     /\ UNCHANGED <<config, lifespan, relay, held, requests>>

Init ==
  /\ config \in [issuer : BOOLEAN, broker : BOOLEAN]
  /\ process = "down" /\ jwks = FALSE /\ connected = FALSE
  /\ relay = "off" /\ held = {} /\ database = "up"
  /\ kind = [r \in Requests |-> "live"] /\ phase = [r \in Requests |-> "idle"]

Proceed(r) == (\E s \in Sessions : Acquire(r, s)) \/ PoolTimeout(r) \/ Finish(r)

Next ==
  \/ Boot \/ LoadKeys \/ ConnectBroker \/ StartupFails \/ StartRelay
  \/ Terminate \/ StopRelay \/ Disconnect \/ Exit \/ Crash
  \/ Poll \/ PollFails \/ EndBatch \/ Wake
  \/ \E r \in Requests : (\E k \in Kinds : Arrive(r, k)) \/ Proceed(r)
  \/ DatabaseGoes \/ DatabaseReturns

(* The event loop resumes a request that has its connection, its result or *)
(* its timeout, and runs the shutdown to its end.  The relay is owed       *)
(* nothing: a publisher that never answers is not ruled out.               *)
Fairness ==
  /\ \A r \in Requests : WF_vars(Proceed(r))
  /\ WF_vars(StopRelay) /\ WF_vars(Disconnect) /\ WF_vars(Exit)

Spec == Init /\ [][Next]_vars /\ Fairness

-----------------------------------------------------------------------------

TypeOK ==
  /\ config \in [issuer : BOOLEAN, broker : BOOLEAN]
  /\ process \in {"down", "loading", "connecting", "starting", "serving",
                  "stopping", "disconnecting", "exiting"}
  /\ jwks \in BOOLEAN /\ connected \in BOOLEAN
  /\ relay \in {"off", "polling", "publishing", "sleeping"}
  /\ held \subseteq (Requests \cup {Relay}) \X Sessions
  /\ database \in {"up", "down"}
  /\ kind \in [Requests -> Kinds]
  /\ phase \in [Requests -> InProgress \cup
                 {"idle", "limited", "answered", "failed", "degraded", "lost"}]

(* Nothing is used before the lifespan has set it up or after it was taken *)
(* down: the relay publishes only while the broker is connected, so that   *)
(* no event fails for that (main.py:50-67, kafka.py:129-130), and no       *)
(* request is in progress before the keys of a configured issuer are       *)
(* loaded, so that none is told "Auth not ready" (oidc_verifier.py:92-93). *)
LifespanOrder ==
  /\ relay = "publishing" /\ config.broker => connected
  /\ (\E r \in Requests : phase[r] \in InProgress) /\ config.issuer => jwks

(* The pool never lends more connections than it has.                      *)
PoolBound == IsFiniteSet(held) /\ Cardinality(held) <= Capacity

(* A request that waits for a connection holds none: requests cannot wait  *)
(* for each other's connections in a circle, however small the pool        *)
(* (container.py:234-264, app_state.py:36-38).                             *)
NoHoldAndWait == \A r \in Requests : phase[r] = "waiting" => HeldBy(r) = {}

(* Nothing is checked out for a request that is over or a relay that does  *)
(* not publish: no path, errors and cancellation included, leaks a         *)
(* connection (container.py:259-262, outbox_relay.py:71-77).               *)
NothingLeaks ==
  \A c \in held : IF c[1] = Relay THEN relay = "publishing"
                  ELSE c[1] \in Requests /\ phase[c[1]] \in InProgress

(* A request in progress is answered, unless the process ends: not even a  *)
(* publisher that hangs with the relay's connection, or a pool that others *)
(* keep in use, makes it wait for ever (settings.py:71-74).                *)
EveryRequestAnswered ==
  \A r \in Requests : phase[r] \in InProgress ~> phase[r] \notin InProgress

(* A shutdown ends, whatever the publisher does (outbox_relay.py:71-77).   *)
ShutdownCompletes == process = "stopping" ~> process = "down"
=============================================================================
