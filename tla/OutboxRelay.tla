----------------------------- MODULE OutboxRelay -----------------------------
(***************************************************************************)
(* OutboxRelay: one background task per worker process.  A poll is one     *)
(* database transaction: select the oldest unpublished rows, lock them and *)
(* skip those another worker has locked; for each row in turn deserialize, *)
(* publish and set published_at; commit when the loop is through.  A row   *)
(* whose turn raises is logged and stays unpublished.                      *)
(*                                                                         *)
(* What the loop sets is in the session until the commit: an exception of  *)
(* the database, the cancellation of the task by stop, or the death of the *)
(* process rolls it back, although the events are out.  `redo` counts, for *)
(* every event, the deliveries no committed mark will ever account for.    *)
(***************************************************************************)
EXTENDS OutboxTable

CONSTANTS
  Workers,    (* the worker processes, each with one relay                  *)
  BatchSize,  (* _BATCH_SIZE                                                *)
  MaxRedo     (* bound of the model: unaccounted deliveries of one event    *)

ASSUME RelayAssumption == BatchSize \in Nat \ {0} /\ MaxRedo \in Nat

VARIABLES
  relay,   (* relay[w]: "stopped", "sleeping", or "polling" in a transaction *)
  batch,   (* batch[w]: rows its transaction has locked                      *)
  todo,    (* todo[w]: rows of the batch the loop has not reached            *)
  marked,  (* marked[w]: rows with published_at set in the session           *)
  redo     (* history: deliveries that left no committed mark                *)

relayVars == <<relay, batch, todo, marked, redo>>

RelayTypeOK ==
  /\ relay \in [Workers -> {"stopped", "sleeping", "polling"}]
  /\ batch \in [Workers -> SUBSET Events]
  /\ todo \in [Workers -> SUBSET Events]
  /\ marked \in [Workers -> SUBSET Events]
  /\ redo \in [Events -> Nat]

RelayInit ==
  /\ relay = [w \in Workers |-> "stopped"]
  /\ batch = [w \in Workers |-> {}]
  /\ todo = [w \in Workers |-> {}]
  /\ marked = [w \in Workers |-> {}]
  /\ redo = [e \in Events |-> 0]

-----------------------------------------------------------------------------

Locked == UNION {batch[w] : w \in Workers}

(* Mutants of Selectable: without SKIP LOCKED; without published_at IS NULL. *)
SelectableLocked == rows \ publishedAt
SelectablePublished == rows \ Locked

(* WHERE published_at IS NULL ... FOR UPDATE SKIP LOCKED *)
Selectable == (rows \ publishedAt) \ Locked

(* ORDER BY created_at LIMIT _BATCH_SIZE *)
IsOldest(B, S) ==
  /\ B \subseteq S
  /\ Cardinality(B) <= BatchSize
  /\ B = S \/ Cardinality(B) = BatchSize
  /\ \A b \in B, e \in S \ B : createdAt[b] <= createdAt[e]

(* The row whose turn it is: the loop follows created_at. *)
IsNext(w, e) == /\ relay[w] = "polling"
                /\ e \in todo[w]
                /\ \A d \in todo[w] : createdAt[e] <= createdAt[d]

(* Mutant of EndTransaction: the session keeps its locks. *)
EndTransactionLocked(w, phase) ==
  /\ relay' = [relay EXCEPT ![w] = phase]
  /\ todo' = [todo EXCEPT ![w] = {}]
  /\ marked' = [marked EXCEPT ![w] = {}]
  /\ UNCHANGED batch

(* The transaction is over, by commit or by rollback: the locks are gone. *)
EndTransaction(w, phase) ==
  /\ relay' = [relay EXCEPT ![w] = phase]
  /\ batch' = [batch EXCEPT ![w] = {}]
  /\ todo' = [todo EXCEPT ![w] = {}]
  /\ marked' = [marked EXCEPT ![w] = {}]

(* Rolled back, with the marks of rows that were delivered. *)
RollbackBatch(w, phase) ==
  /\ \A e \in marked[w] : redo[e] < MaxRedo
  /\ EndTransaction(w, phase)
  /\ redo' = [e \in Events |-> redo[e] + IF e \in marked[w] THEN 1 ELSE 0]
  /\ UNCHANGED tableVars

Start(w) ==
  /\ relay[w] = "stopped"
  /\ relay' = [relay EXCEPT ![w] = "sleeping"]
  /\ UNCHANGED <<batch, todo, marked, redo, tableVars>>

(* A poll that finds rows.  One that finds none changes nothing. *)
Fetch(w) ==
  /\ relay[w] = "sleeping"
  /\ \E B \in SUBSET Selectable :
       /\ B # {}
       /\ IsOldest(B, Selectable)
       /\ batch' = [batch EXCEPT ![w] = B]
       /\ todo' = [todo EXCEPT ![w] = B]
  /\ relay' = [relay EXCEPT ![w] = "polling"]
  /\ UNCHANGED <<marked, redo, tableVars>>

(* deserialize and publish succeed. *)
Publish(w, e) ==
  /\ IsNext(w, e)
  /\ CanDeserialize(e)
  /\ Deliver(e, 1)
  /\ todo' = [todo EXCEPT ![w] = @ \ {e}]
  /\ marked' = [marked EXCEPT ![w] = @ \cup {e}]
  /\ UNCHANGED <<relay, batch, redo, rows, publishedAt, createdAt, now>>

(* Mutant of SkipRow: published_at is set all the same. *)
SkipRowMarked(w, e) ==
  /\ IsNext(w, e)
  /\ todo' = [todo EXCEPT ![w] = @ \ {e}]
  /\ marked' = [marked EXCEPT ![w] = @ \cup {e}]
  /\ UNCHANGED <<relay, batch, redo, tableVars>>

(* deserialize raises KeyError, or publish raises before the event got     *)
(* anywhere (publisher not connected, broker down).                        *)
SkipRow(w, e) ==
  /\ IsNext(w, e)
  /\ todo' = [todo EXCEPT ![w] = @ \ {e}]
  /\ UNCHANGED <<relay, batch, marked, redo, tableVars>>

(* publish raises although the event is out: the broker stored it and the  *)
(* acknowledgement was lost, or a later subscriber raised.                 *)
SkipDelivered(w, e) ==
  /\ IsNext(w, e)
  /\ CanDeserialize(e)
  /\ redo[e] < MaxRedo
  /\ Deliver(e, 1)
  /\ redo' = [redo EXCEPT ![e] = @ + 1]
  /\ todo' = [todo EXCEPT ![w] = @ \ {e}]
  /\ UNCHANGED <<relay, batch, marked, rows, publishedAt, createdAt, now>>

(* Mutant of CommitBatch: the session is closed without a commit. *)
CommitNothing(w) ==
  /\ relay[w] = "polling"
  /\ todo[w] = {}
  /\ EndTransaction(w, "sleeping")
  /\ UNCHANGED <<redo, tableVars>>

(* The loop is through: leaving `session.begin()` commits the marks. *)
CommitBatch(w) ==
  /\ relay[w] = "polling"
  /\ todo[w] = {}
  /\ publishedAt' = publishedAt \cup marked[w]
  /\ EndTransaction(w, "sleeping")
  /\ UNCHANGED <<redo, rows, createdAt, now, delivered>>

(* The database fails during the poll: _run logs it and polls again. *)
PollError(w) == relay[w] = "polling" /\ RollbackBatch(w, "sleeping")

(* stop cancels the task at whatever await it is at. *)
Stop(w) == relay[w] # "stopped" /\ RollbackBatch(w, "stopped")

-----------------------------------------------------------------------------

(* SKIP LOCKED: "concurrent relay workers never process the same row       *)
(* twice" (outbox_relay.py:12-14): no row is in the hands of two relays.   *)
NoSharedRow ==
  \A v, w \in Workers : v # w => batch[v] \cap batch[w] = {}

(* At least once: a row is marked published only when its event was        *)
(* delivered, whatever was interrupted between the two.                    *)
PublishedWasDelivered == \A e \in publishedAt : delivered[e] > 0

(* Duplicates have a cause: an event is delivered once, plus once for      *)
(* every delivery whose mark was lost with its transaction.                *)
DuplicatesExplained == \A e \in Events : delivered[e] <= 1 + redo[e]

(* Once published_at is committed the event is never delivered again, not  *)
(* even by a relay that fetched its batch earlier.                         *)
NoDeliveryAfterPublished ==
  [][\A e \in publishedAt : delivered'[e] = delivered[e]]_<<tableVars, relayVars>>

=============================================================================
