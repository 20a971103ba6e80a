----------------------------- MODULE UnitOfWork -----------------------------
(***************************************************************************)
(* SQLAlchemyUnitOfWork, driven the way every command handler drives it:   *)
(*                                                                         *)
(*    async with uow:  find; domain method; save; collect; commit          *)
(*                                                                         *)
(* There is one unit of work per command (the container builds it per      *)
(* request), with a session of its own, and any number run at once, each   *)
(* in the mode it was constructed with.  The container asks for the outbox *)
(* (use_outbox=True); the default of the class, dispatch in process, is    *)
(* open to whoever constructs a unit of work without it.                   *)
(*                                                                         *)
(* Each await is a place where the command can be interrupted, that of the *)
(* rollback included: by an exception of the database, of a subscriber or  *)
(* of the domain, by cancellation, or by the death of the process.         *)
(*                                                                         *)
(* The list of pending events is kept as a set: every command records      *)
(* distinct events, and the order inside one command is left open.         *)
(***************************************************************************)
EXTENDS OutboxTable

CONSTANTS
  Commands,   (* the commands that are executed, one unit of work each      *)
  EventsOf,   (* EventsOf[c]: events the aggregate of command c records     *)
  Modes       (* the ways the units of work may have been constructed       *)

ASSUME CommandsAssumption ==
  /\ EventsOf \in [Commands -> SUBSET Events]
  /\ \A c, d \in Commands : c # d => EventsOf[c] \cap EventsOf[d] = {}
  /\ Modes \subseteq [Commands -> BOOLEAN]

VARIABLES
  useOutbox, (* useOutbox[c]: the mode its unit of work was constructed with *)
  uow,       (* uow[c]: how far command c has come                           *)
  pending,   (* pending[c]: _pending_events                                  *)
  handled,   (* handled[c]: those the loop of commit has been through        *)
  staged,    (* staged[c]: OutboxORM objects added to the session            *)
  dirty,     (* dirty[c]: the session holds the aggregate's change           *)
  durable    (* commands whose aggregate change is committed                 *)

uowVars == <<useOutbox, uow, pending, handled, staged, dirty, durable>>

Phases == {"new", "open", "saved", "collected", "dispatching",
           "committed", "left", "failed", "abandoned"}

(* Inside the `async with` block: an exception reaches __aexit__. *)
InBlock == {"open", "saved", "collected", "dispatching"}

InFlight(c) == uow[c] \in InBlock

UowTypeOK ==
  /\ useOutbox \in [Commands -> BOOLEAN]
  /\ uow \in [Commands -> Phases]
  /\ pending \in [Commands -> SUBSET Events]
  /\ handled \in [Commands -> SUBSET Events]
  /\ staged \in [Commands -> SUBSET Events]
  /\ dirty \in [Commands -> BOOLEAN]
  /\ durable \in SUBSET Commands

UowInit ==
  /\ useOutbox \in Modes
  /\ uow = [c \in Commands |-> "new"]
  /\ pending = [c \in Commands |-> {}]
  /\ handled = [c \in Commands |-> {}]
  /\ staged = [c \in Commands |-> {}]
  /\ dirty = [c \in Commands |-> FALSE]
  /\ durable = {}

-----------------------------------------------------------------------------

GoTo(c, phase) == uow' = [uow EXCEPT ![c] = phase]

(* The session is closed, or rolled back: what it staged is discarded. *)
DropSession(c) == /\ staged' = [staged EXCEPT ![c] = {}]
                  /\ dirty' = [dirty EXCEPT ![c] = FALSE]

ClearList(c) == /\ pending' = [pending EXCEPT ![c] = {}]
                /\ handled' = [handled EXCEPT ![c] = {}]

(* Mutant of Rollback: the collected events stay. *)
RollbackSessionOnly(c) ==
  DropSession(c) /\ UNCHANGED <<pending, handled>> /\ GoTo(c, "failed")

(* __aexit__ with an exception: the session is rolled back, then the       *)
(* collected events are dropped and the session is closed ...              *)
Rollback(c) == DropSession(c) /\ ClearList(c) /\ GoTo(c, "failed")

(* ... unless session.rollback itself raises or is cancelled: then neither *)
(* the list is cleared nor the session closed.  The unit of work is        *)
(* garbage with what it holds, and its transaction is never committed.     *)
RollbackError(c) ==
  UNCHANGED <<pending, handled, staged, dirty>> /\ GoTo(c, "abandoned")

(* __aenter__ opens a new session. *)
Enter(c) ==
  /\ uow[c] = "new"
  /\ GoTo(c, "open")
  /\ DropSession(c)
  /\ UNCHANGED <<pending, handled, durable, tableVars>>

(* The aggregate is not found: the handler returns inside the block, and   *)
(* __aexit__, given no exception, only closes the session.                 *)
LeaveNotFound(c) ==
  /\ uow[c] = "open"
  /\ GoTo(c, "left")
  /\ DropSession(c)
  /\ UNCHANGED <<pending, handled, durable, tableVars>>

(* repository.save or repository.delete: a change staged in the session. *)
Save(c) ==
  /\ uow[c] = "open"
  /\ GoTo(c, "saved")
  /\ dirty' = [dirty EXCEPT ![c] = TRUE]
  /\ UNCHANGED <<pending, handled, staged, durable, tableVars>>

(* uow.collect(aggregate.collect_events()) *)
Collect(c) ==
  /\ uow[c] = "saved"
  /\ GoTo(c, "collected")
  /\ pending' = [pending EXCEPT ![c] = @ \cup EventsOf[c]]
  /\ UNCHANGED <<handled, staged, dirty, durable, tableVars>>

(* Mutant of StageRow: the row is written in a transaction of its own. *)
StageRowOwnSession(c, e) ==
  /\ useOutbox[c]
  /\ uow[c] = "collected"
  /\ e \in pending[c] \ handled[c]
  /\ handled' = [handled EXCEPT ![c] = @ \cup {e}]
  /\ rows' = rows \cup {e}
  /\ now' = now + 1
  /\ createdAt' = [createdAt EXCEPT ![e] = now + 1]
  /\ UNCHANGED <<uow, pending, staged, dirty, durable, publishedAt, delivered>>

(* One turn of commit's loop in outbox mode: OutboxEventPublisher.publish  *)
(* adds a row to the session, stamped with the present time.               *)
StageRow(c, e) ==
  /\ useOutbox[c]
  /\ uow[c] = "collected"
  /\ e \in pending[c] \ handled[c]
  /\ handled' = [handled EXCEPT ![c] = @ \cup {e}]
  /\ staged' = [staged EXCEPT ![c] = @ \cup {e}]
  /\ now' = now + 1
  /\ createdAt' = [createdAt EXCEPT ![e] = now + 1]
  /\ UNCHANGED <<uow, pending, dirty, durable, rows, publishedAt, delivered>>

(* Mutants of FlushCommit: only the rows, or only the change, get through. *)
FlushCommitRowsOnly(c) ==
  rows' = rows \cup staged[c] /\ DropSession(c) /\ UNCHANGED durable

FlushCommitChangeOnly(c) ==
  durable' = durable \cup {c} /\ DropSession(c) /\ UNCHANGED rows

(* session.flush and session.commit: the aggregate's change and whatever   *)
(* rows the session holds become durable in one transaction.               *)
FlushCommit(c) ==
  /\ durable' = IF dirty[c] THEN durable \cup {c} ELSE durable
  /\ rows' = rows \cup staged[c]
  /\ DropSession(c)

(* commit in outbox mode, after its loop. *)
CommitOutbox(c) ==
  /\ useOutbox[c]
  /\ uow[c] = "collected"
  /\ pending[c] \subseteq handled[c]
  /\ FlushCommit(c)
  /\ ClearList(c)
  /\ GoTo(c, "committed")
  /\ UNCHANGED <<publishedAt, createdAt, now, delivered>>

(* Mutant of CommitFirst: the events go out before the commit. *)
CommitLater(c) ==
  /\ ~useOutbox[c]
  /\ uow[c] = "collected"
  /\ GoTo(c, "dispatching")
  /\ UNCHANGED <<pending, handled, staged, dirty, durable, tableVars>>

(* flush or session.commit raises, after the list was cleared, and so does *)
(* the rollback that follows.                                              *)
FlushError(c) ==
  /\ useOutbox[c]
  /\ uow[c] = "collected"
  /\ pending[c] \subseteq handled[c]
  /\ ClearList(c)
  /\ GoTo(c, "abandoned")
  /\ UNCHANGED <<staged, dirty, durable, tableVars>>

(* The database commits, but the connection breaks before it has answered: *)
(* commit raises, and __aexit__ rolls back what is no longer there, or     *)
(* fails in the attempt.                                                   *)
CommitUnanswered(c) ==
  /\ uow[c] = "collected"
  /\ useOutbox[c] => pending[c] \subseteq handled[c]
  /\ FlushCommit(c)
  /\ \/ ClearList(c) /\ GoTo(c, "failed")
     \/ useOutbox[c] /\ ClearList(c) /\ GoTo(c, "abandoned")
     \/ ~useOutbox[c] /\ UNCHANGED <<pending, handled>> /\ GoTo(c, "abandoned")
  /\ UNCHANGED <<publishedAt, createdAt, now, delivered>>

(* commit in in-process mode: first the data ... *)
CommitFirst(c) ==
  /\ ~useOutbox[c]
  /\ uow[c] = "collected"
  /\ FlushCommit(c)
  /\ GoTo(c, "dispatching")
  /\ UNCHANGED <<pending, handled, publishedAt, createdAt, now, delivered>>

(* ... then one event after the other to the subscribers ... *)
Dispatch(c, e) ==
  /\ uow[c] = "dispatching"
  /\ e \in pending[c] \ handled[c]
  /\ Deliver(e, 1)
  /\ handled' = [handled EXCEPT ![c] = @ \cup {e}]
  /\ UNCHANGED <<uow, pending, staged, dirty, durable,
                 rows, publishedAt, createdAt, now>>

(* Mutant of FinishDispatch: the loop ends after its first turn. *)
FinishAfterFirst(c) ==
  /\ uow[c] = "dispatching"
  /\ handled[c] # {}
  /\ ClearList(c)
  /\ GoTo(c, "committed")
  /\ UNCHANGED <<staged, dirty, durable, tableVars>>

(* ... and at the end of the loop the list is cleared. *)
FinishDispatch(c) ==
  /\ uow[c] = "dispatching"
  /\ pending[c] \subseteq handled[c]
  /\ ClearList(c)
  /\ GoTo(c, "committed")
  /\ UNCHANGED <<staged, dirty, durable, tableVars>>

(* An exception or a cancellation inside the block; nobody else sees what  *)
(* is between it and the end of the rollback.                              *)
Fail(c) ==
  /\ InFlight(c)
  /\ Rollback(c) \/ RollbackError(c)
  /\ UNCHANGED <<durable, tableVars>>

(* A subscriber raises after others, or it itself, took the event: the     *)
(* exception leaves commit through __aexit__, the data stay committed.     *)
FailHalfDelivered(c, e) ==
  /\ uow[c] = "dispatching"
  /\ e \in pending[c] \ handled[c]
  /\ Deliver(e, 1)
  /\ Rollback(c) \/ RollbackError(c)
  /\ UNCHANGED <<durable, rows, publishedAt, createdAt, now>>

CommonStep(c) ==
  \/ Enter(c) \/ LeaveNotFound(c) \/ Save(c) \/ Collect(c)
  \/ CommitUnanswered(c) \/ Fail(c)

OutboxStep(c) ==
  (\E e \in Events : StageRow(c, e)) \/ FlushError(c) \/ CommitOutbox(c)

InProcessStep(c) ==
  \/ CommitFirst(c)
  \/ \E e \in Events : Dispatch(c, e) \/ FailHalfDelivered(c, e)
  \/ FinishDispatch(c)

UowStep(c) ==
  /\ CommonStep(c) \/ OutboxStep(c) \/ InProcessStep(c)
  /\ UNCHANGED useOutbox

-----------------------------------------------------------------------------

(* Outbox mode: a change is durable together with the row of every event   *)
(* it recorded, and a change that is not durable has left no row, wherever *)
(* the command was interrupted (outbox_publisher.py:6-9).                  *)
ChangeAndRowsTogether ==
  \A c \in Commands :
    IF useOutbox[c] /\ c \in durable THEN EventsOf[c] \subseteq rows
                                     ELSE EventsOf[c] \cap rows = {}

(* No subscriber is told of a change that is not committed, in either mode *)
(* ("data is durable before handlers see it", unit_of_work.py:139).        *)
HandlersSeeDurableData ==
  \A c \in Commands, e \in Events :
    e \in EventsOf[c] /\ delivered[e] > 0 => c \in durable

(* In-process mode: a commit that returned normally has dispatched every   *)
(* event exactly once, and no event is dispatched twice even when a        *)
(* subscriber raises.                                                      *)
InProcessDispatchedOnce ==
  \A c \in Commands : ~useOutbox[c] => \A e \in EventsOf[c] :
    /\ delivered[e] <= 1
    /\ uow[c] = "committed" => delivered[e] = 1

(* A unit of work that is over holds nothing back, no event to be published *)
(* by a later commit and no change in its session: unless its rollback was  *)
(* itself interrupted (unit_of_work.py:147).  Such a unit keeps what it had *)
(* collected, and if it had not committed nobody ever gets any of it.       *)
NothingLeftBehind ==
  \A c \in Commands : ~InFlight(c) =>
    \/ pending[c] = {} /\ staged[c] = {} /\ ~dirty[c]
    \/ /\ uow[c] = "abandoned"
       /\ c \in durable \/ \A e \in pending[c] \cup staged[c] :
                             e \notin rows /\ delivered[e] = 0

=============================================================================
