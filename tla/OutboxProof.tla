----------------------------- MODULE OutboxProof -----------------------------
(***************************************************************************)
(* Proofs about module Outbox, for every set of workers, commands and      *)
(* events, every batch size and every bound on redeliveries.               *)
(***************************************************************************)
EXTENDS Outbox, TLAPS

-----------------------------------------------------------------------------
(* Type correctness. *)

LEMMA InitTypeOK == Init => TypeOK
  BY CommandsAssumption
     DEF Init, TableInit, UowInit, RelayInit, TypeOK, TableTypeOK, UowTypeOK,
         RelayTypeOK, Phases

(* A command keeps the types, whichever step it takes. *)
LEMMA UowStepTypeOK ==
  ASSUME NEW c \in Commands, TypeOK, UowStep(c), UNCHANGED relayVars
  PROVE  TypeOK'
  <1> USE DEF TypeOK, TableTypeOK, UowTypeOK, RelayTypeOK, Phases, tableVars,
              relayVars, GoTo, DropSession, ClearList, Rollback, RollbackError
  <1>0. useOutbox' = useOutbox
    BY DEF UowStep
  <1> USE <1>0
  <1>1. CASE Enter(c)
    BY <1>1 DEF Enter
  <1>2. CASE LeaveNotFound(c)
    BY <1>2 DEF LeaveNotFound
  <1>3. CASE Save(c)
    BY <1>3 DEF Save
  <1>4. CASE Collect(c)
    BY <1>4, CommandsAssumption DEF Collect
  <1>5. ASSUME NEW e \in Events, StageRow(c, e) PROVE TypeOK'
    BY <1>5 DEF StageRow
  <1>6. CASE CommitOutbox(c) \/ FlushError(c)
    BY <1>6 DEF CommitOutbox, FlushError, FlushCommit
  <1>7. CASE CommitFirst(c) \/ CommitUnanswered(c)
    BY <1>7 DEF CommitFirst, CommitUnanswered, FlushCommit
  <1>8. ASSUME NEW e \in Events, Dispatch(c, e) PROVE TypeOK'
    BY <1>8 DEF Dispatch, Deliver
  <1>9. CASE FinishDispatch(c)
    BY <1>9 DEF FinishDispatch
  <1>10. CASE Fail(c)
    BY <1>10 DEF Fail
  <1>11. ASSUME NEW e \in Events, FailHalfDelivered(c, e) PROVE TypeOK'
    <2>1. TableTypeOK' /\ RelayTypeOK'
      BY <1>11 DEF FailHalfDelivered, Deliver
    <2>2. UowTypeOK'
      BY <1>11 DEF FailHalfDelivered
    <2>3. QED
      BY <2>1, <2>2
  <1>12. QED
    BY <1>1, <1>2, <1>3, <1>4, <1>5, <1>6, <1>7, <1>8, <1>9, <1>10, <1>11
       DEF UowStep, CommonStep, OutboxStep, InProcessStep

(* A rolled back transaction of a relay keeps the types. *)
LEMMA RollbackTypeOK ==
  ASSUME NEW w \in Workers, NEW phase \in {"stopped", "sleeping"}, TypeOK,
         RollbackBatch(w, phase)
  PROVE  TableTypeOK' /\ RelayTypeOK'
  BY DEF TypeOK, TableTypeOK, RelayTypeOK, RollbackBatch, EndTransaction, tableVars

LEMMA CrashTypeOK ==
  ASSUME NEW w \in Workers, TypeOK, Crash(w)
  PROVE  TypeOK'
  <1>1. TableTypeOK' /\ RelayTypeOK'
    BY RollbackTypeOK DEF Crash
  <1>2. UowTypeOK'
    BY DEF Crash, TypeOK, UowTypeOK, Phases
  <1>3. QED
    BY <1>1, <1>2 DEF TypeOK

(* The steps of a relay keep the types. *)
LEMMA RelayStepTypeOK ==
  ASSUME NEW w \in Workers, TypeOK, RelayStep(w)
  PROVE  TypeOK'
  <1>1. UowTypeOK'
    BY DEF RelayStep, TypeOK, UowTypeOK, uowVars
  <1>2. TableTypeOK' /\ RelayTypeOK'
    <2> USE DEF TypeOK, TableTypeOK, RelayTypeOK, tableVars
    <2>1. CASE Fetch(w)
      BY <2>1 DEF Fetch, Selectable
    <2>2. ASSUME NEW e \in Events, Publish(w, e)
          PROVE  TableTypeOK' /\ RelayTypeOK'
      BY <2>2 DEF Publish, Deliver
    <2>3. ASSUME NEW e \in Events, SkipRow(w, e)
          PROVE  TableTypeOK' /\ RelayTypeOK'
      BY <2>3 DEF SkipRow
    <2>4. ASSUME NEW e \in Events, SkipDelivered(w, e)
          PROVE  TableTypeOK' /\ RelayTypeOK'
      BY <2>4 DEF SkipDelivered, Deliver
    <2>5. CASE CommitBatch(w)
      BY <2>5 DEF CommitBatch, EndTransaction
    <2>6. CASE PollError(w)
      BY <2>6, RollbackTypeOK DEF PollError
    <2>7. QED
      BY <2>1, <2>2, <2>3, <2>4, <2>5, <2>6 DEF RelayStep, Turn
  <1>3. QED
    BY <1>1, <1>2 DEF TypeOK

LEMMA NextTypeOK == TypeOK /\ [Next]_vars => TypeOK'
  <1> SUFFICES ASSUME TypeOK, [Next]_vars PROVE TypeOK'
    OBVIOUS
  <1>1. ASSUME NEW c \in Commands, CommandStep(c) PROVE TypeOK'
    BY <1>1, UowStepTypeOK DEF CommandStep
  <1>2. ASSUME NEW w \in Workers, StartWorker(w) PROVE TypeOK'
    BY <1>2 DEF StartWorker, Start, TypeOK, TableTypeOK, UowTypeOK, RelayTypeOK,
                tableVars, uowVars
  <1>3. ASSUME NEW w \in Workers, StopWorker(w) PROVE TypeOK'
    <2>1. TableTypeOK' /\ RelayTypeOK'
      BY <1>3, RollbackTypeOK DEF StopWorker, Stop
    <2>2. UowTypeOK'
      BY <1>3 DEF StopWorker, TypeOK, UowTypeOK, uowVars
    <2>3. QED
      BY <2>1, <2>2 DEF TypeOK
  <1>4. ASSUME NEW w \in Workers, Crash(w) PROVE TypeOK'
    BY <1>4, CrashTypeOK
  <1>5. ASSUME NEW w \in Workers, RelayStep(w) PROVE TypeOK'
    BY <1>5, RelayStepTypeOK
  <1>6. CASE UNCHANGED vars
    BY <1>6 DEF vars, tableVars, uowVars, relayVars, TypeOK, TableTypeOK, UowTypeOK,
                RelayTypeOK
  <1>7. QED
    BY <1>1, <1>2, <1>3, <1>4, <1>5, <1>6 DEF Next

(* Every variable of the outbox keeps its type, whatever commands, relays,  *)
(* restarts and crashes do (outbox_relay.py, unit_of_work.py).             *)
THEOREM TypeCorrect == Spec => []TypeOK
  BY InitTypeOK, NextTypeOK, PTL DEF Spec

-----------------------------------------------------------------------------
(***************************************************************************)
(* The inductive invariant.  CommandInv says what a unit of work holds in  *)
(* each phase, RowInv how rows relate to committed commands, DispatchInv   *)
(* which events left a unit of work in in-process mode, LockInv what a     *)
(* relay has in its hands, and AccountInv that every delivery of a row is  *)
(* accounted for, by a mark or as one whose mark was lost.                 *)
(***************************************************************************)

(* A unit of work between collect and the end of its commit. *)
HasEvents(c) == uow[c] \in {"collected", "dispatching"}

CommandOK(c) ==
  /\ handled[c] \subseteq pending[c]
  /\ pending[c] \cup staged[c] \subseteq EventsOf[c]
  /\ uow[c] # "abandoned" =>
       /\ pending[c] = IF HasEvents(c) THEN EventsOf[c] ELSE {}
       /\ staged[c] = IF useOutbox[c] THEN handled[c] ELSE {}
       /\ dirty[c] <=> uow[c] \in {"saved", "collected"}
  /\ uow[c] = "collected" /\ ~useOutbox[c] => handled[c] = {}
  /\ uow[c] = "dispatching" => ~useOutbox[c]
  /\ uow[c] \in {"dispatching", "committed"} => c \in durable
  /\ c \in durable => uow[c] \in {"dispatching", "committed", "failed", "abandoned"}

CommandInv == \A c \in Commands : CommandOK(c)

RowInv ==
  /\ \A c \in Commands : IF useOutbox[c] /\ c \in durable THEN EventsOf[c] \subseteq rows
                                                          ELSE EventsOf[c] \cap rows = {}
  /\ \A e \in rows : \E c \in durable : useOutbox[c] /\ e \in EventsOf[c]

(* A unit of work in in-process mode that failed may have been anywhere in *)
(* its loop.                                                               *)
DispatchInv ==
  \A c \in Commands : \A e \in EventsOf[c] :
    /\ c \notin durable => delivered[e] = 0
    /\ ~useOutbox[c] =>
         /\ delivered[e] \in {0, 1}
         /\ uow[c] = "dispatching" => (delivered[e] = 1 <=> e \in handled[c])
         /\ uow[c] = "committed" => delivered[e] = 1

LockInv ==
  /\ publishedAt \subseteq rows
  /\ \A w \in Workers : /\ batch[w] \subseteq rows \ publishedAt
                        /\ todo[w] \subseteq batch[w]
                        /\ marked[w] \subseteq batch[w] \ todo[w]
                        /\ relay[w] # "polling" => batch[w] = {}
  /\ NoSharedRow

MarkedSomewhere(e) == e \in publishedAt \/ \E w \in Workers : e \in marked[w]

AccountInv ==
  \A e \in Events :
    IF e \in rows THEN delivered[e] = redo[e] + (IF MarkedSomewhere(e) THEN 1 ELSE 0)
                  ELSE delivered[e] \in {0, 1} /\ redo[e] = 0

IInv == TypeOK /\ CommandInv /\ RowInv /\ DispatchInv /\ LockInv /\ AccountInv

LEMMA InitIInv == Init => IInv
  <1> SUFFICES ASSUME Init PROVE IInv
    OBVIOUS
  <1> USE DEF Init, TableInit, UowInit, RelayInit
  <1>1. TypeOK
    BY InitTypeOK
  <1>2. CommandInv
    BY DEF CommandInv, CommandOK, HasEvents
  <1>3. RowInv /\ DispatchInv
    BY CommandsAssumption DEF RowInv, DispatchInv
  <1>4. LockInv
    BY DEF LockInv, NoSharedRow
  <1>5. AccountInv
    BY DEF AccountInv
  <1>6. QED
    BY <1>1, <1>2, <1>3, <1>4, <1>5 DEF IInv

-----------------------------------------------------------------------------
(* Steps of the commands. *)

(* What a step of a command can do to the table and to the subscribers:    *)
(* commit its change with all its rows, commit it without, or pass one of  *)
(* its events to the subscribers.                                          *)
CommitsRows(c) ==
  /\ uow[c] = "collected" /\ useOutbox[c]
  /\ rows' = rows \cup EventsOf[c]
  /\ durable' = durable \cup {c}
  /\ delivered' = delivered

CommitsNoRow(c) ==
  /\ uow[c] = "collected" /\ ~useOutbox[c]
  /\ rows' = rows
  /\ durable' = durable \cup {c}
  /\ delivered' = delivered

Dispatches(c, e) ==
  /\ uow[c] = "dispatching"
  /\ e \in EventsOf[c] \ handled[c]
  /\ Deliver(e, 1)
  /\ UNCHANGED <<rows, durable>>

LEMMA CommandTable ==
  ASSUME NEW c \in Commands, IInv, UowStep(c)
  PROVE  /\ UNCHANGED <<useOutbox, publishedAt>>
         /\ \/ UNCHANGED <<rows, durable, delivered>>
            \/ CommitsRows(c)
            \/ CommitsNoRow(c)
            \/ \E e \in Events : Dispatches(c, e)
  <1> USE DEF UowStep
  <1>1. CASE \/ Enter(c) \/ LeaveNotFound(c) \/ Save(c) \/ Collect(c) \/ Fail(c)
             \/ (\E e \in Events : StageRow(c, e)) \/ FlushError(c) \/ FinishDispatch(c)
    BY <1>1 DEF Enter, LeaveNotFound, Save, Collect, Fail, StageRow, FlushError,
                FinishDispatch, tableVars
  <1>2. CASE CommitOutbox(c) \/ CommitUnanswered(c) \/ CommitFirst(c)
    <2>1. /\ uow[c] = "collected" /\ FlushCommit(c) /\ UNCHANGED <<publishedAt, delivered>>
          /\ useOutbox[c] => pending[c] \subseteq handled[c]
      BY <1>2 DEF CommitOutbox, CommitUnanswered, CommitFirst
    <2>2. /\ dirty[c] /\ pending[c] = EventsOf[c] /\ handled[c] \subseteq pending[c]
          /\ staged[c] = IF useOutbox[c] THEN handled[c] ELSE {}
      BY <2>1 DEF IInv, CommandInv, CommandOK, HasEvents
    <2>3. durable' = durable \cup {c} /\ rows' = rows \cup staged[c]
      BY <2>1, <2>2 DEF FlushCommit
    <2>4. useOutbox' = useOutbox
      OBVIOUS
    <2>5. CASE useOutbox[c]
      BY <2>1, <2>2, <2>3, <2>4, <2>5 DEF CommitsRows
    <2>6. CASE ~useOutbox[c]
      BY <2>1, <2>2, <2>3, <2>4, <2>6 DEF CommitsNoRow
    <2>7. QED
      BY <2>5, <2>6
  <1>3. ASSUME NEW e \in Events, Dispatch(c, e) \/ FailHalfDelivered(c, e)
        PROVE  Dispatches(c, e) /\ UNCHANGED <<useOutbox, publishedAt>>
    <2>1. pending[c] = EventsOf[c]
      BY <1>3 DEF Dispatch, FailHalfDelivered, IInv, CommandInv, CommandOK, HasEvents
    <2>2. QED
      BY <1>3, <2>1 DEF Dispatches, Dispatch, FailHalfDelivered
  <1>4. QED
    BY <1>1, <1>2, <1>3 DEF CommonStep, OutboxStep, InProcessStep

LEMMA CommandKeepsCommandInv ==
  ASSUME NEW c \in Commands, IInv, UowStep(c)
  PROVE  CommandInv'
  <1> USE DEF CommandOK, GoTo, DropSession, ClearList
  <1>0. /\ CommandOK(c) /\ useOutbox' = useOutbox
        /\ uow \in [Commands -> Phases] /\ dirty \in [Commands -> BOOLEAN]
        /\ pending \in [Commands -> SUBSET Events] /\ handled \in [Commands -> SUBSET Events]
        /\ staged \in [Commands -> SUBSET Events]
    BY DEF UowStep, IInv, TypeOK, UowTypeOK, CommandInv, CommandOK
  <1>1. ASSUME NEW d \in Commands \ {c} PROVE CommandOK(d)'
    <2>1. UNCHANGED <<uow[d], pending[d], handled[d], staged[d], dirty[d]>>
      BY <1>0 DEF UowStep, CommonStep, OutboxStep, InProcessStep, Enter, LeaveNotFound, Save,
         Collect, StageRow, CommitOutbox, CommitUnanswered, FlushError, Fail, CommitFirst,
         Dispatch, FailHalfDelivered, FinishDispatch, FlushCommit, Rollback, RollbackError
    <2>2. d \in durable' <=> d \in durable
      BY CommandTable DEF CommitsRows, CommitsNoRow, Dispatches
    <2>3. QED
      BY <1>0, <2>1, <2>2 DEF HasEvents, IInv, CommandInv, CommandOK
  <1> SUFFICES CommandOK(c)'
    BY <1>1 DEF CommandInv
  <1> USE DEF HasEvents
  <1>2. CASE Enter(c) \/ LeaveNotFound(c) \/ Save(c)
    BY <1>0, <1>2 DEF Enter, LeaveNotFound, Save
  <1>3. CASE Collect(c)
    BY <1>0, <1>3 DEF Collect
  <1>4. ASSUME NEW e \in Events, StageRow(c, e) PROVE CommandOK(c)'
    BY <1>0, <1>4 DEF StageRow
  <1>5. CASE CommitOutbox(c) \/ FlushError(c)
    BY <1>0, <1>5 DEF CommitOutbox, FlushError, FlushCommit
  <1>6. CASE CommitUnanswered(c)
    BY <1>0, <1>6 DEF CommitUnanswered, FlushCommit
  <1>7. CASE CommitFirst(c) \/ FinishDispatch(c)
    BY <1>0, <1>7 DEF CommitFirst, FinishDispatch, FlushCommit
  <1>8. ASSUME UNCHANGED durable, uow[c] \in InBlock, Rollback(c) \/ RollbackError(c)
        PROVE  CommandOK(c)'
    <2>1. CASE Rollback(c)
      BY <1>0, <1>8, <2>1 DEF Rollback, InBlock
    <2>2. CASE RollbackError(c)
      <3>1. UNCHANGED <<pending, handled, staged, durable, useOutbox>> /\ uow'[c] = "abandoned"
        BY <1>0, <1>8, <2>2 DEF RollbackError
      <3>2. QED
        BY <1>0, <3>1
    <2>3. QED
      BY <1>8, <2>1, <2>2
  <1>9. ASSUME NEW e \in Events, Dispatch(c, e) PROVE CommandOK(c)'
    BY <1>0, <1>9 DEF Dispatch
  <1>10. CASE Fail(c) \/ \E e \in Events : FailHalfDelivered(c, e)
    BY <1>8, <1>10 DEF Fail, FailHalfDelivered, InFlight, InBlock
  <1>11. QED
    BY <1>2, <1>3, <1>4, <1>5, <1>6, <1>7, <1>9, <1>10
       DEF UowStep, CommonStep, OutboxStep, InProcessStep

LEMMA CommandKeepsRowInv ==
  ASSUME NEW c \in Commands, IInv, UowStep(c)
  PROVE  RowInv'
  <1>1. useOutbox' = useOutbox
    BY DEF UowStep
  <1>2. CASE UNCHANGED <<rows, durable>>
    BY <1>1, <1>2 DEF IInv, RowInv
  <1>3. CASE CommitsRows(c)
    <2>1. \A d \in Commands \ {c} : EventsOf[d] \cap EventsOf[c] = {}
      BY CommandsAssumption
    <2>2. QED
      BY <1>1, <1>3, <2>1 DEF CommitsRows, IInv, RowInv
  <1>4. CASE CommitsNoRow(c)
    BY <1>1, <1>4 DEF CommitsNoRow, IInv, RowInv
  <1>5. QED
    BY <1>2, <1>3, <1>4, CommandTable DEF Dispatches

(* An event of c is no event of another command, so that its delivery      *)
(* changes the count of c's events alone, and it is the first of its event. *)
LEMMA DispatchedFirst ==
  ASSUME NEW c \in Commands, IInv, NEW e \in Events, Dispatches(c, e)
  PROVE  /\ c \in durable /\ ~useOutbox[c] /\ e \notin rows
         /\ delivered[e] = 0 /\ delivered'[e] = 1
         /\ \A f \in Events \ {e} : delivered'[f] = delivered[f]
         /\ \A d \in Commands \ {c} : e \notin EventsOf[d]
  <1>1. c \in durable /\ ~useOutbox[c]
    BY DEF Dispatches, IInv, CommandInv, CommandOK
  <1>2. delivered[e] = 0
    BY <1>1 DEF Dispatches, IInv, DispatchInv
  <1>3. e \notin rows
    BY <1>1 DEF Dispatches, IInv, RowInv
  <1>4. \A d \in Commands \ {c} : e \notin EventsOf[d]
    BY CommandsAssumption DEF Dispatches
  <1>5. QED
    BY <1>1, <1>2, <1>3, <1>4 DEF Dispatches, Deliver, IInv, TypeOK, TableTypeOK

(* A step of a command that delivers nothing does not end its loop early.  *)
LEMMA CommandKeepsDispatchInv ==
  ASSUME NEW c \in Commands, IInv, UowStep(c)
  PROVE  DispatchInv'
  <1> USE DEF UowStep
  <1>1. CASE \/ Enter(c) \/ LeaveNotFound(c) \/ Save(c) \/ Collect(c) \/ Fail(c)
             \/ (\E e \in Events : StageRow(c, e)) \/ FlushError(c)
    <2>1. /\ UNCHANGED <<useOutbox, durable, delivered>>
          /\ \A d \in Commands \ {c} : uow'[d] = uow[d] /\ handled'[d] = handled[d]
          /\ uow'[c] \notin {"dispatching", "committed"} \/ useOutbox[c]
      BY <1>1 DEF Enter, LeaveNotFound, Save, Collect, Fail, StageRow, FlushError, GoTo,
                  ClearList, Rollback, RollbackError, tableVars, IInv, TypeOK, UowTypeOK
    <2>2. QED
      BY <2>1 DEF IInv, DispatchInv
  <1>2. CASE CommitOutbox(c) \/ CommitUnanswered(c) \/ CommitFirst(c)
    <2>1. /\ uow[c] = "collected" /\ UNCHANGED <<useOutbox, delivered>>
          /\ durable' = durable \/ durable' = durable \cup {c}
          /\ \A d \in Commands \ {c} : uow'[d] = uow[d] /\ handled'[d] = handled[d]
          /\ uow'[c] = "dispatching" => handled'[c] = handled[c]
          /\ uow'[c] = "committed" => useOutbox[c]
      BY <1>2 DEF CommitOutbox, CommitUnanswered, CommitFirst, FlushCommit, GoTo, ClearList,
                  IInv, TypeOK, UowTypeOK
    <2>2. c \notin durable /\ (~useOutbox[c] => handled[c] = {})
      BY <2>1 DEF IInv, CommandInv, CommandOK
    <2>3. QED
      BY <2>1, <2>2 DEF IInv, DispatchInv
  <1>3. ASSUME NEW e \in Events, Dispatch(c, e) \/ FailHalfDelivered(c, e)
        PROVE  DispatchInv'
    <2>1. Dispatches(c, e)
      <3>1. pending[c] = EventsOf[c]
        BY <1>3 DEF Dispatch, FailHalfDelivered, IInv, CommandInv, CommandOK, HasEvents
      <3>2. QED
        BY <1>3, <3>1 DEF Dispatches, Dispatch, FailHalfDelivered
    <2>2. /\ UNCHANGED <<useOutbox, durable>>
          /\ \A d \in Commands \ {c} : uow'[d] = uow[d] /\ handled'[d] = handled[d]
          /\ \/ uow'[c] = "dispatching" /\ handled'[c] = handled[c] \cup {e}
             \/ uow'[c] \in {"failed", "abandoned"}
      BY <1>3 DEF Dispatch, FailHalfDelivered, GoTo, ClearList, Rollback, RollbackError, IInv,
                  TypeOK, UowTypeOK
    <2>3. QED
      BY <2>1, <2>2, DispatchedFirst, CommandsAssumption DEF IInv, DispatchInv, Dispatches
  <1>4. CASE FinishDispatch(c)
    <2>1. EventsOf[c] \subseteq handled[c]
      BY <1>4 DEF FinishDispatch, IInv, CommandInv, CommandOK, HasEvents
    <2>2. QED
      BY <1>4, <2>1 DEF FinishDispatch, GoTo, ClearList, tableVars, IInv, TypeOK, UowTypeOK,
                        DispatchInv
  <1>5. QED
    BY <1>1, <1>2, <1>3, <1>4 DEF CommonStep, OutboxStep, InProcessStep

(* The account of the rows: a row is new with an event that nobody has     *)
(* seen, and what is dispatched in process is no row.                      *)
LEMMA CommandKeepsAccountInv ==
  ASSUME NEW c \in Commands, IInv, UowStep(c), UNCHANGED relayVars
  PROVE  AccountInv'
  <1>1. UNCHANGED <<publishedAt, marked, redo>>
    BY CommandTable DEF relayVars
  <1>2. \A e \in Events : MarkedSomewhere(e)' <=> MarkedSomewhere(e)
    BY <1>1 DEF MarkedSomewhere
  <1>3. CASE rows' = rows /\ delivered' = delivered
    BY <1>1, <1>2, <1>3 DEF IInv, AccountInv
  <1>4. CASE CommitsRows(c)
    <2>1. \A e \in EventsOf[c] : delivered[e] = 0 /\ e \notin rows
      BY <1>4 DEF CommitsRows, IInv, CommandInv, CommandOK, DispatchInv, RowInv
    <2>2. \A e \in EventsOf[c] : ~MarkedSomewhere(e)
      BY <2>1 DEF MarkedSomewhere, IInv, LockInv
    <2>3. ASSUME NEW e \in Events
          PROVE  IF e \in rows'
                   THEN delivered'[e] = redo'[e] + (IF MarkedSomewhere(e)' THEN 1 ELSE 0)
                   ELSE delivered'[e] \in {0, 1} /\ redo'[e] = 0
      BY <1>1, <1>2, <1>4, <2>1, <2>2 DEF CommitsRows, IInv, AccountInv
    <2>4. QED
      BY <2>3 DEF AccountInv
  <1>5. ASSUME NEW e \in Events, Dispatches(c, e) PROVE AccountInv'
    <2>1. rows' = rows
      BY <1>5 DEF Dispatches
    <2>2. e \notin rows /\ delivered'[e] = 1
          /\ \A f \in Events \ {e} : delivered'[f] = delivered[f]
      BY <1>5, DispatchedFirst
    <2>3. QED
      BY <1>1, <1>2, <2>1, <2>2 DEF IInv, AccountInv
  <1>6. QED
    BY <1>3, <1>4, <1>5, CommandTable DEF CommitsNoRow

LEMMA CommandKeepsIInv ==
  ASSUME NEW c \in Commands, IInv, CommandStep(c)
  PROVE  IInv'
  <1>1. UowStep(c) /\ UNCHANGED relayVars
    BY DEF CommandStep
  <1>2. TypeOK'
    BY <1>1, UowStepTypeOK DEF IInv
  <1>3. CommandInv' /\ RowInv' /\ DispatchInv' /\ AccountInv'
    BY <1>1, CommandKeepsCommandInv, CommandKeepsRowInv, CommandKeepsDispatchInv,
       CommandKeepsAccountInv
  <1>4. /\ rows \subseteq rows'
        /\ UNCHANGED <<publishedAt, batch, todo, marked, relay>>
    BY <1>1, CommandTable DEF CommitsRows, CommitsNoRow, Dispatches, relayVars
  <1>5. LockInv'
    BY <1>4 DEF IInv, LockInv, NoSharedRow
  <1>6. QED
    BY <1>2, <1>3, <1>5 DEF IInv

-----------------------------------------------------------------------------
(* Steps of the relays. *)

(* A transaction of a relay that is rolled back: its locks are gone, and   *)
(* the deliveries it had marked are booked in redo instead.                *)
LEMMA RollbackKeepsInv ==
  ASSUME NEW w \in Workers, NEW phase \in {"stopped", "sleeping"}, IInv,
         RollbackBatch(w, phase)
  PROVE  LockInv' /\ AccountInv'
  <1> USE DEF IInv, TypeOK, TableTypeOK, RelayTypeOK, RollbackBatch, EndTransaction,
              tableVars, LockInv
  <1>1. LockInv'
    BY DEF NoSharedRow
  <1>2. ASSUME NEW e \in Events
        PROVE  IF e \in rows'
                 THEN delivered'[e] = redo'[e] + (IF MarkedSomewhere(e)' THEN 1 ELSE 0)
                 ELSE delivered'[e] \in {0, 1} /\ redo'[e] = 0
    <2>1. CASE e \in marked[w]
      <3>1. e \notin publishedAt /\ e \in batch[w] /\ e \in rows
        BY <2>1
      <3>2. \A v \in Workers \ {w} : e \notin marked[v]
        BY <3>1 DEF NoSharedRow
      <3>3. ~MarkedSomewhere(e)' /\ MarkedSomewhere(e)
        BY <2>1, <3>1, <3>2 DEF MarkedSomewhere
      <3>4. redo'[e] = redo[e] + 1
        BY <2>1
      <3>5. QED
        BY <3>1, <3>3, <3>4 DEF AccountInv
    <2>2. CASE e \notin marked[w]
      <3>1. MarkedSomewhere(e)' <=> MarkedSomewhere(e)
        BY <2>2 DEF MarkedSomewhere
      <3>2. redo'[e] = redo[e]
        BY <2>2
      <3>3. QED
        BY <3>1, <3>2 DEF AccountInv
    <2>3. QED
      BY <2>1, <2>2
  <1>3. AccountInv'
    BY <1>2 DEF AccountInv
  <1>4. QED
    BY <1>1, <1>3

LEMMA FetchKeepsInv ==
  ASSUME NEW w \in Workers, IInv, Fetch(w)
  PROVE  LockInv' /\ AccountInv'
  <1> USE DEF IInv, TypeOK, TableTypeOK, RelayTypeOK, tableVars, LockInv
  <1>1. PICK B \in SUBSET Selectable :
          /\ batch' = [batch EXCEPT ![w] = B]
          /\ todo' = [todo EXCEPT ![w] = B]
    BY DEF Fetch
  <1>2. B \subseteq rows \ publishedAt /\ \A v \in Workers : B \cap batch[v] = {}
    BY <1>1 DEF Selectable, Locked
  <1>3. batch[w] = {} /\ marked[w] = {}
    BY DEF Fetch
  <1>4. /\ relay' = [relay EXCEPT ![w] = "polling"]
        /\ UNCHANGED <<marked, redo, rows, publishedAt, delivered>>
    BY DEF Fetch
  <1>5. LockInv'
    <2>1. publishedAt' \subseteq rows'
      BY <1>4
    <2>2. ASSUME NEW v \in Workers
          PROVE  /\ batch'[v] \subseteq rows' \ publishedAt'
                 /\ todo'[v] \subseteq batch'[v]
                 /\ marked'[v] \subseteq batch'[v] \ todo'[v]
                 /\ relay'[v] # "polling" => batch'[v] = {}
      BY <1>1, <1>2, <1>3, <1>4
    <2>3. NoSharedRow'
      BY <1>1, <1>2 DEF NoSharedRow
    <2>4. QED
      BY <2>1, <2>2, <2>3
  <1>6. AccountInv'
    BY <1>4 DEF AccountInv, MarkedSomewhere
  <1>7. QED
    BY <1>5, <1>6

(* The turn of a row moves it out of todo, with a mark or without. *)
LEMMA TurnKeepsInv ==
  ASSUME NEW w \in Workers, NEW e \in Events, IInv, Turn(w, e)
  PROVE  LockInv' /\ AccountInv'
  <1> USE DEF IInv, TypeOK, TableTypeOK, RelayTypeOK, tableVars, IsNext
  <1>1. CASE Publish(w, e)
    <2>1. /\ e \in todo[w]
          /\ todo' = [todo EXCEPT ![w] = @ \ {e}]
          /\ marked' = [marked EXCEPT ![w] = @ \cup {e}]
          /\ delivered' = [delivered EXCEPT ![e] = @ + 1]
          /\ UNCHANGED <<relay, batch, redo, rows, publishedAt>>
      BY <1>1 DEF Publish, Deliver
    <2>2. LockInv'
      BY <2>1 DEF LockInv, NoSharedRow
    <2>3. e \in batch[w] /\ e \notin publishedAt /\ e \in rows
      BY <2>1 DEF LockInv
    <2>4. \A v \in Workers : e \notin marked[v]
      BY <2>1, <2>3 DEF LockInv, NoSharedRow
    <2>5. ~MarkedSomewhere(e) /\ MarkedSomewhere(e)'
      BY <2>1, <2>3, <2>4 DEF MarkedSomewhere
    <2>6. \A d \in Events \ {e} : MarkedSomewhere(d)' <=> MarkedSomewhere(d)
      BY <2>1 DEF MarkedSomewhere
    <2>7. AccountInv'
      BY <2>1, <2>3, <2>5, <2>6 DEF AccountInv
    <2>8. QED
      BY <2>2, <2>7
  <1>2. CASE SkipRow(w, e)
    <2>1. /\ todo' = [todo EXCEPT ![w] = @ \ {e}]
          /\ UNCHANGED <<relay, batch, marked, redo, rows, publishedAt, delivered>>
      BY <1>2 DEF SkipRow
    <2>2. QED
      BY <2>1 DEF LockInv, NoSharedRow, AccountInv, MarkedSomewhere
  <1>3. CASE SkipDelivered(w, e)
    <2>1. /\ e \in todo[w]
          /\ todo' = [todo EXCEPT ![w] = @ \ {e}]
          /\ redo' = [redo EXCEPT ![e] = @ + 1]
          /\ delivered' = [delivered EXCEPT ![e] = @ + 1]
          /\ UNCHANGED <<relay, batch, marked, rows, publishedAt>>
      BY <1>3 DEF SkipDelivered, Deliver
    <2>2. LockInv'
      BY <2>1 DEF LockInv, NoSharedRow
    <2>3. e \in rows
      BY <2>1 DEF LockInv
    <2>4. \A d \in Events : MarkedSomewhere(d)' <=> MarkedSomewhere(d)
      BY <2>1 DEF MarkedSomewhere
    <2>5. AccountInv'
      BY <2>1, <2>3, <2>4 DEF AccountInv
    <2>6. QED
      BY <2>2, <2>5
  <1>4. QED
    BY <1>1, <1>2, <1>3 DEF Turn

LEMMA CommitBatchKeepsInv ==
  ASSUME NEW w \in Workers, IInv, CommitBatch(w)
  PROVE  LockInv' /\ AccountInv'
  <1> USE DEF IInv, TypeOK, TableTypeOK, RelayTypeOK
  <1>1. /\ publishedAt' = publishedAt \cup marked[w]
        /\ batch' = [batch EXCEPT ![w] = {}]
        /\ todo' = [todo EXCEPT ![w] = {}]
        /\ marked' = [marked EXCEPT ![w] = {}]
        /\ relay' = [relay EXCEPT ![w] = "sleeping"]
        /\ UNCHANGED <<redo, rows, delivered>>
    BY DEF CommitBatch, EndTransaction
  <1>2. \A v \in Workers \ {w} : batch[v] \cap marked[w] = {}
    BY DEF LockInv, NoSharedRow
  <1>3. LockInv'
    BY <1>1, <1>2 DEF LockInv, NoSharedRow
  <1>4. \A e \in Events : MarkedSomewhere(e)' <=> MarkedSomewhere(e)
    BY <1>1 DEF MarkedSomewhere
  <1>5. AccountInv'
    BY <1>1, <1>4 DEF AccountInv
  <1>6. QED
    BY <1>3, <1>5

(* What a relay does leaves the commands and the rows they wrote alone,    *)
(* and it delivers nothing but rows.                                       *)
LEMMA RelayKeepsCommands ==
  ASSUME IInv, UNCHANGED <<uowVars, rows>>,
         \A e \in Events \ rows : delivered'[e] = delivered[e]
  PROVE  CommandInv' /\ RowInv' /\ DispatchInv'
  <1>1. CommandInv' /\ RowInv'
    BY DEF IInv, CommandInv, CommandOK, HasEvents, RowInv, uowVars
  <1>2. DispatchInv'
    BY CommandsAssumption DEF IInv, DispatchInv, RowInv, uowVars
  <1>3. QED
    BY <1>1, <1>2

LEMMA RelayStepKeepsIInv ==
  ASSUME NEW w \in Workers, IInv, RelayStep(w)
  PROVE  IInv'
  <1>1. TypeOK'
    BY RelayStepTypeOK DEF IInv
  <1>2. LockInv' /\ AccountInv'
    BY FetchKeepsInv, TurnKeepsInv, CommitBatchKeepsInv, RollbackKeepsInv
       DEF RelayStep, PollError
  <1>3. UNCHANGED <<uowVars, rows>>
    BY DEF RelayStep, Fetch, Turn, Publish, SkipRow, SkipDelivered, CommitBatch,
           PollError, RollbackBatch, tableVars
  <1>4. \A e \in Events \ rows : delivered'[e] = delivered[e]
    <2>1. ASSUME NEW d \in Events, Turn(w, d)
          PROVE  \A e \in Events \ rows : delivered'[e] = delivered[e]
      <3>1. d \in rows
        BY <2>1 DEF Turn, Publish, SkipRow, SkipDelivered, IsNext, IInv, LockInv
      <3>2. QED
        BY <2>1, <3>1 DEF Turn, Publish, SkipRow, SkipDelivered, Deliver, tableVars,
           IInv, TypeOK, TableTypeOK
    <2>2. CASE Fetch(w) \/ CommitBatch(w) \/ PollError(w)
      BY <2>2 DEF Fetch, CommitBatch, PollError, RollbackBatch, tableVars
    <2>3. QED
      BY <2>1, <2>2 DEF RelayStep
  <1>5. QED
    BY <1>1, <1>2, <1>3, <1>4, RelayKeepsCommands DEF IInv

-----------------------------------------------------------------------------
(* Starts, stops and crashes of workers. *)

LEMMA CrashKeepsIInv ==
  ASSUME NEW w \in Workers, IInv, Crash(w)
  PROVE  IInv'
  <1>1. TypeOK'
    BY CrashTypeOK DEF IInv
  <1>2. LockInv' /\ AccountInv'
    BY RollbackKeepsInv DEF Crash
  <1>3. CommandInv'
    BY DEF Crash, InFlight, InBlock, IInv, CommandInv, CommandOK, HasEvents, TypeOK,
           UowTypeOK, Phases
  <1>4. RowInv' /\ DispatchInv'
    BY DEF Crash, InFlight, InBlock, RollbackBatch, tableVars, IInv, TypeOK, UowTypeOK,
           RowInv, DispatchInv
  <1>5. QED
    BY <1>1, <1>2, <1>3, <1>4 DEF IInv

LEMMA NextIInv == IInv /\ [Next]_vars => IInv'
  <1> SUFFICES ASSUME IInv, [Next]_vars PROVE IInv'
    OBVIOUS
  <1>0. TypeOK'
    BY NextTypeOK DEF IInv
  <1>1. ASSUME NEW c \in Commands, CommandStep(c) PROVE IInv'
    BY <1>1, CommandKeepsIInv
  <1>2. ASSUME NEW w \in Workers, StartWorker(w) PROVE IInv'
    <2>1. /\ UNCHANGED <<uowVars, rows, publishedAt, delivered, batch, todo, marked, redo>>
          /\ relay' = [relay EXCEPT ![w] = "sleeping"]
          /\ relay[w] = "stopped"
      BY <1>2 DEF StartWorker, Start, tableVars
    <2>2. LockInv'
      BY <2>1 DEF IInv, LockInv, NoSharedRow, TypeOK, RelayTypeOK
    <2>3. AccountInv'
      BY <2>1 DEF IInv, AccountInv, MarkedSomewhere
    <2>4. QED
      BY <1>0, <2>1, <2>2, <2>3, RelayKeepsCommands DEF IInv
  <1>3. ASSUME NEW w \in Workers, StopWorker(w) PROVE IInv'
    <2>1. LockInv' /\ AccountInv'
      BY <1>3, RollbackKeepsInv DEF StopWorker, Stop
    <2>2. UNCHANGED <<uowVars, rows, delivered>>
      BY <1>3 DEF StopWorker, Stop, RollbackBatch, tableVars
    <2>3. QED
      BY <1>0, <2>1, <2>2, RelayKeepsCommands DEF IInv
  <1>4. ASSUME NEW w \in Workers, Crash(w) PROVE IInv'
    BY <1>4, CrashKeepsIInv
  <1>5. ASSUME NEW w \in Workers, RelayStep(w) PROVE IInv'
    BY <1>5, RelayStepKeepsIInv
  <1>6. CASE UNCHANGED vars
    <2>1. UNCHANGED <<uowVars, rows, publishedAt, delivered, batch, todo, marked, redo, relay>>
      BY <1>6 DEF vars, tableVars, relayVars
    <2>2. LockInv' /\ AccountInv'
      BY <2>1 DEF IInv, LockInv, NoSharedRow, AccountInv, MarkedSomewhere
    <2>3. QED
      BY <1>0, <2>1, <2>2, RelayKeepsCommands DEF IInv
  <1>7. QED
    BY <1>1, <1>2, <1>3, <1>4, <1>5, <1>6 DEF Next

LEMMA Inductive == Spec => []IInv
  BY InitIInv, NextIInv, PTL DEF Spec

-----------------------------------------------------------------------------
(* The properties. *)

(* The change of a command and the rows of its events are durable together *)
(* or not at all, wherever the command or its process was interrupted      *)
(* (SQLAlchemyUnitOfWork.commit in outbox mode).                           *)
THEOREM Atomicity == Spec => []ChangeAndRowsTogether
  <1>1. IInv => ChangeAndRowsTogether
    BY DEF IInv, RowInv, ChangeAndRowsTogether
  <1>2. QED
    BY <1>1, Inductive, PTL

(* Subscribers only ever hear of committed changes, for any commands: the  *)
(* relay sends what is in the table, which only holds rows of committed    *)
(* commands, and without the outbox the commit comes before the first      *)
(* dispatch (unit_of_work.py:135-142).                                     *)
THEOREM DurableBeforeDelivered == Spec => []HandlersSeeDurableData
  <1>1. IInv => HandlersSeeDurableData
    BY DEF IInv, DispatchInv, HandlersSeeDurableData
  <1>2. QED
    BY <1>1, Inductive, PTL

(* Without the outbox no event is dispatched twice, whatever fails, and a  *)
(* commit that returns has dispatched every one (unit_of_work.py:139-142). *)
THEOREM DispatchedOnce == Spec => []InProcessDispatchedOnce
  <1>1. IInv => InProcessDispatchedOnce
    BY DEF IInv, DispatchInv, InProcessDispatchedOnce
  <1>2. QED
    BY <1>1, Inductive, PTL

(* A unit of work that is over has neither events nor changes left, and    *)
(* one whose rollback was itself interrupted keeps only what its commit    *)
(* made durable or what nobody gets (unit_of_work.py:103-113, 144-148).    *)
THEOREM NothingHeldBack == Spec => []NothingLeftBehind
  <1>1. ASSUME IInv, NEW c \in Commands, ~InFlight(c), uow[c] # "abandoned"
        PROVE  pending[c] = {} /\ staged[c] = {} /\ ~dirty[c]
    BY <1>1 DEF InFlight, InBlock, IInv, CommandInv, CommandOK, HasEvents
  <1>2. ASSUME IInv, NEW c \in Commands, c \notin durable
        PROVE  \A e \in pending[c] \cup staged[c] : e \notin rows /\ delivered[e] = 0
    BY <1>2 DEF IInv, CommandInv, CommandOK, RowInv, DispatchInv
  <1>3. IInv => NothingLeftBehind
    BY <1>1, <1>2 DEF NothingLeftBehind
  <1>4. QED
    BY <1>3, Inductive, PTL

(* Two relays never have the same row in hand (FOR UPDATE SKIP LOCKED).    *)
THEOREM RowsNotShared == Spec => []NoSharedRow
  <1>1. IInv => NoSharedRow
    BY DEF IInv, LockInv
  <1>2. QED
    BY <1>1, Inductive, PTL

(* A row marked published has been delivered: no interruption of a poll    *)
(* loses an event (_process_batch marks after it publishes).               *)
THEOREM AtLeastOnce == Spec => []PublishedWasDelivered
  <1>1. IInv => PublishedWasDelivered
    BY DEF IInv, AccountInv, MarkedSomewhere, LockInv, PublishedWasDelivered, TypeOK,
           TableTypeOK, RelayTypeOK
  <1>2. QED
    BY <1>1, Inductive, PTL

(* An event is delivered more than once only when the mark of a delivery   *)
(* was lost, and then once more for each mark lost.                        *)
THEOREM DuplicatesBounded == Spec => []DuplicatesExplained
  <1>1. IInv => DuplicatesExplained
    BY DEF IInv, AccountInv, DuplicatesExplained, TypeOK, TableTypeOK, RelayTypeOK
  <1>2. QED
    BY <1>1, Inductive, PTL

(* No relay delivers an event again once its mark is committed.            *)
THEOREM PublishedIsFinal == Spec => NoDeliveryAfterPublished
  <1>1. ASSUME IInv, [Next]_vars
        PROVE  [\A e \in publishedAt : delivered'[e] = delivered[e]]_<<tableVars, relayVars>>
    <2> SUFFICES ASSUME NEW e \in publishedAt
                 PROVE  delivered'[e] = delivered[e]
      OBVIOUS
    <2> USE DEF IInv
    <2>1. ASSUME NEW c \in Commands, CommandStep(c) PROVE delivered'[e] = delivered[e]
      <3>1. UowStep(c)
        BY <2>1 DEF CommandStep
      <3>2. ASSUME NEW d \in Events, Dispatches(c, d) PROVE delivered'[e] = delivered[e]
        <4>1. d \notin rows /\ \A f \in Events \ {d} : delivered'[f] = delivered[f]
          BY <1>1, <3>2, DispatchedFirst
        <4>2. e \in rows /\ e \in Events
          BY <1>1 DEF LockInv, TypeOK, TableTypeOK
        <4>3. QED
          BY <4>1, <4>2
      <3>3. QED
        BY <1>1, <3>1, <3>2, CommandTable DEF CommitsRows, CommitsNoRow
    <2>2. ASSUME NEW w \in Workers, NEW d \in Events, Turn(w, d)
          PROVE  delivered'[e] = delivered[e]
      <3>1. d # e
        BY <1>1, <2>2 DEF Turn, Publish, SkipRow, SkipDelivered, IsNext, LockInv
      <3>2. QED
        BY <1>1, <2>2, <3>1 DEF Turn, Publish, SkipRow, SkipDelivered, Deliver,
           tableVars, TypeOK, TableTypeOK
    <2>3. ASSUME NEW w \in Workers,
                 StartWorker(w) \/ StopWorker(w) \/ Crash(w) \/ Fetch(w)
                   \/ CommitBatch(w) \/ PollError(w)
          PROVE  delivered' = delivered
      BY <2>3 DEF StartWorker, Start, StopWorker, Stop, Crash, RollbackBatch, Fetch,
         CommitBatch, PollError, tableVars
    <2>4. CASE UNCHANGED vars
      BY <2>4 DEF vars, tableVars
    <2>5. QED
      BY <1>1, <2>1, <2>2, <2>3, <2>4 DEF Next, RelayStep
  <1>2. QED
    BY <1>1, Inductive, PTL DEF Spec, NoDeliveryAfterPublished

-----------------------------------------------------------------------------
(* The outbox keeps its promise. *)

Recorded == UNION {EventsOf[c] : c \in durable}
Received == {e \in Events : delivered[e] > 0}

(* A command leaves the promise alone, records its events at once, or has  *)
(* one of them received.                                                   *)
LEMMA CommandRefines ==
  ASSUME IInv, NEW c \in Commands, CommandStep(c)
  PROVE  \/ Promise!Record(c)
         \/ \E e \in Events : Promise!Receive(e)
         \/ UNCHANGED <<Recorded, Received>>
  <1>1. UowStep(c)
    BY DEF CommandStep
  <1>2. CASE UNCHANGED <<durable, delivered>>
    BY <1>2 DEF Recorded, Received
  <1>3. CASE CommitsRows(c) \/ CommitsNoRow(c)
    <2>1. durable' = durable \cup {c} /\ c \notin durable /\ delivered' = delivered
      BY <1>3 DEF CommitsRows, CommitsNoRow, IInv, CommandInv, CommandOK
    <2>2. Recorded' = Recorded \cup EventsOf[c]
      BY <2>1 DEF Recorded
    <2>3. EventsOf[c] \cap Recorded = {}
      BY <2>1, CommandsAssumption DEF Recorded, IInv, TypeOK, UowTypeOK
    <2>4. Received' = Received
      BY <2>1 DEF Received
    <2>5. QED
      BY <2>2, <2>3, <2>4 DEF Promise!Record, Recorded, Received
  <1>4. ASSUME NEW e \in Events, Dispatches(c, e) PROVE Promise!Receive(e)
    <2>1. c \in durable /\ delivered'[e] = 1
          /\ \A f \in Events \ {e} : delivered'[f] = delivered[f]
      BY <1>4, DispatchedFirst
    <2>2. e \in Recorded /\ Recorded' = Recorded
      BY <1>4, <2>1 DEF Recorded, Dispatches
    <2>3. Received' = Received \cup {e}
      BY <2>1 DEF Received
    <2>4. QED
      BY <2>2, <2>3 DEF Promise!Receive, Recorded, Received
  <1>5. QED
    BY <1>1, <1>2, <1>3, <1>4, CommandTable

(* The turn of a row delivers a recorded event, or nothing. *)
LEMMA TurnRefines ==
  ASSUME IInv, NEW w \in Workers, NEW e \in Events, Turn(w, e), UNCHANGED uowVars
  PROVE  Promise!Receive(e) \/ UNCHANGED <<Recorded, Received>>
  <1>1. Recorded' = Recorded
    BY DEF Recorded, uowVars
  <1>2. CASE UNCHANGED delivered
    BY <1>1, <1>2 DEF Received
  <1>3. CASE Deliver(e, 1)
    <2>1. e \in Recorded
      <3>1. e \in rows
        BY DEF Turn, Publish, SkipRow, SkipDelivered, IsNext, IInv, LockInv
      <3>2. QED
        BY <3>1 DEF IInv, RowInv, Recorded
    <2>2. Received' = Received \cup {e}
      BY <1>3 DEF Received, Deliver, IInv, TypeOK, TableTypeOK
    <2>3. QED
      BY <1>1, <2>1, <2>2 DEF Promise!Receive, Recorded, Received
  <1>4. QED
    BY <1>2, <1>3 DEF Turn, Publish, SkipRow, SkipDelivered, tableVars

LEMMA NextRefines ==
  IInv /\ [Next]_vars => [Promise!Next]_<<Recorded, Received>>
  <1> SUFFICES ASSUME IInv, [Next]_vars
               PROVE  Promise!Next \/ UNCHANGED <<Recorded, Received>>
    OBVIOUS
  <1>1. ASSUME NEW c \in Commands, CommandStep(c)
        PROVE  Promise!Next \/ UNCHANGED <<Recorded, Received>>
    BY <1>1, CommandRefines DEF Promise!Next
  <1>2. ASSUME NEW w \in Workers, NEW e \in Events, Turn(w, e), UNCHANGED uowVars
        PROVE  Promise!Next \/ UNCHANGED <<Recorded, Received>>
    BY <1>2, TurnRefines DEF Promise!Next
  <1>3. ASSUME NEW w \in Workers,
               StartWorker(w) \/ StopWorker(w) \/ Crash(w)
                 \/ ((Fetch(w) \/ CommitBatch(w) \/ PollError(w)) /\ UNCHANGED uowVars)
        PROVE  UNCHANGED <<Recorded, Received>>
    <2>1. UNCHANGED <<durable, delivered>>
      BY <1>3 DEF StartWorker, Start, StopWorker, Stop, Crash, RollbackBatch, Fetch,
         CommitBatch, PollError, tableVars, uowVars
    <2>2. QED
      BY <2>1 DEF Recorded, Received
  <1>4. CASE UNCHANGED vars
    BY <1>4 DEF vars, tableVars, uowVars, Recorded, Received
  <1>5. QED
    BY <1>1, <1>2, <1>3, <1>4 DEF Next, RelayStep

(* Units of work, table and relays together implement EventDelivery: the   *)
(* events of a command are recorded at once, and only recorded events are  *)
(* received, through every crash, rollback and redelivery.                 *)
THEOREM Refinement == Spec => RefinesDelivery
  <1>1. Init => Promise!Init
    BY DEF Init, TableInit, UowInit, Promise!Init
  <1>2. IInv /\ [Next]_vars
          => [Promise!Next]_<<UNION {EventsOf[c] : c \in durable},
                              {e \in Events : delivered[e] > 0}>>
    BY NextRefines DEF Recorded, Received
  <1>3. QED
    BY <1>1, <1>2, Inductive, PTL DEF Spec, RefinesDelivery, Promise!Spec

=============================================================================
