----------------------------- MODULE InMemoryUow -----------------------------
(***************************************************************************)
(* InMemoryUnitOfWork: one object, with one list of pending events, serves *)
(* every command on the items of the in-memory backend (Container builds   *)
(* it once).  Commands are coroutines of one event loop, and the methods   *)
(* of the dictionary repository never wait, so that the only place where a *)
(* command gives way is inside a subscriber that `publish` awaits: the     *)
(* rest, from `async with` to the first subscriber, is one step.           *)
(*                                                                         *)
(* `for event in self._pending_events` walks the list by position, and     *)
(* others append to the list, or clear it, meanwhile.  Every command that  *)
(* gets as far as `collect` records one event, which is told by its        *)
(* command.  Categories have an object of their own of the same shape.     *)
(***************************************************************************)
EXTENDS Naturals, Sequences, FiniteSets

CONSTANTS
  Aggregates,  (* identities of items                                       *)
  Commands,    (* the commands executed, one for each request               *)
  Kind,        (* Kind[c]: "create", "update" or "delete"                   *)
  Target       (* Target[c]: the aggregate of command c                     *)

ASSUME InMemoryAssumption ==
  /\ IsFiniteSet(Commands)
  /\ Kind \in [Commands -> {"create", "update", "delete"}]
  /\ Target \in [Commands -> Aggregates]
  /\ \A c, d \in Commands :    (* uuid4 gives every item an identity of its own *)
       Kind[c] = "create" /\ Kind[d] = "create" /\ Target[c] = Target[d] => c = d

VARIABLES
  store,      (* aggregates in the repository's dictionary                  *)
  pending,    (* _pending_events                                            *)
  phase,      (* phase[c]: how far command c has come                       *)
  at,         (* at[c]: the position c's loop over the list has reached     *)
  recorded,   (* history: commands whose event was collected                *)
  delivered,  (* history: how often the event of c reached the subscribers  *)
  met         (* history: met[c], commands in their blocks together with c     *)

vars == <<store, pending, phase, at, recorded, delivered, met>>

Phases == {"new", "publishing", "committed", "failed", "notfound"}

TypeOK ==
  /\ store \in SUBSET Aggregates
  /\ pending \in Seq(Commands)
  /\ phase \in [Commands -> Phases]
  /\ at \in [Commands -> Nat]
  /\ recorded \in SUBSET Commands
  /\ delivered \in [Commands -> Nat]
  /\ met \in [Commands -> SUBSET Commands]

Init ==
  /\ store = {}
  /\ pending = <<>>
  /\ phase = [c \in Commands |-> "new"]
  /\ at = [c \in Commands |-> 0]
  /\ recorded = {}
  /\ delivered = [c \in Commands |-> 0]
  /\ met = [c \in Commands |-> {}]

-----------------------------------------------------------------------------

Publishing(c) == phase[c] = "publishing"
Over(c) == phase[c] \in {"committed", "failed"}

(* find_by_id returns the aggregate; a new one is not looked for. *)
Found(c) == Kind[c] = "create" \/ Target[c] \in store

(* Mutant of Stored: a deletion leaves the aggregate. *)
StoredForEver(c) == store \cup {Target[c]}

(* save and delete of the repository. *)
Stored(c) == IF Kind[c] = "delete" THEN store \ {Target[c]} ELSE store \cup {Target[c]}

(* Mutant of Collected: the aggregate's events were not cleared. *)
CollectedTwice(c) == pending \o <<c, c>>

(* uow.collect(aggregate.collect_events()) *)
Collected(c) == Append(pending, c)

(* c's loop hands the n-th event of the list to the subscribers. *)
PublishNth(c, n, list) ==
  /\ delivered' = [delivered EXCEPT ![list[n]] = @ + 1]
  /\ at' = [at EXCEPT ![c] = n]

(* c is in its block together with those that wait in commit. *)
Meet(c) ==
  met' = [d \in Commands |-> IF d = c THEN {x \in Commands : Publishing(x)}
                             ELSE IF Publishing(d) THEN met[d] \cup {c} ELSE met[d]]

(* Find, domain method, save or delete, collect, and commit up to the      *)
(* first subscriber, who gets the first event of the list, not always c's. *)
Execute(c) ==
  /\ phase[c] = "new"
  /\ Found(c)
  /\ store' = Stored(c)
  /\ pending' = Collected(c)
  /\ recorded' = recorded \cup {c}
  /\ PublishNth(c, 1, Collected(c))
  /\ phase' = [phase EXCEPT ![c] = "publishing"]
  /\ Meet(c)

(* The handler returns inside the block, without an exception. *)
NotFound(c) ==
  /\ phase[c] = "new"
  /\ ~Found(c)
  /\ phase' = [phase EXCEPT ![c] = "notfound"]
  /\ UNCHANGED <<store, pending, at, recorded, delivered, met>>

(* Mutant of HasMore: the loop ends after its first turn. *)
HasMoreThanOne(c) == at[c] < 1

(* The list is longer than the position of the loop, as it is now. *)
HasMore(c) == at[c] < Len(pending)

(* The subscriber c waited for is done: on to the next event. *)
NextEvent(c) ==
  /\ Publishing(c)
  /\ HasMore(c)
  /\ PublishNth(c, at[c] + 1, pending)
  /\ UNCHANGED <<store, pending, phase, recorded, met>>

(* ... or the list is at its end and is cleared, for everybody. *)
Finish(c) ==
  /\ Publishing(c)
  /\ ~HasMore(c)
  /\ pending' = <<>>
  /\ phase' = [phase EXCEPT ![c] = "committed"]
  /\ UNCHANGED <<store, at, recorded, delivered, met>>

(* Mutant of Rollback: as its comment has it, a no-op. *)
RollbackNothing == UNCHANGED pending

(* rollback clears the list; what was stored stays. *)
Rollback == pending' = <<>>

(* A subscriber raises, or the request is cancelled while it waits. *)
Fail(c) ==
  /\ Publishing(c)
  /\ Rollback
  /\ phase' = [phase EXCEPT ![c] = "failed"]
  /\ UNCHANGED <<store, at, recorded, delivered, met>>

(* create or update raises a domain error inside the block, before its own *)
(* event is recorded: __aexit__ rolls back all the same.  (Fields that an  *)
(* update has assigned by then stay assigned; fields are not modelled.)    *)
Refuse(c) ==
  /\ phase[c] = "new"
  /\ Found(c) /\ Kind[c] # "delete"
  /\ Rollback
  /\ phase' = [phase EXCEPT ![c] = "failed"]
  /\ Meet(c)
  /\ UNCHANGED <<store, at, recorded, delivered>>

(* Every command has returned; nothing more happens. *)
Done == /\ \A c \in Commands : phase[c] # "new" /\ ~Publishing(c)
        /\ UNCHANGED vars

Next ==
  \/ \E c \in Commands :
       \/ Execute(c) \/ NotFound(c) \/ Refuse(c)
       \/ NextEvent(c) \/ Finish(c) \/ Fail(c)
  \/ Done

Spec == Init /\ [][Next]_vars

-----------------------------------------------------------------------------

(* The list never holds an event whose command has returned: although      *)
(* everybody clears and appends, no commit publishes what an earlier one   *)
(* left behind (unit_of_work.py:36-40).                                    *)
EventsHaveOwner ==
  \A i \in 1 .. Len(pending) : Publishing(pending[i])

(* An event is published once, and again only by commands that were in     *)
(* commit together with its own, by each at most once.                     *)
DuplicatesNeedOverlap ==
  \A c \in Commands : delivered[c] <= 1 + Cardinality(met[c])

(* A commit that succeeds although its event never reached a subscriber:   *)
(* some command it met has cleared the list before.  Alone, or before      *)
(* anybody it met has returned, a command loses nothing.                   *)
LossNeedsEarlierEnd ==
  [][\A c \in Commands :
       Publishing(c) /\ phase'[c] = "committed" /\ delivered[c] = 0
         => \E d \in met[c] : Over(d)]_vars

(* What is in the dictionary is what the recorded events say, whichever    *)
(* commands failed afterwards: the aggregates created and not deleted; and *)
(* of the deletions of one aggregate only one records an event.            *)
StoreIsRecorded ==
  LET Of(kind) == {c \in recorded : Kind[c] = kind}
      Targets(C) == {Target[c] : c \in C}
  IN /\ store = Targets(Of("create")) \ Targets(Of("delete"))
     /\ \A c, d \in Of("delete") : Target[c] = Target[d] => c = d

=============================================================================
