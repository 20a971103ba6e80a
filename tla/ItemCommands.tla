---------------------------- MODULE ItemCommands ----------------------------
(***************************************************************************)
(* Update and delete commands that run at the same time on one item of the *)
(* SQL backend: UpdateItemHandler and DeleteItemHandler, the methods of    *)
(* Item they call, and SQLAlchemyItemRepository.  Nothing is versioned or  *)
(* locked: a command reads the row, changes its own copy, and writes back  *)
(* at commit those columns in which copy and row differed.  Contents are   *)
(* compared by value: an update that assigns what its copy holds already   *)
(* writes nothing.                                                         *)
(*                                                                         *)
(* The item is created already.  Rows are never removed, deletion sets a   *)
(* flag.  The category commands and CategoryRepository have the same shape.*)
(***************************************************************************)
EXTENDS Integers

CONSTANTS
  Fields,     (* the columns name, price, description and category_id       *)
  Updates,    (* update commands, one for each PUT request                  *)
  Deletes,    (* delete commands                                            *)
  Values,     (* contents of the fields                                     *)
  NoCategory, (* the content of an empty category_id                        *)
  Body,       (* Body[u]: the fields in the body of request u, with values  *)
  Start,      (* the fields of the item as it was created                   *)
  Rounded,    (* Rounded[v]: what the price column, Numeric(10, 4), makes   *)
              (* of v                                                       *)
  MaxClock    (* bound on the time the clock shows                          *)

Commands == Updates \cup Deletes

ASSUME ItemAssumption ==
  /\ "category_id" \in Fields
  /\ "is_deleted" \notin Fields /\ "updated_at" \notin Fields
  /\ Updates \cap Deletes = {}
  /\ NoCategory \in Values
  /\ \A u \in Updates : /\ DOMAIN Body[u] \subseteq Fields
                        /\ \A k \in DOMAIN Body[u] : Body[u][k] \in Values
  /\ Rounded \in [Values -> Values]
  /\ \A v \in Values : Rounded[Rounded[v]] = Rounded[v]
  /\ Start \in [Fields -> Values]
  /\ "price" \in Fields => Rounded[Start["price"]] = Start["price"]
  /\ MaxClock \in Nat

VARIABLES
  row,          (* the committed row                                        *)
  phase,        (* phase[c]: how far command c has come                     *)
  found,        (* found[c]: the row find_by_id returned to c               *)
  changes,      (* changes[c]: the columns, with contents, that c's session *)
                (* writes; once c has committed, those it has written       *)
  clock,        (* the time                                                 *)
  stamp,        (* stamp[u]: the time u took for updated_at                 *)
  version,      (* history: number of commits so far                        *)
  readAt,       (* history: version at which c read the row                 *)
  committedAt   (* history: version c's commit made, 0 before it            *)

vars == <<row, phase, found, changes, clock, stamp, version, readAt, committedAt>>

Touched == Fields \cup {"updated_at"}
Columns == Touched \cup {"is_deleted"}

Contents(k) ==
  IF k = "is_deleted" THEN {"active", "deleted"} ELSE IF k = "updated_at" THEN Nat ELSE Values

(* What column k makes of a content assigned to it. *)
Stored(k, v) == IF k = "price" THEN Rounded[v] ELSE v

IsRow(r) == /\ DOMAIN r = Columns
            /\ \A k \in Columns : r[k] \in Contents(k) /\ Stored(k, r[k]) = r[k]

NewRow == [k \in Columns |-> IF k = "is_deleted" THEN "active" ELSE
                             IF k = "updated_at" THEN 0 ELSE Start[k]]

TypeOK ==
  /\ IsRow(row)
  /\ phase \in [Commands -> {"new", "found", "saved", "done", "notfound", "failed"}]
  /\ \A c \in Commands : /\ IsRow(found[c])
                         /\ DOMAIN changes[c] \subseteq Columns
                         /\ \A k \in DOMAIN changes[c] : changes[c][k] \in Contents(k)
  /\ clock \in 0..MaxClock
  /\ stamp \in [Updates -> Nat]
  /\ version \in Nat
  /\ readAt \in [Commands -> Nat]
  /\ committedAt \in [Commands -> Nat]

Init ==
  /\ row = NewRow
  /\ phase = [c \in Commands |-> "new"]
  /\ found = [c \in Commands |-> NewRow]
  /\ changes = [c \in Commands |-> <<>>]
  /\ clock = 0
  /\ stamp = [u \in Updates |-> 0]
  /\ version = 0
  /\ readAt = [c \in Commands |-> 0]
  /\ committedAt = [c \in Commands |-> 0]

-----------------------------------------------------------------------------

(* Columns an update sets.  The service always passes category_id on, as   *)
(* None when the body has none, and item.update takes that for "remove the *)
(* category"; _touch sets updated_at.                                      *)
Assigned(u) == DOMAIN Body[u] \cup {"category_id", "updated_at"}

(* What u sets column k to, at time t. *)
Assignment(u, t, k) ==
  IF k = "updated_at" THEN t ELSE IF k \in DOMAIN Body[u] THEN Body[u][k] ELSE NoCategory

(* Mutant of Updated: fields the body leaves out are cleared too. *)
UpdatedAll(u, item, t) ==
  [k \in Columns |-> IF k \in Touched THEN Assignment(u, t, k) ELSE item[k]]

(* item.update, at time t *)
Updated(u, item, t) ==
  [k \in Columns |-> IF k \in Assigned(u) THEN Assignment(u, t, k) ELSE item[k]]

(* item.mark_deleted *)
Gone(item) == [item EXCEPT !["is_deleted"] = "deleted"]

(* Mutants of Differing: is_deleted, or the price, is not mapped. *)
DifferingFields(item, base) ==
  [k \in {j \in Touched : item[j] # base[j]} |-> item[k]]
DifferingButPrice(item, base) ==
  [k \in {j \in Columns \ {"price"} : item[j] # base[j]} |-> item[k]]

(* What a flush writes: the columns in which an object differs from the    *)
(* row it was loaded from.  A price is compared as it was assigned.        *)
Differing(item, base) ==
  [k \in {j \in Columns : item[j] # base[j]} |-> item[k]]

(* UPDATE ... SET of the columns in d. *)
Written(d, r) == [k \in Columns |-> IF k \in DOMAIN d THEN Stored(k, d[k]) ELSE r[k]]

(* Both save and delete select the row again.  The session keeps the row   *)
(* object of find_by_id only as long as someone refers to it: normally it  *)
(* is gone and the second select shows the row as it is now; were it still *)
(* there, its contents would be those of the first select.                 *)
Bases(c) == {row, found[c]}

(* WHERE id = ... AND is_deleted = false *)
Visible(r) == r["is_deleted"] = "active"

Find(c) ==
  /\ phase[c] = "new"
  /\ Visible(row)
  /\ phase' = [phase EXCEPT ![c] = "found"]
  /\ found' = [found EXCEPT ![c] = row]
  /\ readAt' = [readAt EXCEPT ![c] = version]
  /\ UNCHANGED <<row, changes, clock, stamp, version, committedAt>>

(* The update answers ItemNotFoundError, the delete succeeds silently. *)
NotFound(c) ==
  /\ phase[c] = "new"
  /\ ~Visible(row)
  /\ phase' = [phase EXCEPT ![c] = "notfound"]
  /\ UNCHANGED <<row, found, changes, clock, stamp, version, readAt, committedAt>>

(* item.update, which reads the clock (time may have passed, and is never  *)
(* set back), and repository.save, which merges the whole item.            *)
Save(u) ==
  /\ u \in Updates
  /\ phase[u] = "found"
  /\ \E t \in clock..MaxClock, base \in Bases(u) :
       /\ changes' = [changes EXCEPT ![u] = Differing(Updated(u, found[u], t), base)]
       /\ clock' = t
       /\ stamp' = [stamp EXCEPT ![u] = t]
  /\ phase' = [phase EXCEPT ![u] = "saved"]
  /\ UNCHANGED <<row, found, version, readAt, committedAt>>

(* item.mark_deleted and repository.delete, which sets the flag alone. *)
Remove(d) ==
  /\ d \in Deletes
  /\ phase[d] = "found"
  /\ \E base \in Bases(d) :
       changes' = [changes EXCEPT ![d] = Differing(Gone(base), base)]
  /\ phase' = [phase EXCEPT ![d] = "saved"]
  /\ UNCHANGED <<row, found, clock, stamp, version, readAt, committedAt>>

(* uow.commit, with the event of the command; the flush waits for the row  *)
(* lock of a command that commits before it.                               *)
Commit(c) ==
  /\ phase[c] = "saved"
  /\ row' = Written(changes[c], row)
  /\ version' = version + 1
  /\ committedAt' = [committedAt EXCEPT ![c] = version + 1]
  /\ phase' = [phase EXCEPT ![c] = "done"]
  /\ UNCHANGED <<found, changes, clock, stamp, readAt>>

(* A domain error of item.update, an error of the database, cancellation.  *)
Fail(c) ==
  /\ phase[c] \in {"found", "saved"}
  /\ changes' = [changes EXCEPT ![c] = <<>>]
  /\ phase' = [phase EXCEPT ![c] = "failed"]
  /\ UNCHANGED <<row, found, clock, stamp, version, readAt, committedAt>>

Next ==
  \/ \E c \in Commands : Find(c) \/ NotFound(c) \/ Commit(c) \/ Fail(c)
  \/ \E u \in Updates : Save(u)
  \/ \E d \in Deletes : Remove(d)

Spec == Init /\ [][Next]_vars

-----------------------------------------------------------------------------

Committed(c) == committedAt[c] > 0

(* u had read the row before d committed, and committed after it. *)
Stale(u, d) == Committed(u) /\ readAt[u] < committedAt[d] /\ committedAt[d] < committedAt[u]

(* What column k shows once u has set it. *)
Told(u, k) == Stored(k, Assignment(u, stamp[u], k))

(* v committed after u and wrote column k, by setting it itself or with    *)
(* what it had read before u committed.                                    *)
Overwrote(v, u, k) ==
  /\ committedAt[u] < committedAt[v]
  /\ k \in DOMAIN changes[v]
  /\ k \in Assigned(v) \/ Stale(v, u)

(* u did not write column k, which it set to what its copy held, while an  *)
(* update that committed after u had read wrote something else there.      *)
Missed(u, k) ==
  /\ k \notin DOMAIN changes[u]
  /\ \E w \in Updates : Stale(u, w) /\ k \in DOMAIN changes[w]

(* A committed update is seen in every column it set, unless a later one   *)
(* overwrote the column, or it set the content it had read and so wrote    *)
(* nothing over an update that came between: nothing else loses an update  *)
(* (item_repository.py:41-44).                                             *)
LossIsExplained ==
  \A u \in Updates : Committed(u) => \A k \in Assigned(u) :
    row[k] = Told(u, k) \/ Missed(u, k) \/ \E v \in Updates : Overwrote(v, u, k)

(* A column holds only what a committed update set there, or what it was   *)
(* created with: stale copies are mixed in, uncommitted ones never.        *)
ContentsAreCommitted ==
  \A k \in Touched :
    row[k] = NewRow[k] \/ \E u \in Updates : /\ Committed(u) /\ k \in Assigned(u)
                                             /\ row[k] = Told(u, k)

(* A deleted item is active again only when an update that had read it     *)
(* before a deletion committed after it: no command revives an item it     *)
(* found after its deletion (item_repository.py:46-51).                    *)
ReturnIsExplained ==
  (\E d \in Deletes : Committed(d)) /\ Visible(row)
    => \E u \in Updates, d \in Deletes : Committed(d) /\ Stale(u, d)

(* What a command does when it runs alone, an update at time t. *)
Effect(c, r, t) == IF c \in Updates THEN Updated(c, r, t) ELSE Gone(r)

(* A command whose row nobody has changed since it read it commits just    *)
(* what it was asked for, whatever ran before and runs beside it; updated_at *)
(* does not go back (entity.py:43).                                        *)
UndisturbedIsExact ==
  [][\A c \in Commands :
       ~Committed(c) /\ Committed(c)' /\ readAt[c] = version
         => \E t \in row["updated_at"]..clock :
              \A k \in Columns : row'[k] = Stored(k, Effect(c, row, t)[k])]_vars

(* "Verify deleted - item must no longer be accessible"                    *)
(* (test_items_e2e.py:86): once a deletion is committed the item stays     *)
(* deleted, for nothing in the application undeletes.                      *)
DeletedStaysDeleted == [][Visible(row') => Visible(row)]_vars

=============================================================================
