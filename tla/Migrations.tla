----------------------------- MODULE Migrations -----------------------------
(***************************************************************************)
(* The migrations of alembic/versions and the transaction in which env.py  *)
(* runs them.                                                              *)
(*                                                                         *)
(* A database is the set of its objects: tables, added columns, indexes,   *)
(* constraints, and the row of alembic_version.  `alembic upgrade' and     *)
(* `alembic downgrade' walk the chain of revisions statement by statement  *)
(* in ONE transaction: PostgreSQL rolls DDL back, and env.py does not ask  *)
(* for a transaction per migration.                                        *)
(***************************************************************************)
EXTENDS Naturals, SequencesExt

VARIABLES
  database,    (* the objects that are committed                            *)
  session,     (* what the transaction in progress sees                     *)
  todo,        (* the statements that are left                              *)
  job          (* "upgrade", "downgrade", or how the last one ended         *)

vars == <<database, session, todo, job>>

-----------------------------------------------------------------------------

(* A statement needs some objects, adds some and drops some.               *)
Adding(objects, needs) == [needs |-> needs, adds |-> objects, drops |-> {}]
Dropping(objects) == [needs |-> objects, adds |-> {}, drops |-> objects]

CreateTable(table) == Adding({table}, {})

(* 0001_create_items_table                                                 *)
UpgradeItems == <<CreateTable("items")>>
DowngradeItems == <<Dropping({"items"})>>

(* 0002_create_outbox_table                                                *)
UpgradeOutbox ==
  <<CreateTable("outbox"),
    Adding({"ix_outbox_aggregate_id"}, {"outbox"}),
    Adding({"ix_outbox_created_at"}, {"outbox"}),
    Adding({"ix_outbox_published_at"}, {"outbox"})>>
DowngradeOutbox ==
  <<Dropping({"ix_outbox_published_at"}), Dropping({"ix_outbox_created_at"}),
    Dropping({"ix_outbox_aggregate_id"}), Dropping({"outbox"})>>

(* 0003_add_category_id_to_items: the constraint refers to categories.     *)
UpgradeCategoryId ==
  <<Adding({"items.category_id"}, {"items"}),
    Adding({"ix_items_category_id"}, {"items.category_id"}),
    Adding({"fk_items_category_id"}, {"items.category_id", "categories"})>>
DowngradeCategoryId ==
  <<Dropping({"fk_items_category_id"}), Dropping({"ix_items_category_id"}),
    Dropping({"items.category_id"})>>

Upgrades == <<UpgradeItems, UpgradeOutbox, UpgradeCategoryId>>
Downgrades == <<DowngradeItems, DowngradeOutbox, DowngradeCategoryId>>

Ids == <<"0001", "0002", "0003">>
Newest == Len(Ids)

(* alembic_version holds the id of the newest revision applied, or no row. *)
Row(version) == IF version = 0 THEN {} ELSE {Ids[version]}
Version == CHOOSE v \in 0..Newest : database \cap Range(Ids) = Row(v)

(* It is set after the statements of a revision.                           *)
Stamp(from, to) ==
  <<[needs |-> Row(from), adds |-> Row(to), drops |-> Row(from)]>>

Up(from, to) ==
  FlattenSeq([i \in 1..(to - from) |->
                Upgrades[from + i] \o Stamp(from + i - 1, from + i)])
Down(from, to) ==
  FlattenSeq([i \in 1..(from - to) |->
                Downgrades[from + 1 - i] \o Stamp(from + 1 - i, from - i)])

Init == database = {} /\ session = {} /\ todo = <<>> /\ job = "none"

Idle == job \notin {"upgrade", "downgrade"}

(* `alembic upgrade <revision>': with head, the service `migrate' of the   *)
(* compose file; by hand to any revision, and again after it failed.       *)
Upgrade(to) ==
  /\ Idle /\ to > Version
  /\ job' = "upgrade" /\ todo' = Up(Version, to) /\ session' = database
  /\ UNCHANGED database

Downgrade(to) ==
  /\ Idle /\ to < Version
  /\ job' = "downgrade" /\ todo' = Down(Version, to) /\ session' = database
  /\ UNCHANGED database

(* PostgreSQL refuses a statement whose objects are missing or are there   *)
(* already.                                                                *)
Runs(s) == s.needs \subseteq session /\ s.adds \cap session = {}

Statement ==
  /\ ~Idle /\ todo # <<>> /\ Runs(Head(todo))
  /\ session' = (session \ Head(todo).drops) \cup Head(todo).adds
  /\ todo' = Tail(todo)
  /\ UNCHANGED <<database, job>>

RollBack(end) ==
  /\ session' = database /\ todo' = <<>> /\ job' = end
  /\ UNCHANGED database

(* The exception of a refused statement leaves begin_transaction, which    *)
(* rolls everything back, and alembic exits with an error.                 *)
Refused ==
  /\ ~Idle /\ todo # <<>> /\ ~Runs(Head(todo))
  /\ RollBack("refused")

(* The container is stopped or the connection is lost.                     *)
Interrupted == ~Idle /\ RollBack("interrupted")

Commit ==
  /\ ~Idle /\ todo = <<>>
  /\ database' = session /\ job' = "done"
  /\ UNCHANGED <<session, todo>>

Next ==
  \/ \E to \in 0..Newest : Upgrade(to) \/ Downgrade(to)
  \/ Statement \/ Refused \/ Interrupted \/ Commit

Spec == Init /\ [][Next]_vars

-----------------------------------------------------------------------------

(* A migration fails only when it is interrupted: no statement of the      *)
(* chain is refused, from whatever revision the database is on.  0003      *)
(* promises "an optional category_id foreign key", and the services of the *)
(* compose file wait until `migrate' completed successfully.               *)
ChainIsComplete == job # "refused"
=============================================================================
