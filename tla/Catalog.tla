------------------------------ MODULE Catalog -------------------------------
(***************************************************************************)
(* The write requests of the API, from the route to the answer: POST, PUT  *)
(* and DELETE of categories and items, through the application services,   *)
(* the command handlers, the aggregates and the SQL repositories, on the   *)
(* two tables with the constraints of the database and on the events that  *)
(* a commit records with the rows (UnitOfWork says how).                   *)
(*                                                                         *)
(* A request, an event or a set of changes is a function on the fields it  *)
(* carries: one that is None or left out is not in its domain.             *)
(* Descriptions behave as names without rules and the timestamps are those *)
(* of ItemCommands; both are left out.                                     *)
(***************************************************************************)
EXTENDS TextRules, Payloads, Prices, SequencesExt

CONSTANTS
  CategoryIds, ItemIds,         (* the primary keys, existing and to come   *)
  NoCategory,                   (* None as the category of an item          *)
  Requests,                     (* the write requests                       *)
  CategoryBodies, ItemBodies,   (* the bodies a client may send             *)
  InitialRows                   (* rows created earlier, by their keys      *)

Ids == CategoryIds \cup ItemIds

VARIABLES
  rows,      (* the committed rows, soft-deleted ones included              *)
  outbox,    (* the committed events, in the order of their commits         *)
  phase,     (* phase[r]: how far request r has come                        *)
  session,   (* session[r]: the row r found, its aggregate and the event    *)
  changes,   (* changes[r]: the columns r's session will write              *)
  status     (* status[r]: the code of the answer, 0 before it              *)

vars == <<rows, outbox, phase, session, changes, status>>

-----------------------------------------------------------------------------

Field(body, field, default) == IF field \in DOMAIN body THEN body[field] ELSE default
Only(body, fields) == [f \in fields \cap DOMAIN body |-> body[f]]

(* What the constructors of the value objects accept. *)
Valid(body) ==
  /\ "name" \in DOMAIN body => ValidName(body.name)
  /\ "slug" \in DOMAIN body => ValidSlug(body.slug)

(* Category.create *)
NewCategory(body) ==
  LET name == StoredName(body.name)
  IN  [name |-> name, slug |-> Field(body, "slug", ToSlug(name)), deleted |-> FALSE]

(* Mutant of UpdatedCategory: a new name leaves the slug as it was. *)
RenamedCategory(category, body) ==
  [category EXCEPT !.name = IF "name" \in DOMAIN body THEN StoredName(body.name) ELSE @,
                   !.slug = Field(body, "slug", @)]

(* Category.update *)
UpdatedCategory(category, body) ==
  IF "name" \notin DOMAIN body THEN [category EXCEPT !.slug = Field(body, "slug", @)]
  ELSE LET name == StoredName(body.name)
       IN  [category EXCEPT !.name = name, !.slug = Field(body, "slug", ToSlug(name))]

(* Item.create *)
NewItem(body) ==
  [name |-> StoredName(body.name), price |-> body.price,
   category |-> Field(body, "category", NoCategory), deleted |-> FALSE]

(* Item.update: the service always passes category_id on. *)
UpdatedItem(item, body) ==
  [item EXCEPT !.name = IF "name" \in DOMAIN body THEN StoredName(body.name) ELSE @,
               !.price = Field(body, "price", @),
               !.category = Field(body, "category", NoCategory)]

(* mark_deleted of both aggregates *)
Deleted(aggregate) == [aggregate EXCEPT !.deleted = TRUE]

(* The events: a Created one carries what the new aggregate holds, an      *)
(* Updated one the arguments of update; neither knows of a category_id.    *)
(* "saw" is history: the events on the aggregate when r read it.           *)
Hints(id) == IF id \in ItemIds THEN ItemHints ELSE CategoryHints
Typed(field, value) == IF field = "price" THEN Decimal(value) ELSE Str(value)
EventsOn(id) == {k \in DOMAIN outbox : outbox[k].id = id}
Event(r, type, id, told) ==
  LET event == [f \in DOMAIN Hints(id)[type] |->
                  IF f \in DOMAIN told THEN Typed(f, told[f]) ELSE None]
  IN  [by |-> r, type |-> type, id |-> id, payload |-> Serialize(event),
       saw |-> Cardinality(EventsOn(id))]

-----------------------------------------------------------------------------

(* What the database makes of the columns. *)
Stored(row) == IF "price" \in DOMAIN row THEN [row EXCEPT !.price = Rounded(@)] ELSE row

(* The columns of the two tables. *)
Columns(id) ==
  IF id \in CategoryIds THEN {"name", "slug", "deleted"}
  ELSE {"name", "price", "category", "deleted"}

(* The keys of the tables differ (they are UUIDs), the rows that were      *)
(* there before were written by this program, and a body has the fields    *)
(* and the types of its schema.                                            *)
ASSUME CatalogAssumption ==
  /\ CategoryIds \cap ItemIds = {}
  /\ IsFiniteSet(DOMAIN InitialRows) /\ DOMAIN InitialRows \subseteq Ids
  /\ \A id \in DOMAIN InitialRows :
       LET row == InitialRows[id]
       IN  /\ DOMAIN row = Columns(id) /\ row.name \in Seq(Chars) /\ row.deleted \in BOOLEAN
           /\ id \in CategoryIds => UrlSafe(row.slug)
           /\ id \in ItemIds => row.price \in Int /\ Rounded(row.price) = row.price
  /\ \A body \in CategoryBodies : DOMAIN body \subseteq {"name", "slug"}
  /\ \A body \in ItemBodies :
       /\ DOMAIN body \subseteq {"name", "price", "category"}
       /\ "price" \in DOMAIN body => body.price \in Int
  /\ \A body \in CategoryBodies \cup ItemBodies :
       "name" \in DOMAIN body => body.name \in Seq(Chars)

(* What the database checks of a row: price in range, the foreign key to   *)
(* categories, the unique index on their slugs.  Deleted rows count.       *)
Accepts(id, row) ==
  /\ "price" \in DOMAIN row => InRange(row.price)
  /\ "category" \in DOMAIN row =>
       row.category = NoCategory \/ row.category \in DOMAIN rows
  /\ "slug" \in DOMAIN row =>
       \A other \in DOMAIN rows \cap CategoryIds : rows[other].slug = row.slug => other = id

(* What a flush writes of an aggregate over the row it was merged with. *)
Differing(aggregate, base) == Only(aggregate, {c \in DOMAIN aggregate : aggregate[c] # base[c]})
Written(columns, row) ==
  [c \in DOMAIN columns \cup DOMAIN row |-> IF c \in DOMAIN columns THEN columns[c] ELSE row[c]]

Visible(id) == id \in DOMAIN rows /\ ~rows[id].deleted

(* Mutant of StatusOf: an error of the database is told as a conflict. *)
StatusOfConflict == [NotFoundError |-> 404, ValidationError |-> 422, DatabaseError |-> 409]

(* Answers.  register_error_handlers maps a NotFoundError to 404 and a     *)
(* ValidationError to 422; an error of the database is no DomainError and  *)
(* becomes a 500, a ConflictError (409) is raised nowhere.                 *)
StatusOf == [NotFoundError |-> 404, ValidationError |-> 422, DatabaseError |-> 500]
SuccessOf == [Created |-> 201, Updated |-> 200, Deleted |-> 204]

End(r, how, code) ==
  /\ phase' = [phase EXCEPT ![r] = how]
  /\ status' = [status EXCEPT ![r] = code]
  /\ session' = [session EXCEPT ![r] = <<>>]
  /\ changes' = [changes EXCEPT ![r] = <<>>]

Answer(r, code) == End(r, "answered", code)
Refuse(r, code) == Answer(r, code) /\ UNCHANGED <<rows, outbox>>

-----------------------------------------------------------------------------

(* Create handlers: validate, build, merge.  The key is new, so the merge  *)
(* finds no row and the whole aggregate will be inserted.                  *)
Create(r, id, body, new) ==
  /\ phase[r] = "idle" /\ id \notin DOMAIN rows
  /\ \A other \in Requests : phase[other] = "saved" => session[other].event.id # id
  /\ IF ~Valid(body) THEN Refuse(r, StatusOf.ValidationError)
     ELSE /\ phase' = [phase EXCEPT ![r] = "saved"]
          /\ changes' = [changes EXCEPT ![r] = new]
          /\ session' = [session EXCEPT ![r] =
               [found |-> new, aggregate |-> new, event |-> Event(r, "Created", id, new)]]
          /\ UNCHANGED <<rows, outbox, status>>

(* Update handlers up to repository.save: find_by_id and update. *)
Update(r, id, body, updated) ==
  /\ phase[r] = "idle"
  /\ IF ~Visible(id) THEN Refuse(r, StatusOf.NotFoundError)
     ELSE IF ~Valid(body) THEN Refuse(r, StatusOf.ValidationError)
     ELSE /\ phase' = [phase EXCEPT ![r] = "found"]
          /\ session' = [session EXCEPT ![r] =
               [found |-> rows[id], aggregate |-> updated,
                event |-> Event(r, "Updated", id, body)]]
          /\ UNCHANGED <<rows, outbox, changes, status>>

(* Delete handlers up to repository.delete; one without a row succeeds. *)
Delete(r, id) ==
  /\ phase[r] = "idle"
  /\ IF ~Visible(id) THEN Refuse(r, SuccessOf.Deleted)
     ELSE /\ phase' = [phase EXCEPT ![r] = "found"]
          /\ session' = [session EXCEPT ![r] =
               [found |-> rows[id], aggregate |-> Deleted(rows[id]),
                event |-> Event(r, "Deleted", id, <<>>)]]
          /\ UNCHANGED <<rows, outbox, changes, status>>

(* repository.save merges the whole aggregate, repository.delete sets the  *)
(* flag alone; both select the row again and, as in ItemCommands, see it   *)
(* as it is now or, were the first row object still alive, as it was.      *)
Save(r) ==
  /\ phase[r] = "found"
  /\ LET s == session[r]
     IN  \E base \in {rows[s.event.id], s.found} :
           changes' = [changes EXCEPT ![r] =
             IF s.event.type = "Deleted" THEN Differing(Deleted(base), base)
             ELSE Differing(s.aggregate, base)]
  /\ phase' = [phase EXCEPT ![r] = "saved"]
  /\ UNCHANGED <<rows, outbox, session, status>>

(* The row that r's flush writes, and the transaction that stores it with  *)
(* the event.                                                              *)
RowOf(r) ==
  IF session[r].event.type = "Created" THEN changes[r]
  ELSE Written(changes[r], rows[session[r].event.id])
Accepted(r) == Accepts(session[r].event.id, RowOf(r))
Record(r) ==
  /\ rows' = [id \in DOMAIN rows \cup {session[r].event.id} |->
                IF id = session[r].event.id THEN Stored(RowOf(r)) ELSE rows[id]]
  /\ outbox' = Append(outbox, session[r].event)

(* Mutant of Commit: the event stays when the database refuses the row. *)
CommitEventFirst(r) ==
  /\ phase[r] = "saved"
  /\ \/ Accepted(r) /\ Record(r) /\ Answer(r, SuccessOf[session[r].event.type])
     \/ /\ ~Accepted(r) /\ Answer(r, StatusOf.DatabaseError)
        /\ outbox' = Append(outbox, session[r].event) /\ UNCHANGED rows

(* uow.commit: the database accepts row and event together or refuses both. *)
Commit(r) ==
  /\ phase[r] = "saved"
  /\ \/ Accepted(r) /\ Record(r) /\ Answer(r, SuccessOf[session[r].event.type])
     \/ ~Accepted(r) /\ Refuse(r, StatusOf.DatabaseError)

(* The connection breaks after the database has committed: commit raises.  *)
CommitUnanswered(r) ==
  /\ phase[r] = "saved" /\ Accepted(r)
  /\ Record(r) /\ End(r, "lost", StatusOf.DatabaseError)

(* A statement fails or the connection is lost: the session rolls back. *)
Abort(r) == phase[r] \in {"found", "saved"} /\ Refuse(r, StatusOf.DatabaseError)

-----------------------------------------------------------------------------

(* The request schemas: what is required, and the limits that a body meets *)
(* before its route is called; one that fails them is answered with a 422  *)
(* by the framework and is no request here.                                *)
NameAndSlug(body) ==
  /\ "name" \in DOMAIN body => body.name # <<>>
  /\ "slug" \in DOMAIN body => UrlSafe(body.slug)
CreateCategoryRequest(body) == "name" \in DOMAIN body /\ NameAndSlug(body)
UpdateCategoryRequest(body) == NameAndSlug(body)

UpdateItemRequest(body) ==
  NameAndSlug(body) /\ ("price" \in DOMAIN body => body.price >= 0)
CreateItemRequest(body) ==
  {"name", "price"} \subseteq DOMAIN body /\ UpdateItemRequest(body)

PostCategory(r) ==
  \E id \in CategoryIds, body \in CategoryBodies :
    CreateCategoryRequest(body) /\ Create(r, id, body, NewCategory(body))
PutCategory(r) ==
  \E id \in CategoryIds, body \in CategoryBodies :
    UpdateCategoryRequest(body) /\ Update(r, id, body, UpdatedCategory(rows[id], body))
DeleteCategory(r) == \E id \in CategoryIds : Delete(r, id)

PostItem(r) ==
  \E id \in ItemIds, body \in ItemBodies :
    CreateItemRequest(body) /\ Create(r, id, body, NewItem(body))
PutItem(r) ==
  \E id \in ItemIds, body \in ItemBodies :
    UpdateItemRequest(body) /\ Update(r, id, body, UpdatedItem(rows[id], body))
DeleteItem(r) == \E id \in ItemIds : Delete(r, id)

Init ==
  /\ rows = InitialRows
  /\ outbox = <<>>
  /\ phase = [r \in Requests |-> "idle"]
  /\ session = [r \in Requests |-> <<>>]
  /\ changes = [r \in Requests |-> <<>>]
  /\ status = [r \in Requests |-> 0]

Write ==
  \E r \in Requests :
    \/ PostCategory(r) \/ PutCategory(r) \/ DeleteCategory(r)
    \/ PostItem(r) \/ PutItem(r) \/ DeleteItem(r)
    \/ Save(r) \/ Commit(r) \/ CommitUnanswered(r) \/ Abort(r)

(* The write requests on their own; Queries adds those that read. *)
Spec == Init /\ [][Write]_vars

-----------------------------------------------------------------------------

TypeOK ==
  /\ DOMAIN rows \subseteq Ids
  /\ \A id \in DOMAIN rows : DOMAIN rows[id] = Columns(id)
  /\ phase \in [Requests -> {"idle", "found", "saved", "answered", "lost"}]
  /\ status \in [Requests -> {0, 200, 201, 204, 404, 422, 500}]

(* What an event of the outbox tells, applied to what is known of its      *)
(* aggregate: names stripped, prices rounded, a slug that is not told      *)
(* derived from the name.  An item event is read as its subscriber gets    *)
(* it, deserialized, and its price must be a Decimal to be computed with;  *)
(* a category event, which the registry keeps from every subscriber, as    *)
(* the JSON of its outbox row.                                             *)
Applied(row, e) ==
  LET event == IF e.id \in ItemIds THEN Deserialize("Item", e.type, e.payload)
               ELSE [f \in DOMAIN e.payload |-> Loaded(e.payload[f])]
      Told(f) == f \in DOMAIN event /\ event[f] # None
      name == IF Told("name") THEN StoredName(event.name.is) ELSE row.name
  IN  IF e.id \in ItemIds
      THEN [deleted |-> e.type = "Deleted", name |-> name,
            price |-> IF ~Told("price") THEN row.price
                      ELSE IF event.price = Decimal(event.price.is)
                      THEN Rounded(event.price.is) ELSE -1]
      ELSE [deleted |-> e.type = "Deleted", name |-> name,
            slug |-> IF Told("slug") THEN event.slug.is
                     ELSE IF Told("name") THEN ToSlug(name) ELSE row.slug]

(* The events in the outbox, applied in the order of their commits, tell   *)
(* the rows but for the category of an item: a commit records one event,   *)
(* changes no row but that of its aggregate, and that to what the event    *)
(* makes of it.  Excepted is the commit of a request that overlapped with  *)
(* another: it read the row before one of the events on it was committed   *)
(* (category.py:95-127, item.py:88-124, models.py:28).                     *)
EventsTellRows ==
  [][LET e == outbox'[Len(outbox')]
         before == IF e.id \in DOMAIN rows THEN rows[e.id] ELSE [name |-> <<>>]
     IN  \/ UNCHANGED <<rows, outbox>>
         \/ /\ outbox' = Append(outbox, e)
            /\ \A id \in DOMAIN rows' \ {e.id} : id \in DOMAIN rows /\ rows'[id] = rows[id]
            /\ e.saw = Cardinality(EventsOn(e.id)) =>
                 \A c \in DOMAIN rows'[e.id] \ {"category"} :
                   rows'[e.id][c] = Applied(before, e)[c]]_vars

(* What a row shows: as long as no event on it is committed, what it had   *)
(* at the start, if it was there; then what its last event told, unless    *)
(* the request of that event overlapped with another on the same row.      *)
RowShown(id) ==
  IF EventsOn(id) = {}
  THEN /\ id \in DOMAIN rows <=> id \in DOMAIN InitialRows
       /\ id \in DOMAIN rows => rows[id] = InitialRows[id]
  ELSE LET e == outbox[Max(EventsOn(id))]
       IN  /\ id \in DOMAIN rows
           /\ e.saw + 1 = Cardinality(EventsOn(id)) =>
                \A c \in DOMAIN rows[id] \ {"category"} : rows[id][c] = Applied(rows[id], e)[c]

(* An answer tells what became of the request, in the outbox and in the    *)
(* rows: 200 and 201 that one event is committed and its row shows it, 204 *)
(* the same of a deletion or that there was no row to be seen, 404, 422    *)
(* and 500 that no event is, and a row without events is as it was.  An    *)
(* item that names an unknown category, a slug that is taken (be it by a   *)
(* deleted category) and a price out of range end in 500.  Only a commit   *)
(* whose answer was lost is told as a 500 and has happened                 *)
(* (container.py:167, error_handlers.py:22-48, unit_of_work.py:132-138).   *)
AnswersAreHonest ==
  /\ \A r \in Requests :
       LET by == {k \in DOMAIN outbox : outbox[k].by = r}
       IN  CASE status[r] \in {200, 201} ->
                  \E k \in by : by = {k} /\ SuccessOf[outbox[k].type] = status[r]
             [] status[r] = 204 -> \A k \in by : by = {k} /\ outbox[k].type = "Deleted"
             [] phase[r] = "lost" -> \E k \in by : by = {k}
             [] OTHER -> by = {}
  /\ \A id \in Ids : RowShown(id)

(* Every slug in the table is one the API itself would accept, whatever    *)
(* names the categories were given, and so is the slug of any short name   *)
(* (category_value_objects.py:35-59).                                      *)
SlugsAreUrlSafe ==
  SlugRules /\ \A id \in DOMAIN rows \cap CategoryIds : UrlSafe(rows[id].slug)
=============================================================================
