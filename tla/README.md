# Verification of the hexagonal FastAPI template

TLA+ models, TLC runs and TLAPS proofs for the application under `src/src/app`:
items and categories behind an HTTP API, stored through units of work, whose
domain events travel through a transactional outbox to in-process subscribers,
RabbitMQ or Kafka. Paths below are relative to `src/src/app` unless they say
otherwise.

## 1. The system

| Component | State it keeps | Operations | What is hard | What makes it correct |
|---|---|---|---|---|
| **SQL unit of work** `infrastructure/persistence/sqlalchemy/unit_of_work.py` | session, `_pending_events`, publisher | `__aenter__`, `collect`, `commit`, `rollback`, `__aexit__` | failure or cancellation at every await, that of the rollback included; a commit whose answer is lost; a subscriber that raises after the commit | change and event rows durable together or not at all; subscribers see committed data; a unit that is over holds nothing that could still get out |
| **Outbox publisher, table** `infrastructure/events/outbox_publisher.py`, `models.py` | rows with `created_at`, `published_at` | `publish` stages a row in the command's session | staging order is not commit order | see relay |
| **Outbox relay** `infrastructure/events/outbox_relay.py` | task, transaction, locked batch, marks not yet committed | `start`, `stop`, `_run`, `_process_batch` | several workers; crash between publish and commit; rows that fail for ever | at least once, duplicates only from lost marks, no row shared, every registered event dispatched |
| **Command handlers** `application/handlers/` | none of their own; one unit of work per request | create, update, delete of items and categories | read, modify, write without version or lock; what equals the copy is not written | a committed update is lost only to another update; no deletion undone unnoticed |
| **SQL repositories** `item_repository.py`, `category_repository.py` | the session | `save` (merge), `find_by_id`, `delete`, lists, counts | merge of a stale copy; unique slugs | as above |
| **Domain model** `domain/model`, `domain/events` | fields, recorded events | `create`, `update`, `mark_deleted`, `collect_events` | a slug is derived from whatever a name contains; events carry arguments, not results | events tell what the row becomes; every derived slug is valid |
| **Registry, serialization** `infrastructure/events/_registry.py`, `serialization.py` | none | `serialize`, `deserialize` | classes missing from the registry; types that JSON does not have | every event class in the registry reads as it was written; one that is not ends in a `KeyError` |
| **In-process publisher** `in_process_publisher.py` | handlers by type | `subscribe`, `publish` | a subscriber that raises after others | |
| **Broker publishers** `infrastructure/events/broker/` | connection | `connect`, `publish`, `disconnect` | sent but not confirmed | the relay's turn raises in that case |
| **Kafka consumer** `infrastructure/events/consumer/kafka.py` | consumer, task | `start`, `_poll`, `stop` | rebalances; one offset per partition; commit of all positions | the committed offset passes nothing that is still to be dispatched |
| **RabbitMQ consumer** `infrastructure/events/consumer/rabbitmq.py` | connection, task | `start`, `_consume`, `stop` | prefetched messages; lost connections; acknowledgement on failure | no outage loses a message, none is with two consumers |
| **Lifespan** `main.py` | keys, broker, relay | startup and shutdown in order | a startup step that fails; a shutdown while the relay publishes or requests run | nothing is used before it is set up or after it was taken down; a shutdown ends |
| **Dependency injection** `container.py`, `infrastructure/di/` | singletons, connection pool | builds units of work per request (SQL) or once (memory) | one pool for requests, probes and relay; the shared in-memory unit of work | no request waits while it holds a connection; all come back |
| **In-memory backend** `infrastructure/persistence/in_memory/` | dictionaries, one shared list of pending events | as the SQL backend | requests interleave in `commit` | an event is published once, by its own request |
| **Specifications** `domain/specifications`, `specification_translator*.py` | none | `is_satisfied_by`, `translate` | two evaluations of one formula; LIKE reads some characters in its own way; bounds get the type of the price column | both select the same rows, for keywords and bounds that mean the same to both |
| **Query handlers, pagination** `application/handlers/*query_handlers.py`, `application/dtos/pagination.py` | none | get, list, search | page and total from two statements, no order | has_next and total are right up to what committed in between |
| **Application services, HTTP layer** `application/services`, `presentation/` | none | one per route | errors of the database are no domain errors | an answer tells what became of the request |
| **Migrations** `src/alembic` | the schema | `upgrade`, `downgrade` | a chain in one transaction | it runs from every revision |
| Authentication, resilience, rate limiting | keys of the issuer; counters of libraries | `initialize` | loaded once per process | loaded before the first request |
| Observability, settings, clock, health checks | none to speak of | | | |

How they interact: a router calls an application service, the service a
handler; the handler opens its unit of work, reads an aggregate through the
repository, calls a domain method that records an event, saves, collects and
commits. In SQL mode the event becomes a row of the same transaction. The relay
of every worker process polls the table and hands events to the relay publisher:
the in-process publisher or a broker. Consumers of other processes read the
broker and dispatch to their in-process publisher.

## 2. Modules

| Module | Models | Extends |
|---|---|---|
| `OutboxTable` | the rows both sides share, what was delivered | |
| `UnitOfWork` | `SQLAlchemyUnitOfWork` under any number of commands | `OutboxTable` |
| `OutboxRelay` | `OutboxRelay` of several workers | `OutboxTable` |
| `Outbox` | the composition, with worker start, shutdown and crash, fairness | both |
| `EventDelivery` | the abstract promise to subscribers, implemented by `Outbox` | |
| `OutboxProof` | the proofs about `Outbox`, `UnitOfWork` and `OutboxRelay` | `Outbox` |
| `ItemCommands` | concurrent update and delete of one item, column by column | |
| `ItemCommandsProof` | the proofs about `ItemCommands` | `ItemCommands` |
| `KafkaConsumer` | a consumer group of `KafkaEventConsumer` | |
| `KafkaConsumerProof` | the proofs about `KafkaConsumer` | `KafkaConsumer` |
| `RabbitConsumer` | competing `RabbitMQEventConsumer`s | |
| `RabbitConsumerProof` | the proofs about `RabbitConsumer` | `RabbitConsumer` |
| `InMemoryUow` | `InMemoryUnitOfWork`, one object for all requests | |
| `InMemoryProof` | the proofs about `InMemoryUow` | `InMemoryUow` |
| `TextRules` | value objects, slugs, LIKE: pure functions on texts | |
| `Payloads` | `serialize`, `deserialize` and the registry: pure functions on events | |
| `Prices` | what Numeric(10, 4) makes of a Decimal, in a column or a parameter | |
| `Catalog` | the write requests from route to answer, on both tables | `TextRules`, `Payloads`, `Prices` |
| `Specifications` | specifications and the clauses they are translated to | `TextRules`, `Prices` |
| `Queries` | the read requests beside the write requests | `Catalog`, `Specifications` |
| `CatalogProof` | the proofs about `TextRules`, `Catalog`, `Specifications` and `Queries` | `Queries` |
| `Serving` | a process: lifespan, requests, relay, connection pool | |
| `ServingProof` | the proofs about `Serving` | `Serving` |
| `Migrations` | the chain of revisions and its transaction | |
| `MC*` | the instances TLC checks (`Migrations` needs none) | |

**UnitOfWork.** `uow[c]` is the place command `c` has reached in
`async with uow: find; method; save; collect; commit`; `pending[c]` is
`_pending_events`, `handled[c]` the part the loop in `commit` has been through,
`staged[c]` and `dirty[c]` are what the session holds, `durable` the commands whose
change is committed. `useOutbox[c]` is the mode the unit was constructed with: the container
always asks for the outbox (`container.py:146-228`), so that dispatch in process, the default of
the class, is what a caller gets who builds a unit of work without it. `Enter`, `LeaveNotFound`, `Save`, `Collect`, `StageRow`
(one turn of the loop), `CommitOutbox`, and in the other mode `CommitFirst`,
`Dispatch`, `FinishDispatch` are the await points of the code. `Fail` is an
exception or a cancellation at any of them and runs `__aexit__`, whose own
`session.rollback()` (`unit_of_work.py:147`) either succeeds (`Rollback`) or raises or is cancelled as
well (`RollbackError`): then the list is not cleared and the session not closed, the unit is
"abandoned". `FlushError` is that case after the loop of outbox mode, which has cleared the list already;
`FailHalfDelivered` is a subscriber that raises after others took the event;
`CommitUnanswered` a commit the database made but could not report.

**OutboxRelay.** `batch[w]` are the rows locked by the transaction of worker
`w`, `todo[w]` those the loop has not reached, `marked[w]` those with
`published_at` set in the session only. `Fetch` is the SELECT with its WHERE,
ORDER BY, LIMIT and SKIP LOCKED; `Publish`, `SkipRow`, `SkipDelivered` the three
ways the turn of a row can end; `CommitBatch` the end of `session.begin()`;
`PollError`, `Stop` and, in `Outbox`, `Crash` roll back.

**ItemCommands.** One row, any number of commands. `found[c]` is what
`find_by_id` returned, `changes[c]` what the flush will write: the columns in
which the merged object differs from the row selected by `save`/`delete`. Contents are
values and compared as such: `Body[u]` is what request `u` carries, two requests may carry the same
value or the one the item has, and what an update assigns as its copy holds it is not written
(`Differing`). The service assigns the category with every request, as None if the body
has none (`Assignment`). The price column rounds what it is given (`Stored`), while the merge
compares the price as it was assigned. `clock` and `stamp[u]` give `updated_at`.

**KafkaConsumer.** `owner`, `position` and `committed` are those of the group;
`inHand[c]` is the message between `async for` and the end of the loop body,
`dispatched` the consumers between `publish` and `commit()`.

**RabbitConsumer.** A message waits in `queue`, in the iterator's `buffer[c]` or
in `inHand[c]`. `finished` are consumers whose `process()` block has ended,
`lostLink` those whose channel broke since they took their message. `failed` and `rejected`
are histories of the two ways the consumer itself gives a message up: `DispatchError`, whose
exception is caught inside `process()`, and `StopRejects`.

**InMemoryUow.** `store` is the dictionary of the repository, `pending` the one
`_pending_events`, `at[c]` how far the `for` loop of command `c` has walked it. The
methods of the dictionary repository never give way to the event loop, so that a command runs
from `async with` to the first subscriber in one step (`Execute`); from there it
takes turns with the others: `NextEvent`, `Finish` (the list is at its end and
cleared), `Fail` (a subscriber raises, or the request is cancelled). `Refuse` and
`NotFound` end before anything is recorded. Commands interleave only where a
subscriber waits; without such subscribers the behaviours are those of the model
in which every command ends before the next begins.

**TextRules.** A text is a sequence of characters, and a character stands for its class
(letter or digit, capital, white space, percent sign, underscore and backslash, which LIKE
treats in its own way, hyphen, anything else). All of them are ASCII: `Lower` stands for
`str.lower` and for `lower()` of PostgreSQL, which differ beyond it (the final sigma, for one). `ToSlug` follows `to_slug` replacement by replacement; `UrlSafe`
is the pattern, `ValidSlug` what Python's `$` makes of it. `Like` is the operator of
PostgreSQL, from the end of the pattern to its start, `Within` Python's `in`.

**Payloads.** The fields of an event with their type hints, the JSON that
`serialize` makes of them, and `Coerce`, which gives back a Decimal where the hint, or the
type inside an optional one, is Decimal. `EVENT_REGISTRY` has the classes of items only; for any other
`Deserialize` gives the `KeyError` of `serialization.py:77`.

**Prices.** `Rounded` is the amount the column stores, `InRange` whether it can. The same type is given
to every parameter that is compared with the column, hence also to the bounds of a search.

**Catalog.** `rows` are both tables, soft-deleted rows included; `outbox` the committed
events with their payloads, in the order of the commits. A write request is up to three
steps, between which another may come: the handler up
to `save` or `delete` (`Create`, `Update`, `Delete`), the merge (`Save`), the
commit (`Commit`, or `CommitUnanswered` when the connection breaks after it);
`Abort` is an error in between. `Accepts` is what the database
checks: the range of the price, the foreign key, the unique index. `PostCategory`
to `DeleteItem` are the routes with the constraints of their schemas. How rows and
events become durable together is the matter of `UnitOfWork`; which columns a
merge writes is that of `ItemCommands`, and the base of the merge is chosen as there. `Applied` is
what an event tells: that of an item as `Deserialize` gives it to a subscriber, that of a category,
which the registry keeps from every subscriber, as the JSON of its outbox row.

**Queries.** `reading[q]` is what a read request has been told. A list is two
steps, page and total; a search is one statement. `behind`, `asOf` and `until`
are histories: the rows that followed the page, and where the outbox ended at either statement. A search
with a bound the column cannot hold fails (numeric field overflow) and is answered with a 500;
the model lets it always fail, as it does when the cast of the parameter is evaluated with the plan of the
statement.

**Specifications.** `Holds` is `is_satisfied_by`, `ItemClause` and
`CategoryClause` are the translated clauses evaluated on a row, `ItemSpec` and
`CategorySpec` the compositions of the handlers. `Specs`, the domain of `Height`, are
the specifications that are asked for, with all they are composed of; `Height` says how
deep each is composed, which is what makes the recursion of these functions end.

**Serving.** `process` is the point the lifespan has reached, `jwks` and
`connected` what it has set up; `held` are the connections checked out, by
holder and session. `Boot`, `LoadKeys`, `ConnectBroker`, `StartRelay` and
`Terminate`, `StopRelay`, `Disconnect`, `Exit` are the steps of `lifespan`;
`StartupFails` and `Crash` end the process. `Poll`, `PollFails`, `EndBatch`, `Wake` are the
relay as a user of the pool; `Arrive`, `Acquire`, `PoolTimeout`, `Finish` a
request. The issuer and the broker are configured or not (`config`).

**Migrations.** `database` is the set of objects committed (tables, columns, indexes,
constraints, the row of `alembic_version`), `session` what the transaction sees,
`todo` the statements left. A statement needs objects, adds some and drops some;
one whose objects are missing is `Refused`, and everything rolls back.

Histories (`delivered`, `redo`, `handled`, `failed`, `rejected`, `returns`,
`skipped`, `saw`, `by`, `version`, `readAt`, `committedAt`, `recorded`, `met`) are read by properties only, apart
from the bounds named below.

## 3. Runs

Passing:

| Run | Shows |
|---|---|
| `outbox` | Two workers, two commands in either mode, one with two item events and one with a category event whose row is a poison row, batches of two: atomicity, nothing told before its commit, in-process dispatch once, nothing kept by a unit of work that is over but what an interrupted rollback left, explained duplicates, exclusive batches, no delivery after the mark, refinement of `EventDelivery`; registered events are dispatched and their rows marked. 83,957 states. |
| `item_commands` | Three updates and two deletions; one update sets the name the item has, one a price that the column rounds, one the price this is rounded to, the others clear the category: losses have a cause, contents are committed ones, an undeleted item was written back by a stale update, an undisturbed command has exactly its effect and does not set `updated_at` back. 3,458,313 states. |
| `kafka_consumer` | Two consumers, partitions with two and one messages, three rebalances, `auto_offset_reset = latest` (the default). |
| `rabbit_consumer` | Two consumers, two messages, each returned to the queue at most twice: crashes, lost links and restarts lose nothing; what is lost was given up by the consumer itself, which `rabbit_loss` shows. |
| `in_memory` | Two creations, an update and two deletions of two items on the shared unit of work: the list holds no event of a command that has returned, duplicates and losses need a command met in `commit`, the dictionary is what the recorded events say. |
| `catalog` | Two write requests and a read request on a category and an item that exist and those they create: an event tells the row it is committed with; answers are honest but for a commit whose own answer was lost, and the rows show what the committed events told and nothing else; slugs are valid; `has_next` and total are right up to commits in between; searches find what their filters name in both backends, with bounds that are exact, rounded and refused. 128,774 states. |
| `serving` | Two requests and the relay on a pool of two connections, with and without issuer and broker, with outages and crashes: order of the lifespan, use of the pool, answers and shutdowns that come. |

Violations, each a statement of the repository that the code does not keep:

| Run | Statement | What the code does |
|---|---|---|
| `outbox_category` | `outbox_publisher.py:8` "relay will dispatch it" | category events are not in `EVENT_REGISTRY`; their rows are never dispatched |
| `item_return` | `src/tests/integration/api/test_items_e2e.py:86` "item must no longer be accessible" | an overlapping update merges `is_deleted = False` back |
| `rabbit_loss` | `consumer/rabbitmq.py:26` "Messages are acknowledged **after** successful dispatch so the broker re-delivers on crash (at-least-once).", `consumer/base.py:40` "Stop consuming, drain in-flight messages, and disconnect cleanly." | a stop rejects the message in hand without requeue, and a dispatch that raises is caught inside `process()` and acknowledged: either way the broker discards a message nobody was given |
| `kafka_loss` | `consumer/kafka.py:24` "Offsets are committed **after** successful dispatch (at-least-once)." | a later commit passes a message that raised |
| `migrations` | `src/alembic/versions/0003_add_category_id_to_items.py:7` "Adds an optional ``category_id`` foreign key to ``items``", `src/docker-compose.yml:23` "Runs once after the DB is healthy, then exits." | no revision creates `categories` (the tests use `metadata.create_all`), so that the upgrade to 0003 is refused and rolled back |

Facts the models show and that readers of the code should know, without a run:

* The relay goes on behind a row whose turn failed, so that a later event of the same
  aggregate can go out before an earlier one (`outbox_relay.py:116`); the key
  of a Kafka message orders what is sent, in the order it is sent.
* `_BATCH_SIZE` rows that cannot be deserialized keep the relay from all newer rows
  (`outbox_relay.py:101`): `RegisteredIsDispatched` needs fewer of them.
* On aggregates on which two requests overlap, name and slug of a category can come from
  different requests, as columns do in `item_commands`; `EventsTellRows` excepts the
  commits of such requests.
* A PUT that sets what the request had read, as the category None of every PUT without one, writes
  nothing: what another request committed in between stays, although the PUT commits last
  (`item_repository.py:44`). `LossIsExplained` names this as a cause of its own.
* A bound of a search with more than four decimals is rounded before it is compared, so that SQL can find
  a row that `is_satisfied_by` refuses (`max_price=1.00005` finds a price of 1.0001), and a bound
  beyond the column ends in a 500 (`items.py:68-69`, `models.py:28`). SQL never misses a row for
  the rounding, because stored prices are rounded themselves.
* A keyword with `%` or `_` finds more in SQL than in memory, and one with a backslash other
  names (`specification_translator.py:71`); `SearchIsExact` says of the first that SQL finds
  no less, and excepts the second for SQL.
* The slug of a deleted category stays taken, and an item may be created in a
  deleted category; the first ends in a 500, the second in a 201.
* A readiness probe fails with a 500 instead of a 503 while the database refuses
  connections, for the driver's `OSError` is no `SQLAlchemyError` (`health_check.py:28`).

Bounds, and why they are enough. `BatchSize = 2` with three rows gives a batch
that is full and rows left behind; two workers are what SKIP LOCKED is about; one
lost mark per event (`MaxRedo = 1`) gives the second delivery, and further ones
repeat the first. Commands of both modes at once would add nothing: they share only the table, to which
the in-process mode does not write, so `Modes` has all commands in one mode. `MaxRebalances = 3` allows to form a group, to move a partition
while a message is in hand and to move it back. `MaxReturns = 2` lets a message
pass from one consumer to the other and back. Three updates and two deletions of
an item give the chains update, deletion, stale update and two stale updates of
different columns, and an update of another column or content that is committed while one that changes
nothing is under way; `MaxClock = 2` lets two updates have different times. Five in-memory commands allow a list of three events, two loops on
it and two commands that clear it; which of the two items they
concern matters only to the dictionary. In `catalog` two write requests are enough for
a slug that is taken in between, a category deleted under an item, a row changed between
page and total; `Scale = 2` and `MaxPrice = 10` give prices and bounds that are rounded
and ones that are refused; texts up to four characters (`TextLength`) contain every pair and triple of
character classes that the rules about runs and ends look at, keywords are half
as long. `Specs` are there the specifications of six queries, every composition of two of
them and what these are made of, at most three deep (`MaxHeight`), of any height in the proof. Two
write requests are interchangeable (symmetry). In `serving` any two
of two requests and the relay exhaust the pool. Deadlock is checked except where the modelled system stops:
when all commands on the item have returned, when all requests of `catalog` are
answered, and when all messages are settled
and the bounds of rebalances or returns are reached.

`in_memory` states what a loss takes, because the stronger statement of
`in_memory/unit_of_work.py:37`, "Publish all enqueued events and clear the queue.", does not
hold, even if no subscriber raises: A and B walk a list of their two events to its
end; A clears it; C and D append theirs; B, whose position is 2, finds the list of two
at its end and clears it; C, which has published its own, finishes, and so does D, whose event
nobody has published. That an event is published by its own command and again by
another one is the ordinary case of two commands in `commit`.

Every property has a mutant in `PROJECT.json`: a definition of the model changed the way a
slip in the code would change it. The mutants are kept beside the originals
and are called "Mutant of" in their comments.

## 4. Fairness

* `Outbox!Fairness`: some worker is started again (a supervisor restarts a
  process that died); some relay gets to poll although crashes go on (strong,
  because crashes disable it); a row whose turn comes again and again is at last
  published, or passed over if it cannot be deserialized (strong: outages end);
  a relay that gets to the end of its loop again and again commits at last. `_run` catches
  everything and sleeps a fixed time, which is what justifies it. Commands have
  no fairness.
* `KafkaConsumer!Fairness`: a running consumer reads what there is, its dispatch
  returns or raises, the commit is answered or raises (weak). Nothing about
  starts, stops or rebalances; `EverythingIsSettled` assumes that some consumer
  runs from some time on.
* `RabbitConsumer!Fairness`: the broker delivers, the iterator yields, the block and the
  acknowledgement end (weak). `EveryMessageEnds` assumes a consumer that consumes
  from some time on.
* `Serving!Fairness`: a request that can get its connection, its timeout or its
  result does (weak: the event loop resumes what is ready; `pool_timeout` ends every
  wait for a connection), and the steps of the shutdown follow each other. This assumes that every
  statement of a request returns, with a result or an error, for the code sets no statement timeout, and that
  `disconnect` of the broker does. The relay gets none:
  `EndBatch` may never come, as when a publisher hangs, and requests
  and shutdown must not depend on it.

## 5. Proofs

All theorems hold for every value of the constants that satisfies the named
assumptions (`EventsAssumption`: finitely many events; `CommandsAssumption`: no
event is recorded by two commands, the units of work in any mix of modes; `RelayAssumption`, `HostAssumption`;
`ItemAssumption`, `KafkaAssumption`, `RabbitAssumption`: shapes of the
parameters, the two consumer groups finite, and that rounding a price twice is rounding it once; `InMemoryAssumption`: finitely many
commands, and an item is created once, for its identity is a fresh `uuid4`;
`ServingAssumption`: the relay is no request, and the pool has a size;
`CatalogAssumption`: keys of the two tables differ, bodies have the fields and types of
their schemas, rows that were there before were written by the program;
`PagesAssumption`, `QueriesAssumption`: what the routes let through as limit, offset and
filter; `PricesAssumption`: a Decimal has finer steps than the column; `SpecsAssumption`: a specification does not contain itself;
`TextLengthAssumption`: a bound of the texts TLC enumerates is a number).

`OutboxProof` proves one inductive invariant. Beyond the types it says: rows
staged in a session belong to its command and the loop has been through them;
until a command commits none of its rows exists, afterwards all do (`RowInv`, which gives
`ChangeAndRowsTogether`); a unit of work in in-process mode has dispatched exactly what its loop has been
through, all of it after a normal return, each event at most once after a failure (`DispatchInv`); a unit
that is over holds nothing, or was abandoned by its rollback with what it had (`CommandInv`, which gives
`NothingLeftBehind`); batches are disjoint, are committed rows and not
published; what a relay has marked was delivered, once more than `redo` accounts
for while it is in a batch or published, and otherwise not (this gives `DuplicatesExplained`).
The refinement follows from the same invariant: `CommitOutbox` and
`CommitUnanswered` are `Record`, `Publish` and `SkipDelivered` are `Receive` or a
stutter, everything else stutters.

`RabbitConsumerProof`: where a message can be (`PlaceInv`), that a `process()` block
ends only after a dispatch or an exception (`DoneInv`), that a message has one
place (`OneCopy`) and, unless its dispatch raised or a stop rejected it, never none (`OutagesLoseNothing`). `OncePerDelivery` is not
inductive, for it forgets who is about to dispatch. `CountInv` adds to the
dispatches of a message those still to come without another return, the consumers that
hold it unfinished and one if it waits; a step moves between these terms, and only
a return makes room for more.

`KafkaConsumerProof`: committed offset, position and end are in this order (`OffsetInv`);
what the owner of a partition has read is settled or in its hands (`ReadInv`), which is
why a commit of the position is safe: the committing consumer holds only a message it
has dispatched (`HandInv`). Before a message in hand everything is settled,
also when its partition has passed to another owner (`BeforeInv`, which gives
`PartitionOrder`). `CountInv` bounds dispatches by rebalances as in the other
consumer. `OffsetsForward` follows from `OffsetInv`, because a commit writes the
position of the owner.

`ItemCommandsProof`: the properties speak of the row of the table, but a stale copy is
written back later, so they are stated of any row `r` as of a version `t`
(`Explained(r, t)`): of the row now, and of the copy of each command as of the
version it read. What is explained as of a version stays so (`ExplainedStep`), since
commits get higher versions. A commit then mixes two explained rows column by
column (`CommitUpdate`, `CommitDelete`); the only losses it adds are those of commits the
copy had not seen, which is what `Stale` says. `UpdateInv` and `DeleteInv` say what a
session will write, and of a column an update set and will not write that it has the content
already or was written by an update that committed since it read (`Since`): for this `CopyInv` says that a copy is out of date
only where that has happened. It is what makes `Missed` the one other cause of a loss.
`ExactInv` says that the changes are the exact effect while nobody else commits and `ClockInv` that no
row is ahead of the clock (these give `UndisturbedIsExact`).

`InMemoryProof`: nothing in the list or the loops tells whose turn it is, so the
invariant relates each command to those it met in `commit` (`MetInv`). An event is in
the list once (`OnceInv`) and belongs to a command still in `commit`
(`EventsHaveOwner`); it is there, before its command's position or published
already, or a command met has ended (`LossInv`, which gives `LossNeedsEarlierEnd`). For
`DuplicatesNeedOverlap`, `CountInv` adds to the publications of an event the
loops that have it before them, `Ahead`: a turn moves one loop from the second term to the first,
and a loop that starts later starts with a command that is then met. `CreatedInv`, that what
is changed was created, gives `StoreIsRecorded`.

`ServingProof`: what the lifespan has set up at each of its points (`StartupInv`) and
who holds connections (`HoldInv`: the relay while it publishes, a request only while
it works) are inductive. That no request waits with a connection in hand rests on
`OneSession`, that no sort of request needs two sessions: the read session that
`_request_scoped` opens for commands too executes nothing. `PoolIsBounded` counts the
connections with it.

`CatalogProof` has seven parts.

1. *Slugs.* `At` and `Strip` are given by what they keep: `Rank` numbers the places that are
   kept, and a text is characterised by its characters place by place. From this,
   step by step through `to_slug`, the slug of any text of any length is safe in a URL and its
   own slug (`SlugOfAnyName`). No induction is used, least and greatest
   members of sets of numbers take its place (`Smallest`, `Largest`).
2. *LIKE.* The equations of `Like` have one solution on the pattern `%keyword%`
   (`LikeSolved`), and if the keyword has no wild character it says where the rest
   of the keyword follows (`RestStep`); so LIKE is Python's `in` (`LikeIsIn`). On any
   other pattern the equations have a solution as well (`LikeExists`, from the last
   place to the first), and without a backslash that solution holds at least the places where
   the keyword stands as it is (`LikeFindsNoLess`).
3. *Answers.* Every step of a request is one of four (`Kind`): an answer that promises
   nothing, reading, saving, or the commit, told or not. A request without an answer has no
   place in the outbox (`PendingInv`), so that the place a commit adds is its only one
   (`ByAppended`), and the event there is the request's own (`CarriedInv`).
4. *Rows and events.* `EventsTellRows` speaks of a commit only, but what it commits was made
   two steps before, of a row that may have changed since. `TableInv` therefore says of
   a request under way: its event, applied to the row it found, makes its
   aggregate (`Makes`); that row is still in the table as long as no other event on it was
   committed, that is as long as `saw` is still their number (`FoundInv`); and the columns
   it will write complete the row to the aggregate (`SavedInv`). That all rows fit their columns and
   all slugs their pattern (`RowsInv`) is part of it, for a commit writes over
   whatever is in the table by then. What an event makes of a row goes through
   `serialize` and, for items, `deserialize` (`ToldBack`), which is where a Decimal could be lost.
   The row part of `AnswersAreHonest` is `ShownInv`: a row without events is as it was, and any other shows
   its last event; it rests on `EventsTellRows` of the last commit (`StepTells`) and on that an event applied to the
   row it has made changes nothing more (`AppliedAgain`).
5. *Pages.* `QueryInv` adds of a list that has its page: the rows it was cut from were
   as many as are active now, but for one for each commit on the table since (`PageOf`,
   `RecordsMoves`: a commit moves one table by one row at most). The rest is arithmetic
   (`PageArithmetic`).
6. *Specifications.* The recursive functions of `Specifications` have a value
   on every specification that is asked for (`ComposedExists`, up the heights), hence satisfy their
   equations (`HoldsSays`, `ItemClauseSays`). A specification of least height on which
   the backends differ cannot be a filter (by part 2) nor be composed (by its operands), so
   that there is none (`BackendsAgree`, for bounds the column holds as they are). The same argument, without
   negations and in one direction, gives `SqlMissesNothing` for keywords with percent signs and underscores and
   for bounds that are rounded: rounding keeps the order (`RoundedInOrder`) and leaves stored prices alone,
   so that no price that satisfies a bound is lost (`BoundsLoseNothing`).
7. *Searches.* The specification of a query holds of exactly the aggregates
   the query asks for (`ItemSpecHolds`, `CategorySpecHolds`), and its clause of those that the query with
   rounded bounds asks for, if its keyword is plain (`ItemSpecFinds`, clause by clause, since rounded
   bounds make another specification than the one that is translated). Compositions of exact queries are built of plain filters
   (`ItemSpecBuilt`), other queries without a backslash of those of `SqlMissesNothing`
   (`ItemSpecBuiltUp`), and rows are what `RowsInv` says.

With readers the write requests behave as without (`ReadersChangeNothing`), so that parts 3
and 4 hold of the composition the run checks.

Only model-checked: everything about liveness (`RegisteredIsDispatched`,
`RegisteredIsPublished`, `EverythingIsSettled`, `EveryMessageEnds`,
`EveryRequestAnswered`, `ShutdownCompletes`), which is out of the prover's reach, and the
violations. Every invariant and action property of a passing run is a theorem.

## 6. What is not modelled

* The verification of a token: a call of a library without state. Which routes ask
  for one is left out as well.
* The counters of the rate limiter and of the circuit breaker. The limiter may answer any
  request; the breaker wraps one call that is made once per process and never opens.
* Observability, settings without effect on control, middlewares that add
  identifiers and spans, the clock but for `updated_at` in `ItemCommands`.
* `category_id` checks of the item handlers: the container never passes the
  category unit of work they need, so the branch is dead in the application.
* Descriptions, maximum lengths and timestamps of the catalog: no decision depends on
  them beyond what names show.
* Texts beyond ASCII, on which `lower()` of PostgreSQL (of whatever locale) and `str.lower` may differ, so that the
  backends may find different names there.
* Bodies that the request schemas refuse: the framework answers them with a 422.
* `find_by_slug`, `count` with a specification and `subscribe`: the application never
  calls them.
* The category side of the in-memory backend: a copy of the item side.
* Messages that RabbitMQ routes to no queue.

## 7. What could come next

1. The middlewares, if one comes to keep state.
2. The order of events per aggregate, should the relay come to promise one: a
   property of `Outbox` that fails today.
