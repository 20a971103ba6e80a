------------------------------ MODULE Queries -------------------------------
(***************************************************************************)
(* The read requests: GET of one aggregate, of a page of all of them and   *)
(* of a page of a search, next to the write requests of Catalog.  A list   *)
(* is two statements, the page and then the count, and each sees what is   *)
(* committed when it starts; a search is one statement, and its page is    *)
(* cut and its total counted in Python.  Neither statement has an ORDER    *)
(* BY: any rows may make up the page.                                      *)
(***************************************************************************)
EXTENDS Catalog, Specifications

CONSTANTS
  Readers,                        (* the read requests                      *)
  Limits, Offsets,                (* of pages                               *)
  CategoryQueries, ItemQueries    (* filters a client may ask for           *)

(* The routes refuse any other limit or offset (items.py:56-57). *)
ASSUME PagesAssumption == Limits \subseteq Nat \ {0} /\ Offsets \subseteq Nat

PlainQuery(query) == "name_contains" \in DOMAIN query => Plain(query.name_contains)
UnescapedQuery(query) == "name_contains" \in DOMAIN query => Unescaped(query.name_contains)

(* The query whose bounds are rounded as the database rounds them, and the *)
(* queries whose bounds it can hold.                                       *)
Bounds == {"min_price", "max_price"}
RoundedQuery(query) ==
  [f \in DOMAIN query |-> IF f \in Bounds THEN Rounded(query[f]) ELSE query[f]]
CastableQuery(query) == \A f \in Bounds \cap DOMAIN query : InRange(query[f])

(* The filters have the types of the routes (items.py:66-71), and the      *)
(* specifications that are asked for include those of the queries and      *)
(* every composition of two of them.                                       *)
ASSUME QueriesAssumption ==
  /\ \A query \in ItemQueries \cup CategoryQueries :
       "name_contains" \in DOMAIN query => query.name_contains \in Seq(Chars)
  /\ \A query \in ItemQueries : \A f \in Bounds \cap DOMAIN query : query[f] \in Nat
  /\ Compositions({ItemSpec(query) : query \in ItemQueries}) \subseteq Specs
  /\ Compositions({CategorySpec(query) : query \in CategoryQueries}) \subseteq Specs

VARIABLE
  reading   (* reading[q]: what q has been told so far                      *)

allVars == <<vars, reading>>

-----------------------------------------------------------------------------

Active(table) == {id \in table : Visible(id)}

(* repository.find_matching: the rows for which the clause is true *)
FindMatching(table, spec) == {id \in DOMAIN rows \cap table : Clause(spec, rows[id])}

(* The same question to the in-memory repositories, were they to hold      *)
(* these aggregates.                                                       *)
InMemoryMatching(table, spec) == {id \in DOMAIN rows \cap table : Holds(spec, rows[id])}

(* Mutant of CountActive: the count has lost its WHERE clause. *)
CountAll(table) == Cardinality(DOMAIN rows \cap table)

(* repository.count without a specification *)
CountActive(table) == Cardinality(Active(table))

(* How many of n rows lie on a page, and how many behind it. *)
OnPage(n, limit, offset) == Max({0, Min({limit, n - offset})})
Behind(n, limit, offset) == Max({0, n - offset - limit})

(* Mutant of HasNext: true on the last page when it is full. *)
HasNextWhenFull(total, limit, offset) == offset + limit <= total

(* PaginatedResult.has_next and has_previous *)
HasNext(total, limit, offset) == offset + limit < total
HasPrevious(offset) == offset > 0

(* OFFSET and LIMIT of a statement, or a slice of a list, in any order. *)
Pages(ids, limit, offset) ==
  {page \in SUBSET ids : Cardinality(page) = OnPage(Cardinality(ids), limit, offset)}

(* The response of a page, with the navigation of to_paginated_response. *)
Response(page, total, limit, offset) ==
  [items |-> page, total |-> total, limit |-> limit, offset |-> offset,
   has_next |-> HasNext(total, limit, offset), has_previous |-> HasPrevious(offset)]

Read(q, told) == reading' = [reading EXCEPT ![q] = told] /\ UNCHANGED vars

(* What a response tells of a row: to_output_dto and to_response leave the *)
(* flag out.                                                               *)
ItemResponse(row) == Only(row, {"name", "price", "category"})
CategoryResponse(row) == Only(row, {"name", "slug"})

(* GetItemHandler and GetCategoryHandler *)
Get(q, id, response) ==
  /\ reading[q].step = "idle"
  /\ Read(q, IF Visible(id) THEN [step |-> "got", status |-> 200, response |-> response]
              ELSE [step |-> "got", status |-> StatusOf.NotFoundError])

GetItem(q) == \E id \in ItemIds : Get(q, id, ItemResponse(rows[id]))
GetCategory(q) == \E id \in CategoryIds : Get(q, id, CategoryResponse(rows[id]))

(* ListItemsHandler and ListCategoriesHandler, find_all; "behind" is       *)
(* history: the rows that followed the page when it was read.              *)
ListPage(q, table) ==
  /\ reading[q].step = "idle"
  /\ \E limit \in Limits, offset \in Offsets :
       \E page \in Pages(Active(table), limit, offset) :
         Read(q, [step |-> "page", table |-> table, page |-> page,
                  limit |-> limit, offset |-> offset, asOf |-> Len(outbox),
                  behind |-> Behind(Cardinality(Active(table)), limit, offset)])

ListItems(q) == ListPage(q, ItemIds)
ListCategories(q) == ListPage(q, CategoryIds)

(* The same handlers, count and the answer. *)
ListTotal(q) ==
  /\ reading[q].step = "page"
  /\ LET p == reading[q]
     IN  Read(q, [step |-> "listed", table |-> p.table, asOf |-> p.asOf, behind |-> p.behind,
                  until |-> Len(outbox),
                  response |-> Response(p.page, CountActive(p.table), p.limit, p.offset)])

(* SearchItemsHandler and SearchCategoriesHandler *)
SearchTable(q, table, spec) ==
  \E limit \in Limits, offset \in Offsets :
    LET matching == FindMatching(table, spec)
    IN  \E page \in Pages(matching, limit, offset) :
          Read(q, [step |-> "searched", behind |-> Behind(Cardinality(matching), limit, offset),
                   response |-> Response(page, Cardinality(matching), limit, offset)])

(* A bound that the column cannot hold makes the statement fail: numeric   *)
(* field overflow.                                                         *)
SearchItems(q) ==
  /\ reading[q].step = "idle"
  /\ \E query \in ItemQueries :
       \/ CastableQuery(query) /\ SearchTable(q, ItemIds, ItemSpec(query))
       \/ /\ ~CastableQuery(query)
          /\ Read(q, [step |-> "failed", status |-> StatusOf.DatabaseError])
SearchCategories(q) ==
  /\ reading[q].step = "idle"
  /\ \E query \in CategoryQueries : SearchTable(q, CategoryIds, CategorySpec(query))

InitQueries == Init /\ reading = [q \in Readers |-> [step |-> "idle"]]

NextQueries ==
  \/ Write /\ UNCHANGED reading
  \/ \E q \in Readers :
       \/ GetItem(q) \/ ListItems(q) \/ SearchItems(q) \/ ListTotal(q)
       \/ GetCategory(q) \/ ListCategories(q) \/ SearchCategories(q)

SpecQueries == InitQueries /\ [][NextQueries]_allVars

-----------------------------------------------------------------------------

CommitsOn(table, from, until) == {k \in from + 1..until : outbox[k].id \in table}

(* has_next says whether rows follow the page that is shown.  For a search *)
(* always; for a list, whose page and total are two statements without a   *)
(* common snapshot, unless a request on the table committed in between     *)
(* (query_handlers.py:51-52, pagination.py:29-31).                         *)
NextPageIsTrue ==
  \A q \in Readers :
    LET r == reading[q]
    IN  /\ r.step = "listed" /\ r.response.has_next # (r.behind > 0)
             => CommitsOn(r.table, r.asOf, r.until) # {}
        /\ r.step = "searched" => r.response.has_next = (r.behind > 0)

(* The page and the total of a list differ by no more than the requests    *)
(* that committed between them: a page that is full or not empty is within *)
(* the total but for the deletions, a page that is not full ends the list  *)
(* but for what came after it.                                             *)
DriftIsBounded ==
  \A q \in Readers :
    LET r == reading[q]
        resp == r.response
        moved == Cardinality(CommitsOn(r.table, r.asOf, r.until))
        shown == resp.offset + Cardinality(resp.items)
    IN  r.step = "listed" =>
          /\ resp.items # {} => shown <= resp.total + moved
          /\ Cardinality(resp.items) < resp.limit => resp.total <= shown + moved

(* Any composition of two filters selects in either backend the same of    *)
(* the rows that a request can create, deleted or not, as long as the      *)
(* column can hold the bounds as they are                                  *)
(* (base.py:45-99, specification_translator.py:53-85).                     *)
ComposedRules ==
  LET Exact(queries) ==
        {query \in queries : PlainQuery(query) /\ CastableQuery(query) /\ RoundedQuery(query) = query}
      Agree(specs, new) ==
        \A row \in new \cup {Deleted(aggregate) : aggregate \in new} :
          \A spec \in Compositions(specs) : Clause(spec, row) = Holds(spec, row)
  IN  /\ Agree({ItemSpec(query) : query \in Exact(ItemQueries)},
               {Stored(NewItem(body)) : body \in
                  {b \in ItemBodies : CreateItemRequest(b) /\ InRange(b.price)}})
      /\ Agree({CategorySpec(query) : query \in Exact(CategoryQueries)},
               {NewCategory(body) : body \in {b \in CategoryBodies : CreateCategoryRequest(b)}})

(* The active items and categories that the filters of a query name. *)
Named(query, row) ==
  "name_contains" \in DOMAIN query => Within(Lower(query.name_contains), Lower(row.name))
WantedItems(query) ==
  {id \in Active(ItemIds) :
     /\ Named(query, rows[id])
     /\ "min_price" \in DOMAIN query => query.min_price <= rows[id].price
     /\ "max_price" \in DOMAIN query => rows[id].price <= query.max_price}
WantedCategories(query) ==
  {id \in Active(CategoryIds) :
     /\ Named(query, rows[id])
     /\ "slug" \in DOMAIN query => rows[id].slug = query.slug}

(* In memory a search finds exactly the active aggregates that the filters *)
(* name.  In SQL, with bounds the column can hold, it finds those that the *)
(* filters with their bounds rounded name, as long as the keyword has no   *)
(* character that LIKE reads in its own way, and misses none that the      *)
(* filters name, as long as it has no escape character; so the two differ  *)
(* on plain keywords only for bounds of more than four decimals.  Names    *)
(* and keywords are ASCII here: elsewhere lower() of Python and PostgreSQL *)
(* differ (specification_translator.py:53-85, query_handlers.py:84-92).    *)
SearchIsExact ==
  /\ LikeRules /\ ComposedRules
  /\ \A query \in ItemQueries :
       LET found == FindMatching(ItemIds, ItemSpec(query))
       IN  /\ InMemoryMatching(ItemIds, ItemSpec(query)) = WantedItems(query)
           /\ CastableQuery(query) =>
                /\ PlainQuery(query) => found = WantedItems(RoundedQuery(query))
                /\ UnescapedQuery(query) => WantedItems(query) \subseteq found
  /\ \A query \in CategoryQueries :
       LET found == FindMatching(CategoryIds, CategorySpec(query))
       IN  /\ InMemoryMatching(CategoryIds, CategorySpec(query)) = WantedCategories(query)
           /\ PlainQuery(query) => found = WantedCategories(query)
           /\ UnescapedQuery(query) => WantedCategories(query) \subseteq found
=============================================================================
