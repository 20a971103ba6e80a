--------------------------- MODULE Specifications ---------------------------
(***************************************************************************)
(* The search filters: specifications that compose (domain/specifications),*)
(* what each says about an item or a category, and the SQL clause the      *)
(* translators make of it, evaluated on a row.                             *)
(*                                                                         *)
(* A specification is a record: its "op", and the operands or parameters.  *)
(* An optional parameter that is None is a field the record lacks.         *)
(***************************************************************************)
EXTENDS TextRules, Prices

CONSTANTS
  Height,      (* how deep each specification that is asked for is composed *)
  MaxHeight

Specs == DOMAIN Height

And(left, right) == [op |-> "and", left |-> left, right |-> right]
Or(left, right) == [op |-> "or", left |-> left, right |-> right]
Not(spec) == [op |-> "not", spec |-> spec]

Operands(spec) ==
  IF spec.op \in {"and", "or"} THEN {spec.left, spec.right}
  ELSE IF spec.op = "not" THEN {spec.spec} ELSE {}

(* Specifications are objects that hold their operands: none contains      *)
(* itself.                                                                 *)
ASSUME SpecsAssumption ==
  /\ MaxHeight \in Nat /\ Height \in [Specs -> 0..MaxHeight]
  /\ \A spec \in Specs : \A part \in Operands(spec) :
       part \in Specs /\ Height[part] < Height[spec]

Param(p, field, default) == IF field \in DOMAIN p THEN p[field] ELSE default

(* What the parameters of a query leave of its optional filters. *)
Some(query, fields) == [f \in fields \cap DOMAIN query |-> query[f]]

-----------------------------------------------------------------------------

(* is_satisfied_by of the specifications of one item *)
ItemHolds(spec, item) ==
  CASE spec.op = "all" -> TRUE
    [] spec.op = "active" -> ~item.deleted
    [] spec.op = "price" -> /\ Param(spec.bounds, "min_price", item.price) <= item.price
                            /\ item.price <= Param(spec.bounds, "max_price", item.price)
    [] spec.op = "name" -> Within(Lower(spec.keyword), Lower(item.name))

(* is_satisfied_by of the specifications of one category *)
CategoryHolds(spec, category) ==
  CASE spec.op = "all" -> TRUE
    [] spec.op = "active" -> ~category.deleted
    [] spec.op = "slug" -> category.slug = spec.slug
    [] spec.op = "name" -> Within(Lower(spec.keyword), Lower(category.name))

IsItem(row) == "price" \in DOMAIN row

(* is_satisfied_by with the composite specifications *)
Holds(spec, row) ==
  LET holds[s \in Specs] ==
        CASE s.op = "and" -> holds[s.left] /\ holds[s.right]
          [] s.op = "or" -> holds[s.left] \/ holds[s.right]
          [] s.op = "not" -> ~holds[s.spec]
          [] OTHER -> IF IsItem(row) THEN ItemHolds(s, row) ELSE CategoryHolds(s, row)
  IN  holds[spec]

-----------------------------------------------------------------------------

(* ItemSpecificationTranslator.translate; a slug is no filter of items.    *)
(* A bound is a parameter of the type of the price column.                 *)
ItemCondition(spec, row) ==
  CASE spec.op = "all" -> TRUE
    [] spec.op = "active" -> ~row.deleted
    [] spec.op = "price" ->
         /\ "min_price" \in DOMAIN spec.bounds => row.price >= Rounded(spec.bounds.min_price)
         /\ "max_price" \in DOMAIN spec.bounds => row.price <= Rounded(spec.bounds.max_price)
    [] spec.op = "name" -> SqlContains(Lower(spec.keyword), row.name)

ItemClause(spec, row) ==
  LET clause[s \in Specs] ==
        CASE s.op = "and" -> clause[s.left] /\ clause[s.right]
          [] s.op = "or" -> clause[s.left] \/ clause[s.right]
          [] s.op = "not" -> ~clause[s.spec]
          [] OTHER -> ItemCondition(s, row)
  IN  clause[spec]

(* CategorySpecificationTranslator.translate *)
CategoryCondition(spec, row) ==
  CASE spec.op = "all" -> TRUE
    [] spec.op = "active" -> ~row.deleted
    [] spec.op = "slug" -> row.slug = spec.slug
    [] spec.op = "name" -> SqlContains(Lower(spec.keyword), row.name)

CategoryClause(spec, row) ==
  LET clause[s \in Specs] ==
        CASE s.op = "and" -> clause[s.left] /\ clause[s.right]
          [] s.op = "or" -> clause[s.left] \/ clause[s.right]
          [] s.op = "not" -> ~clause[s.spec]
          [] OTHER -> CategoryCondition(s, row)
  IN  clause[spec]

Clause(spec, row) == IF IsItem(row) THEN ItemClause(spec, row) ELSE CategoryClause(spec, row)

-----------------------------------------------------------------------------

(* The base of every search; no request sets include_deleted. *)
ActiveOnly == [op |-> "active"]

(* SearchItemsHandler._build_spec *)
ItemSpec(query) ==
  LET bounds == Some(query, {"min_price", "max_price"})
      priced == IF DOMAIN bounds = {} THEN ActiveOnly
                ELSE And(ActiveOnly, [op |-> "price", bounds |-> bounds])
  IN  IF "name_contains" \notin DOMAIN query THEN priced
      ELSE And(priced, [op |-> "name", keyword |-> query.name_contains])

(* SearchCategoriesHandler._build_spec *)
CategorySpec(query) ==
  LET named == IF "name_contains" \notin DOMAIN query THEN ActiveOnly
               ELSE And(ActiveOnly, [op |-> "name", keyword |-> query.name_contains])
  IN  IF "slug" \notin DOMAIN query THEN named
      ELSE And(named, [op |-> "slug", slug |-> query.slug])

(* Every composition of two of the specifications in S. *)
Compositions(S) ==
  S \cup {Not(s) : s \in S} \cup {And(s, t) : s, t \in S} \cup {Or(s, t) : s, t \in S}
=============================================================================
