----------------------------- MODULE MCCatalog ------------------------------
(* A category and an item in it exist; two write requests and a read       *)
(* request run at the same time.  The bodies name two categories with one  *)
(* slug, a name that is blank, one that starts with characters no slug     *)
(* keeps, slugs chosen by the client, a price the column rounds, one it    *)
(* cannot hold, and a category that may not exist.  The filters have a     *)
(* bound that is rounded, one that cannot be held, and a keyword that LIKE *)
(* does not take literally.                                                *)
EXTENDS Queries

CONSTANTS c1, c2, i1, i2, w1, w2, r1

MCCategoryIds == {c1, c2}
MCItemIds == {i1, i2}
MCRequests == {w1, w2}
MCReaders == {r1}

MCInitialRows ==
  c1 :> [name |-> <<"A", "b">>, slug |-> <<"a", "b">>, deleted |-> FALSE] @@
  i1 :> [name |-> <<"a">>, price |-> 2, category |-> c1, deleted |-> FALSE]

MCCategoryBodies == {
  [name |-> <<"a", "b">>],
  [name |-> <<"-", "!", "b", " ">>],
  [name |-> <<" ">>],
  [name |-> <<"b", "newline", "-", "A">>],
  [slug |-> <<"b">>],
  [slug |-> <<"b", "newline">>] }

MCItemBodies == {
  [name |-> <<"A", " ">>, price |-> 3],
  [name |-> <<"b">>, price |-> 10, category |-> c2],
  [name |-> <<"newline">>, price |-> 1],
  [price |-> 11],
  [category |-> c1] }

MCItemQueries == {
  [min_price |-> 4], [max_price |-> 3, name_contains |-> <<"A">>],
  [max_price |-> 11], [name_contains |-> <<"underscore">>] }
MCCategoryQueries == {
  [name_contains |-> <<"A">>], [name_contains |-> <<"b">>, slug |-> <<"a", "b">>] }

(* The specifications of these queries, their compositions, and what all   *)
(* of them are made of.                                                    *)
MCAsked ==
  Compositions({ItemSpec(query) : query \in MCItemQueries})
    \cup Compositions({CategorySpec(query) : query \in MCCategoryQueries})
WithOperands(S) == S \cup UNION {Operands(spec) : spec \in S}
MCParts == WithOperands(WithOperands(WithOperands(MCAsked)))
MCHeight ==
  LET height[spec \in MCParts] ==
        IF Operands(spec) = {} THEN 0
        ELSE 1 + Max({height[part] : part \in Operands(spec)})
  IN  [spec \in MCParts |-> height[spec]]

MCLimits == {1, 2}
MCOffsets == {0, 1}

(* Write requests are alike. *)
MCSymmetry == Permutations(MCRequests)
=============================================================================
