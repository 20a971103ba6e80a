--------------------------- MODULE MCItemCommands ---------------------------
(* Three updates and two deletions.  u1 sets the name the item has already,*)
(* u2 a price that the column rounds, u3 name and price, the price to what *)
(* u2's is rounded to, and the category the item has already; u1 and u2    *)
(* clear the category.                                                     *)
EXTENDS ItemCommands

CONSTANTS u1, u2, u3, d1, d2, a, b, b5, none

MCUpdates == {u1, u2, u3}
MCDeletes == {d1, d2}
MCFields == {"name", "price", "category_id"}
MCValues == {a, b, b5, none}
MCBody == [u \in MCUpdates |->
             IF u = u1 THEN [k \in {"name"} |-> a] ELSE
             IF u = u2 THEN [k \in {"price"} |-> b5] ELSE
             [k \in MCFields |-> IF k = "category_id" THEN a ELSE b]]
MCStart == [k \in MCFields |-> a]
MCRounded == [v \in MCValues |-> IF v = b5 THEN b ELSE v]
=============================================================================
