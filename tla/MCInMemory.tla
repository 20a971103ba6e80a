----------------------------- MODULE MCInMemory -----------------------------
(* An item that is created, updated and deleted twice, and another that is *)
(* created, all at once.                                                   *)
EXTENDS InMemoryUow

CONSTANTS a, b, c1, c2, u1, d1, d2

MCAggregates == {a, b}
MCCommands == {c1, c2, u1, d1, d2}
MCKind == [c \in MCCommands |-> IF c \in {c1, c2} THEN "create"
                                ELSE IF c = u1 THEN "update" ELSE "delete"]
MCTarget == [c \in MCCommands |-> IF c = c2 THEN b ELSE a]
=============================================================================
