------------------------------ MODULE MCOutbox ------------------------------
(***************************************************************************)
(* Two workers and two commands, each on a worker of its own.  c1 records  *)
(* two events (collect takes a list).  c2 is a category command: it        *)
(* records one event, and the registry lacks its class.                    *)
(***************************************************************************)
EXTENDS Outbox

CONSTANTS w1, w2, c1, c2, e1, e2, e3

MCWorkers == {w1, w2}
MCCommands == {c1, c2}
MCEvents == {e1, e2, e3}
MCEventsOf == [c \in MCCommands |-> IF c = c1 THEN {e1, e2} ELSE {e3}]
MCHost == [c \in MCCommands |-> IF c = c1 THEN w1 ELSE w2]
MCModes == {[c \in MCCommands |-> mode] : mode \in BOOLEAN}
MCItemEvents == {e1, e2}
=============================================================================
