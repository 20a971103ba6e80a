------------------------------ MODULE MCRabbit ------------------------------
(* Two consumers compete for two messages. *)
EXTENDS RabbitConsumer

CONSTANTS c1, c2, m1, m2

MCConsumers == {c1, c2}
MCMessages == {m1, m2}
=============================================================================
