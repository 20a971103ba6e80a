------------------------------ MODULE MCKafka ------------------------------
(* A group of two consumers on two partitions. *)
EXTENDS KafkaConsumer

CONSTANTS c1, c2, p1, p2

MCConsumers == {c1, c2}
MCPartitions == {p1, p2}
MCMaxMessages == [p \in MCPartitions |-> IF p = p1 THEN 2 ELSE 1]
=============================================================================
