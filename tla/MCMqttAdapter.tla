-------------------------- MODULE MCMqttAdapter --------------------------
(* Instances of MqttAdapter for TLC. *)
EXTENDS MqttAdapter

CONSTANTS g1, d1, d2

Pair == [g \in {g1} |-> {d1, d2}]

=============================================================================
