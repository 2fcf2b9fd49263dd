-------------------------- MODULE MCMqttPublisher --------------------------
(* Three entities; a broker that expects a packet every four units.         *)
EXTENDS MqttPublisher
=============================================================================
