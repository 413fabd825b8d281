---------------------------- MODULE MCMqttClient ----------------------------
(* MqttClient for TLC: two ids collide or not, and either may come first;  *)
(* the keepalive is one or two passes.                                     *)
EXTENDS MqttClient, TLC

\* Used where no liveness property is checked.
IdSymmetry == Permutations(Ids)
=============================================================================
