-------------------------- MODULE MCRequestConsumer --------------------------
(* Instances of RequestConsumer for TLC. *)
EXTENDS RequestConsumer
==============================================================================
