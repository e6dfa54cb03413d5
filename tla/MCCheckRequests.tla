---------------------------- MODULE MCCheckRequests ----------------------------
(* Instances of CheckRequests for TLC. *)
EXTENDS CheckRequests
================================================================================
