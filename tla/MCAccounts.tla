------------------------------ MODULE MCAccounts ------------------------------
(* Accounts on small sets, for TLC. *)
EXTENDS Accounts
===============================================================================
