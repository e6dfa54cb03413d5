---------------------------- MODULE MCRoleMappings ----------------------------
(* Instances of RoleMappings for TLC. *)
EXTENDS RoleMappings, TLC

\* Role names are interchangeable.
RoleSymmetry == Permutations(Role)
===============================================================================
