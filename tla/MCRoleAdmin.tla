----------------------------- MODULE MCRoleAdmin -----------------------------
(* Instances of RoleAdmin for TLC. *)
EXTENDS RoleAdmin

CONSTANTS admin, member, u1, u2
MCParents == {<<member, admin>>}
MCExpiring == {<<u2, member>>}
=============================================================================
