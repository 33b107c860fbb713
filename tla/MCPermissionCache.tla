------------------------- MODULE MCPermissionCache -------------------------
(* Small instances of PermissionCache for TLC. *)
EXTENDS PermissionCache, TLC

Symmetric == Permutations(Requests) \cup Permutations(Editors) \cup Permutations(Roles)
=============================================================================
