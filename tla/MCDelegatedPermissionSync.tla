---------------------- MODULE MCDelegatedPermissionSync ----------------------
(* Small instances of DelegatedPermissionSync for TLC.                       *)
EXTENDS DelegatedPermissionSync, TLC

=============================================================================
