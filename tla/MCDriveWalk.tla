----------------------------- MODULE MCDriveWalk -----------------------------
(* Small instances of DriveAccess and DriveWalk for TLC.                     *)
EXTENDS DriveWalk, TLC

Symmetry == Permutations(Users) \cup Permutations(Groups)

=============================================================================
