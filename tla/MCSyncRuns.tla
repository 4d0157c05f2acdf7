------------------------------ MODULE MCSyncRuns ------------------------------
(* Small instances of SyncRuns for TLC.                                    *)
EXTENDS SyncRuns

=============================================================================
