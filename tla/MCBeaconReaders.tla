--------------------------- MODULE MCBeaconReaders ---------------------------
(***************************************************************************)
(* The auditor of BeaconAudit beside the replays of BeaconRegression: one  *)
(* configuration for all who read what the one-shot runner left, while     *)
(* edits come and go under all of them.                                    *)
(***************************************************************************)
EXTENDS BeaconAudit, BeaconRegression
=============================================================================
