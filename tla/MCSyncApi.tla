------------------------------ MODULE MCSyncApi ------------------------------
(* Instance of SyncApi for TLC. *)
EXTENDS SyncApiProps, TLC
=============================================================================
