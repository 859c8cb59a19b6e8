--------------------------- MODULE MCProtocolServer ---------------------------
(* Instance of ProtocolServer for TLC. *)
EXTENDS ProtocolServerProps, TLC
=============================================================================
