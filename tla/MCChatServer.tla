----------------------------- MODULE MCChatServer -----------------------------
(* Instance of ChatServer for TLC. *)
EXTENDS ChatServerProps, TLC
=============================================================================
