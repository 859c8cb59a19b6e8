---------------------------- MODULE MCThreadPool ----------------------------
(* Instance of ThreadPool for TLC. *)
EXTENDS ThreadPoolProps, TLC
=============================================================================
