----------------------------- MODULE MCPoolProxy -----------------------------
(* Instance of PoolProxy for TLC. *)
EXTENDS PoolProxyProps, TLC
=============================================================================
