--------------------------- MODULE MCClientCacheLru ---------------------------
(***************************************************************************)
(* Instance of ClientCacheLru for TLC.                                     *)
(***************************************************************************)
EXTENDS ClientCacheLru, TLC
===============================================================================
