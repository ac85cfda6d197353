-------------------------- MODULE MCReleaseLifecycle --------------------------
(***************************************************************************)
(* The instance of ReleaseLifecycle for TLC; its constants are in the cfg. *)
(***************************************************************************)
EXTENDS ReleaseLifecycle
===============================================================================
