---------------------------- MODULE MCRuntimeFiles ----------------------------
(***************************************************************************)
(* The instance of RuntimeFiles for TLC.  Its properties include liveness,  *)
(* so that no symmetry is declared.                                        *)
(***************************************************************************)
EXTENDS RuntimeFiles
===============================================================================
