----------------------------- MODULE MCRealKmsKeys -----------------------------
(***************************************************************************)
(* Instance of RealKmsKeys for TLC.  Labels are interchangeable, and so    *)
(* are the keys that setup may create.                                     *)
(***************************************************************************)
EXTENDS RealKmsKeys, TLC

Symmetry == Permutations(Labels) \cup Permutations(Keys \ Stray)
===============================================================================
