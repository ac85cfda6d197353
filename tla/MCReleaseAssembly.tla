--------------------------- MODULE MCReleaseAssembly ---------------------------
(***************************************************************************)
(* Small instances of ReleaseAssembly.                                     *)
(***************************************************************************)
EXTENDS ReleaseAssembly, TLC

CONSTANTS t1, t2

TwoTargets == <<t1, t2>>

Symmetry == Permutations(Assemblers)
===============================================================================
