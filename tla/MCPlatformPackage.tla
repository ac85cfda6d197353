--------------------------- MODULE MCPlatformPackage ---------------------------
(***************************************************************************)
(* Small instances of PlatformPackage.                                     *)
(***************************************************************************)
EXTENDS PlatformPackage, TLC

Symmetry == Permutations(Isolates) \cup Permutations(Versions)
===============================================================================
