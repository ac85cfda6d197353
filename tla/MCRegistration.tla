---------------------------- MODULE MCRegistration ----------------------------
(***************************************************************************)
(* Small instances of Registration.                                        *)
(***************************************************************************)
EXTENDS Registration, TLC

\* Every query of at most two clauses
AllPolicies == UNION {[1..n -> Clauses] : n \in 0..2}

Symmetry == Permutations(Isolates)
===============================================================================
