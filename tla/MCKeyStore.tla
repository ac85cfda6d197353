------------------------------ MODULE MCKeyStore ------------------------------
(***************************************************************************)
(* Small instances of KeyStore.                                            *)
(***************************************************************************)
EXTENDS KeyStore, TLC

CONSTANTS m1, m2

\* An EC key and an RSA key
EcAndRsa == m1 :> "ECC_NIST_P256" @@ m2 :> "RSA_2048"

Symmetry == Permutations(Keys) \cup Permutations(Loaders) \cup Permutations(PKeys)
===============================================================================
