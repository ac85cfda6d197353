---------------------------- MODULE MCSignatureOp ----------------------------
(***************************************************************************)
(* Small worlds for SignatureOp: keys of the four families, two of them     *)
(* loaded for FIPS.                                                         *)
(***************************************************************************)
EXTENDS SignatureOp, TLC

CONSTANTS rsa, ec, ed, mldsa

Symmetry == Permutations(Ctxs)

MCFamily == [k \in Keys |->
    CASE k = rsa -> "RSA" [] k = ec -> "EC" [] k = ed -> "ED25519"
      [] k = mldsa -> "ML_DSA"]
MCKeyFips == [k \in Keys |-> k \in {ec, ed}]

NoParams == <<>>

\* What a setter may ask for, and two-parameter arrays whose second part is
\* refused
DigestParamSets ==
    {NoParams} \cup
    {("digest" :> d) : d \in {"sha256", "sha384", "sha3-256", None}} \cup
    {("pad" :> "pss"), ("pad" :> "pss") @@ ("salt" :> -3),
     ("pad" :> "pss") @@ ("salt" :> 48),
     ("digest" :> "sha384") @@ ("pad" :> "oaep"),
     ("mgf1" :> "sha256"), ("context" :> <<"a">>)}

StreamParamSets == {NoParams, ("digest" :> "sha384")}

OrderParamSets ==
    {NoParams, ("digest" :> "sha256"), ("digest" :> "sha384"),
     ("pad" :> "pss"), ("pad" :> "pss") @@ ("salt" :> -3),
     ("pad" :> "pss") @@ ("salt" :> 48),
     ("digest" :> "sha384") @@ ("pad" :> "oaep"),
     ("context" :> <<"a">>), ("context" :> <<"a", "a">>), ("context" :> None),
     ("instance" :> "Ed25519ctx")}

MCDigests == {[md |-> [name |-> "sha256", fips |-> TRUE], data |-> <<"a">>],
              [md |-> [name |-> "sha384", fips |-> TRUE], data |-> <<"a">>],
              [md |-> None, data |-> <<"a">>]}
NoDigests == {}
DigestMdNames == {"", "sha256", "sha3-256"}
StreamMdNames == {"sha256"}
=============================================================================
