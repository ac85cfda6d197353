----------------------------- MODULE MCKmsBackend -----------------------------
(***************************************************************************)
(* A small world for KmsBackend: two regions and one in China, a profile   *)
(* with a region and an endpoint of its own, and keys named by id and ARN. *)
(***************************************************************************)
EXTENDS KmsBackend, TLC

Symmetry == Permutations(Threads) \cup Permutations(Clients)

MCKeyIds == {"id", "arn"}
MCArnRegionOf == [k \in MCKeyIds |->
    IF k = "arn" THEN "eu" ELSE Empty]
MCProfileRegion == [p \in SharedProfiles |-> "eu"]
MCProfileEndpoint == [p \in SharedProfiles |-> "vpce"]

Attribute(n, v) == [name |-> n, value |-> v]
Raw(path, query) == [wellFormed |-> TRUE, path |-> path, query |-> query]

\* accepted and rejected URIs, each for a reason of its own
MCRawUris == {
    Raw(<<Attribute("key-id", "id")>>, <<>>),
    Raw(<<Attribute("key-id", "id"), Attribute("region", Empty)>>,
        <<Attribute("profile", "ops")>>),
    Raw(<<Attribute("region", "us"), Attribute("key-id", "arn")>>, <<>>),
    Raw(<<Attribute("key-id", "arn")>>, <<>>),
    Raw(<<Attribute("key-id", "id"), Attribute("key-id", "arn")>>, <<>>),
    Raw(<<Attribute("key-id", Empty)>>, <<>>) }

MCProvConfigs == {
    [profile |-> Null,  region |-> Null, endpoint |-> Null],
    [profile |-> "ops", region |-> "us", endpoint |-> Null] }

BareEnvironment ==
    [AWS_DEFAULT_PROFILE |-> Empty, AWS_PROFILE |-> Empty,
     AWS_DEFAULT_REGION |-> Empty, AWS_REGION |-> Empty,
     AWS_ENDPOINT_URL |-> Empty]

MCEnvironments == {
    [BareEnvironment EXCEPT !.AWS_PROFILE = "ops", !.AWS_REGION = "us"],
    [BareEnvironment EXCEPT !.AWS_DEFAULT_REGION = "cn",
                            !.AWS_REGION = "us"] }
=============================================================================
