------------------------------ MODULE KmsRouting ------------------------------
(***************************************************************************)
(* Which AWS endpoint a key's calls go to, and as whom: the URI of a key   *)
(* (src/src/uri.c), the precedence of profile, region and endpoint and the *)
(* FIPS refusals of client_for, the key of its client cache, and the       *)
(* client it would construct (src/src/kms_aws.cc).                         *)
(*                                                                         *)
(* A string is a member of a small set.  Null is a pointer that is NULL,   *)
(* Empty the string of length zero: the code tells them apart.             *)
(***************************************************************************)
EXTENDS Naturals, Sequences

CONSTANTS
    KeyIds,          \* key ids, aliases and ARNs
    ArnRegionOf,     \* KeyIds -> the region in the ARN, Empty if not an ARN
    ChinaRegions,    \* regions whose name starts with "cn-"
    SharedProfiles,  \* profiles in the cached config or credentials file
    ProfileRegion,   \* SharedProfiles -> region in its config section or Empty
    ProfileEndpoint, \* SharedProfiles -> endpoint configured for KMS or Empty
    SdkProfile,      \* "default"
    SdkRegion,       \* the region the SDK falls back to
    Null, Empty

ASSUME RoutingAssumption ==
    /\ Null # Empty
    /\ SdkProfile \notin {Null, Empty} /\ SdkRegion \notin {Null, Empty}

\* awskms_uri_parse returned 0
Rejected == Null

-----------------------------------------------------------------------------
(***************************************************************************)
(* src/src/uri.c.  A raw URI is its path and query attributes in order.    *)
(* wellFormed stands for the parts that only concern its spelling: a valid *)
(* URL, the scheme, no fragment, decodable escapes, no NUL.                *)
(***************************************************************************)
AttrNames(attrs) == {attrs[i].name : i \in 1..Len(attrs)}

GivenOnce(attrs) ==
    \A i, j \in 1..Len(attrs) : attrs[i].name = attrs[j].name => i = j

Attr(attrs, name) ==
    IF name \in AttrNames(attrs)
    THEN attrs[CHOOSE i \in 1..Len(attrs) : attrs[i].name = name].value
    ELSE Null

\* arn_region: NULL for an id that is not an ARN or whose region is empty
ArnRegion(id) == IF ArnRegionOf[id] = Empty THEN Null ELSE ArnRegionOf[id]

AttrsAccepted(raw) ==
    /\ AttrNames(raw.path) \subseteq {"key-id", "region"}
    /\ GivenOnce(raw.path)
    /\ AttrNames(raw.query) \subseteq {"profile", "endpoint"}
    /\ GivenOnce(raw.query)

\* (slip) the region attribute simply wins over the ARN
RegionNeverConflicts(id, region) == TRUE

RegionAgrees(id, region) == region = Null \/ ArnRegion(id) \in {Null, region}

RegionOfUri(id, region) == IF region = Null THEN ArnRegion(id) ELSE region

\* awskms_uri_parse
\* take_query_attr
QueryAttr(raw, name) == Attr(raw.query, name)

ParseUri(raw) ==
    LET id     == Attr(raw.path, "key-id")
        region == Attr(raw.path, "region")
    IN  IF /\ raw.wellFormed
           /\ AttrsAccepted(raw)
           /\ id \notin {Null, Empty}
           /\ RegionAgrees(id, region)
        THEN [key_id   |-> id,
              region   |-> RegionOfUri(id, region),
              profile  |-> QueryAttr(raw, "profile"),
              endpoint |-> QueryAttr(raw, "endpoint")]
        ELSE Rejected

-----------------------------------------------------------------------------
(***************************************************************************)
(* src/src/kms_aws.cc, client_for.  A request is the URI of a key, the     *)
(* configuration section of the provider context and whether the operation *)
(* demands FIPS; env is the process environment at the call.               *)
(***************************************************************************)

\* The first value that is there and not empty; Empty when none is.
FirstSet(values) ==
    LET set == {i \in 1..Len(values) : values[i] \notin {Null, Empty}}
    IN  IF set = {} THEN Empty
        ELSE values[CHOOSE i \in set : \A j \in set : i <= j]

\* Aws::Auth::GetConfigProfileName
AmbientProfile(env) ==
    FirstSet(<<env.AWS_DEFAULT_PROFILE, env.AWS_PROFILE, SdkProfile>>)

\* profile_exists
ProfileExists(profile) == profile \in SharedProfiles

AmbientProfileSelected(env) ==
    \/ env.AWS_DEFAULT_PROFILE # Empty
    \/ env.AWS_PROFILE # Empty
    \/ ProfileExists(AmbientProfile(env))

SelectedProfile(env, r) ==
    IF r.uri.profile # Null THEN r.uri.profile
    ELSE IF AmbientProfileSelected(env) THEN AmbientProfile(env)
    ELSE IF r.prov.profile # Null THEN r.prov.profile
    ELSE AmbientProfile(env)

\* environment_region
EnvironmentRegion(env) == FirstSet(<<env.AWS_DEFAULT_REGION, env.AWS_REGION>>)

\* profile_region
RegionOfProfile(profile) ==
    IF profile \in SharedProfiles THEN ProfileRegion[profile] ELSE Empty

\* (slip) the environment is asked before the URI
RegionEnvironmentFirst(env, r) ==
    FirstSet(<<EnvironmentRegion(env), r.uri.region,
               RegionOfProfile(SelectedProfile(env, r)),
               r.prov.region, SdkRegion>>)

Region(env, r) ==
    FirstSet(<<r.uri.region, EnvironmentRegion(env),
               RegionOfProfile(SelectedProfile(env, r)),
               r.prov.region, SdkRegion>>)

\* Aws::Config::EndpointResolver::EndpointSource("kms", profile)
EndpointSource(env, profile) ==
    FirstSet(<<env.AWS_ENDPOINT_URL,
               IF profile \in SharedProfiles THEN ProfileEndpoint[profile]
                                             ELSE Empty>>)

Endpoint(env, r) ==
    FirstSet(<<r.uri.endpoint, EndpointSource(env, SelectedProfile(env, r)),
               r.prov.endpoint>>)

\* (slip) only the URI's endpoint counts as an override
FipsRefusesUriEndpoint(env, r) ==
    /\ r.fips
    /\ r.uri.endpoint \notin {Null, Empty} \/ Region(env, r) \in ChinaRegions

\* AWSKMS_R_FIPS_ROUTING: an endpoint override, or a China region
FipsRefuses(env, r) ==
    /\ r.fips
    /\ Endpoint(env, r) # Empty \/ Region(env, r) \in ChinaRegions

\* (slip) whether the profile came from the URI is left out
ClientKeyWithoutUriProfile(env, r) ==
    [region           |-> Region(env, r),
     profile          |-> SelectedProfile(env, r),
     endpoint         |-> Endpoint(env, r),
     ambient_profile  |-> AmbientProfile(env),
     provider_profile |-> IF r.prov.profile = Null THEN Empty
                          ELSE r.prov.profile,
     fips             |-> r.fips]

\* ClientKey: everything the construction of the client depends on
ClientKeyOf(env, r) ==
    [region           |-> Region(env, r),
     profile          |-> SelectedProfile(env, r),
     endpoint         |-> Endpoint(env, r),
     ambient_profile  |-> AmbientProfile(env),
     provider_profile |-> IF r.prov.profile = Null THEN Empty
                          ELSE r.prov.profile,
     fips             |-> r.fips,
     uri_profile      |-> r.uri.profile # Null]

\* (slip) the provider's profile comes before the ambient credentials
CredentialsProviderFirst(env, r) ==
    LET profiles == SelectSeq(<<r.uri.profile, r.prov.profile>>,
                              LAMBDA p : p \notin {Null, Empty})
    IN  [i \in 1..Len(profiles) |->
            [source |-> "profile", profile |-> profiles[i]]]
        \o <<[source |-> "default chain", profile |-> AmbientProfile(env)]>>

\* PrecedenceCredentialsProviderChain.  No shared file has a section with an
\* empty name, so a provider for the profile "" has nothing to offer.
CredentialsChain(env, r) ==
    LET explicit == IF r.uri.profile \in {Null, Empty} THEN <<>>
                    ELSE <<[source |-> "profile", profile |-> r.uri.profile]>>
        ambient  == <<[source |-> "default chain",
                       profile |-> AmbientProfile(env)]>>
        fallback == IF \/ r.prov.profile \in {Null, Empty}
                       \/ r.prov.profile = r.uri.profile
                       \/ r.prov.profile = AmbientProfile(env)
                    THEN <<>>
                    ELSE <<[source |-> "profile", profile |-> r.prov.profile]>>
    IN  explicit \o ambient \o fallback

\* The client client_for constructs: its ClientConfiguration and credentials
ClientOf(env, r) ==
    [region      |-> Region(env, r),
     profileName |-> SelectedProfile(env, r),
     endpoint    |-> Endpoint(env, r),
     useFIPS     |-> r.fips,
     credentials |-> CredentialsChain(env, r)]

-----------------------------------------------------------------------------
(***************************************************************************)
(* The table in docs/INSTALL.md (lines 298-305), read as its reader would: *)
(* each source has a rank, and the present source of the lowest rank wins. *)
(***************************************************************************)
Present(value) == value \notin {Null, Empty}

IsFirstPresent(value, sources) ==
    \E n \in 1..Len(sources) :
        /\ value = sources[n]
        /\ \A m \in 1..n : Present(sources[m]) <=> m = n

TableProfiles(env, r) ==
    <<r.uri.profile, env.AWS_DEFAULT_PROFILE, env.AWS_PROFILE,
      IF SdkProfile \in SharedProfiles THEN SdkProfile ELSE Null,
      r.prov.profile, SdkProfile>>

TableRegions(env, r, profile) ==
    <<r.uri.region, ArnRegion(r.uri.key_id), env.AWS_DEFAULT_REGION,
      env.AWS_REGION,
      IF profile \in SharedProfiles THEN ProfileRegion[profile] ELSE Null,
      r.prov.region, SdkRegion>>

TableEndpoints(env, r, profile) ==
    <<r.uri.endpoint, env.AWS_ENDPOINT_URL,
      IF profile \in SharedProfiles THEN ProfileEndpoint[profile] ELSE Null,
      r.prov.endpoint>>

FollowsTable(env, r, c) ==
    /\ IsFirstPresent(c.profileName, TableProfiles(env, r))
    /\ IsFirstPresent(c.region, TableRegions(env, r, c.profileName))
    /\ \/ IsFirstPresent(c.endpoint, TableEndpoints(env, r, c.profileName))
       \/ /\ c.endpoint = Empty
          /\ \A n \in 1..4 :
                ~ Present(TableEndpoints(env, r, c.profileName)[n])
=============================================================================
