--------------------------- MODULE KmsBackendProofs ---------------------------
(***************************************************************************)
(* Proofs about KmsBackend for any URIs, provider sections, environments,  *)
(* threads and cache size: the ClientKey leaves nothing out, so that the   *)
(* client a call goes through, whoever built it, is the one it asked for;  *)
(* and no request is routed where it must not go.  That a thread has a     *)
(* client of its own key is what ClientCacheProofs shows of the cache.     *)
(***************************************************************************)
EXTENDS KmsBackend, TLAPS

\* The client that a ClientKey determines
KeyCredentials(k) ==
    LET explicit == IF k.uri_profile /\ k.profile # Empty
                    THEN <<[source |-> "profile", profile |-> k.profile]>> ELSE <<>>
        ambient  == <<[source |-> "default chain", profile |-> k.ambient_profile]>>
        fallback == IF \/ k.provider_profile = Empty
                       \/ k.uri_profile /\ k.provider_profile = k.profile
                       \/ k.provider_profile = k.ambient_profile
                    THEN <<>>
                    ELSE <<[source |-> "profile", profile |-> k.provider_profile]>>
    IN  explicit \o ambient \o fallback

KeyClient(k) ==
    [region |-> k.region, profileName |-> k.profile, endpoint |-> k.endpoint,
     useFIPS |-> k.fips, credentials |-> KeyCredentials(k)]

BackendTypeOK ==
    /\ env \in Environments
    /\ request \in [Threads -> Requests \cup {NoRequest}]
    /\ wanted = [t \in Threads |-> wanted[t]]
    /\ config = [c \in Clients |-> config[c]]

\* What a thread in client_for works on was resolved in one environment, and was
\* not refused there.
Resolved ==
    \A t \in Threads : pc[t] # "idle" =>
        /\ request[t] \in Requests
        /\ \E e \in Environments :
              /\ ~ FipsRefuses(e, request[t])
              /\ key[t] = ClientKeyOf(e, request[t])
              /\ wanted[t] = ClientOf(e, request[t])

\* A client is configured as the key it was built for has it.
BuiltAsKeyed ==
    \A c \in Clients : builtFor[c] # NoKey => config[c] = KeyClient(builtFor[c])

BackendInv == BackendTypeOK /\ Resolved /\ BuiltAsKeyed

-----------------------------------------------------------------------------
(***************************************************************************)
(* Routing                                                                 *)
(***************************************************************************)
\* client_for: the configuration and the credentials of a client depend on
\* nothing that the ClientKey does not hold.
LEMMA ClientKeyComplete ==
    ASSUME NEW e, NEW r
    PROVE  ClientOf(e, r) = KeyClient(ClientKeyOf(e, r))
<1> DEFINE k == ClientKeyOf(e, r)
<1>1. /\ k.region = Region(e, r) /\ k.profile = SelectedProfile(e, r)
      /\ k.endpoint = Endpoint(e, r) /\ k.ambient_profile = AmbientProfile(e)
      /\ k.provider_profile = IF r.prov.profile = Null THEN Empty ELSE r.prov.profile
      /\ k.fips = r.fips /\ k.uri_profile = (r.uri.profile # Null)
  BY DEF ClientKeyOf
<1> HIDE DEF k
<1>2. CredentialsChain(e, r) = KeyCredentials(k)
  <2>1. CASE r.uri.profile = Null
    BY <1>1, <2>1, RoutingAssumption DEF CredentialsChain, KeyCredentials
  <2>2. CASE r.uri.profile # Null
    <3>1. k.profile = r.uri.profile
      BY <1>1, <2>2 DEF SelectedProfile
    <3>2. QED
      BY <1>1, <2>2, <3>1, RoutingAssumption DEF CredentialsChain, KeyCredentials
  <2>3. QED
    BY <2>1, <2>2
<1>3. QED
  BY <1>1, <1>2 DEF ClientOf, KeyClient, k

\* A chain of one provider, with one before and one after it or none
LEMMA Concatenated ==
    ASSUME NEW S, NEW before \in Seq(S), NEW b \in S, NEW after \in Seq(S),
           Len(before) <= 1, Len(after) <= 1
    PROVE  LET all == before \o <<b>> \o after
               n == Len(before)
           IN  /\ Len(all) = n + 1 + Len(after)
               /\ n = 1 => all[1] = before[1]
               /\ all[n + 1] = b
               /\ Len(after) = 1 => all[n + 2] = after[1]
<1> DEFINE n == Len(before)
           head == before \o <<b>>
           all == head \o after
<1>1. <<b>> \in Seq(S) /\ Len(<<b>>) = 1 /\ <<b>>[1] = b /\ n \in Nat /\ Len(after) \in Nat
  OBVIOUS
<1>2. /\ head \in Seq(S) /\ Len(head) = n + 1 /\ head[n + 1] = b
      /\ n = 1 => head[1] = before[1]
  BY <1>1
<1> HIDE DEF head
<1>3. /\ Len(all) = n + 1 + Len(after) /\ all[n + 1] = b
      /\ n = 1 => all[1] = before[1]
      /\ Len(after) = 1 => all[n + 2] = after[1]
  BY <1>1, <1>2
<1>4. QED
  BY <1>3 DEF head

\* PrecedenceCredentialsProviderChain: the URI's profile comes first, and the
\* provider's only after the ambient chain.
LEMMA ChainOfItsOwn ==
    ASSUME NEW e, NEW t
    PROVE  OwnCredentials(t, CredentialsChain(e, request[t]))
<1> DEFINE r == request[t]
           chain == CredentialsChain(e, r)
           own == [source |-> "profile", profile |-> r.uri.profile]
           ambient == [source |-> "default chain", profile |-> AmbientProfile(e)]
           provided == [source |-> "profile", profile |-> r.prov.profile]
<1>1. /\ own.source = "profile" /\ own.profile = r.uri.profile
      /\ ambient.source = "default chain"
      /\ provided.source = "profile" /\ provided.profile = r.prov.profile
  OBVIOUS
<1> DEFINE explicit == IF r.uri.profile \in {Null, Empty} THEN <<>> ELSE <<own>>
           fallback == IF \/ r.prov.profile \in {Null, Empty}
                          \/ r.prov.profile = r.uri.profile
                          \/ r.prov.profile = AmbientProfile(e)
                       THEN <<>> ELSE <<provided>>
           S == {own, ambient, provided}
           n == Len(explicit)
           m == Len(fallback)
<1>2. chain = explicit \o <<ambient>> \o fallback
  BY DEF CredentialsChain
<1>3. /\ explicit \in Seq(S) /\ fallback \in Seq(S) /\ ambient \in S
      /\ n = 0 \/ (n = 1 /\ explicit[1] = own)
      /\ r.uri.profile \notin {Null, Empty} => n = 1
      /\ m = 0 \/ (m = 1 /\ fallback[1] = provided)
  <2>1. own \in S /\ ambient \in S /\ provided \in S
    OBVIOUS
  <2>2. /\ explicit = <<>> \/ explicit = <<own>>
        /\ r.uri.profile \notin {Null, Empty} => explicit = <<own>>
        /\ fallback = <<>> \/ fallback = <<provided>>
    OBVIOUS
  <2> HIDE DEF own, ambient, provided, explicit, fallback, S
  <2>3. /\ <<own>> \in Seq(S) /\ <<provided>> \in Seq(S) /\ <<>> \in Seq(S)
        /\ Len(<<own>>) = 1 /\ <<own>>[1] = own
        /\ Len(<<provided>>) = 1 /\ <<provided>>[1] = provided
        /\ Len(<<>>) = 0
    BY <2>1
  <2>4. QED
    BY <2>1, <2>2, <2>3
<1> HIDE DEF chain, own, ambient, provided, explicit, fallback, S
<1>4. /\ Len(chain) = n + 1 + m /\ chain[n + 1] = ambient
      /\ n = 1 => chain[1] = own
      /\ m = 1 => chain[n + 2] = provided
  BY <1>2, <1>3, Concatenated
<1> HIDE DEF n, m
<1>5. /\ r.uri.profile \notin {Null, Empty} => chain[1] = own
      /\ \A i \in 1..Len(chain) :
            chain[i].source = "profile" =>
               \/ i = 1 /\ chain[i].profile = r.uri.profile
               \/ /\ i > 1
                  /\ chain[i].profile = r.prov.profile
                  /\ chain[i - 1].source = "default chain"
  <2>1. n \in {0, 1} /\ m \in {0, 1}
    BY <1>3
  <2>2. \A i \in 1..Len(chain) : i = n + 1 \/ (n = 1 /\ i = 1) \/ (m = 1 /\ i = n + 2)
    BY <1>4, <2>1
  <2>3. chain[n + 1].source # "profile"
    BY <1>1, <1>4
  <2>4. n = 1 => chain[1].profile = r.uri.profile
    BY <1>1, <1>4
  <2>5. /\ chain[n + 1].source = "default chain"
        /\ m = 1 => chain[n + 2].profile = r.prov.profile
    BY <1>1, <1>4
  <2>6. ASSUME NEW i \in 1..Len(chain), chain[i].source = "profile"
        PROVE  \/ i = 1 /\ chain[i].profile = r.uri.profile
               \/ /\ i > 1
                  /\ chain[i].profile = r.prov.profile
                  /\ chain[i - 1].source = "default chain"
    <3>1. CASE i = n + 1
      BY <2>3, <2>6, <3>1
    <3>2. CASE n = 1 /\ i = 1
      BY <2>4, <3>2
    <3>3. CASE m = 1 /\ i = n + 2
      <4>1. i > 1 /\ i - 1 = n + 1
        BY <2>1, <3>3
      <4>2. QED
        BY <2>5, <3>3, <4>1
    <3>4. QED
      BY <2>2, <3>1, <3>2, <3>3
  <2>7. QED
    BY <1>3, <1>4, <2>6
<1>6. QED
  BY <1>5 DEF OwnCredentials, chain, own

\* The first value that is there is the one that FirstSet gives.
LEMMA FirstSetIs ==
    ASSUME NEW values, Len(values) \in Nat, NEW n \in 1..Len(values),
           values[n] \notin {Null, Empty},
           \A m \in 1..(n - 1) : values[m] \in {Null, Empty}
    PROVE  FirstSet(values) = values[n]
<1> DEFINE set == {i \in 1..Len(values) : values[i] \notin {Null, Empty}}
<1>1. n \in set /\ \A j \in set : n <= j
  OBVIOUS
<1>2. \A i \in set : (\A j \in set : i <= j) => i = n
  BY <1>1
<1> HIDE DEF set
<1>3. (CHOOSE i \in set : \A j \in set : i <= j) = n
  BY <1>1, <1>2
<1>4. QED
  BY <1>1, <1>3 DEF FirstSet, set

\* There is none.
LEMMA FirstSetNone ==
    ASSUME NEW values, \A m \in 1..Len(values) : values[m] \in {Null, Empty}
    PROVE  FirstSet(values) = Empty
BY DEF FirstSet

\* select_value over two settings, as for the region of the environment
LEMMA FirstOfTwo ==
    ASSUME NEW a, NEW b
    PROVE  FirstSet(<<a, b>>) = IF Present(a) THEN a ELSE IF Present(b) THEN b ELSE Empty
<1> DEFINE values == <<a, b>>
<1>1. Len(values) = 2 /\ values[1] = a /\ values[2] = b
  OBVIOUS
<1> HIDE DEF values
<1>2. CASE Present(a)
  BY <1>1, <1>2, FirstSetIs DEF Present
<1>3. CASE ~ Present(a) /\ Present(b)
  BY <1>1, <1>3, FirstSetIs DEF Present
<1>4. CASE ~ Present(a) /\ ~ Present(b)
  BY <1>1, <1>4, FirstSetNone DEF Present
<1>5. QED
  BY <1>2, <1>3, <1>4 DEF values

\* select_value over three settings, as for the profile
LEMMA FirstOfThree ==
    ASSUME NEW a, NEW b, NEW c
    PROVE  FirstSet(<<a, b, c>>) =
             IF Present(a) THEN a ELSE IF Present(b) THEN b
             ELSE IF Present(c) THEN c ELSE Empty
<1> DEFINE values == <<a, b, c>>
<1>1. Len(values) = 3 /\ values[1] = a /\ values[2] = b /\ values[3] = c
  OBVIOUS
<1> HIDE DEF values
<1>2. CASE Present(a)
  BY <1>1, <1>2, FirstSetIs DEF Present
<1>3. CASE ~ Present(a) /\ Present(b)
  BY <1>1, <1>3, FirstSetIs DEF Present
<1>4. CASE ~ Present(a) /\ ~ Present(b) /\ Present(c)
  BY <1>1, <1>4, FirstSetIs DEF Present
<1>5. CASE ~ Present(a) /\ ~ Present(b) /\ ~ Present(c)
  BY <1>1, <1>5, FirstSetNone DEF Present
<1>6. QED
  BY <1>2, <1>3, <1>4, <1>5 DEF values

\* select_value over five settings, as for the region
LEMMA FirstOfFive ==
    ASSUME NEW a, NEW b, NEW c, NEW d, NEW e
    PROVE  FirstSet(<<a, b, c, d, e>>) =
             IF Present(a) THEN a ELSE IF Present(b) THEN b
             ELSE IF Present(c) THEN c ELSE IF Present(d) THEN d
             ELSE IF Present(e) THEN e ELSE Empty
<1> DEFINE values == <<a, b, c, d, e>>
<1>1. /\ Len(values) = 5 /\ values[1] = a /\ values[2] = b /\ values[3] = c
      /\ values[4] = d /\ values[5] = e
  OBVIOUS
<1> HIDE DEF values
<1>2. CASE Present(a)
  BY <1>1, <1>2, FirstSetIs DEF Present
<1>3. CASE ~ Present(a) /\ Present(b)
  BY <1>1, <1>3, FirstSetIs DEF Present
<1>4. CASE ~ Present(a) /\ ~ Present(b) /\ Present(c)
  BY <1>1, <1>4, FirstSetIs DEF Present
<1>5. CASE ~ Present(a) /\ ~ Present(b) /\ ~ Present(c) /\ Present(d)
  <2>1. \A m \in 1..3 : m = 1 \/ m = 2 \/ m = 3
    OBVIOUS
  <2>2. \A m \in 1..3 : values[m] \in {Null, Empty}
    BY <1>1, <1>5, <2>1 DEF Present
  <2>3. PICK n \in 1..5 : n = 4 /\ n - 1 = 3
    OBVIOUS
  <2>4. FirstSet(values) = values[4]
    <3>1. /\ Len(values) \in Nat /\ n \in 1..Len(values)
          /\ \A m \in 1..(n - 1) : values[m] \in {Null, Empty}
      BY <1>1, <2>2, <2>3
    <3>2. values[n] \notin {Null, Empty}
      BY <1>1, <1>5, <2>3 DEF Present
    <3>3. QED
      BY ONLY <2>3, <3>1, <3>2, FirstSetIs
  <2>5. FirstSet(values) = d
    BY <1>1, <2>4
  <2>6. QED
    BY <1>5, <2>5 DEF values
<1>6. CASE ~ Present(a) /\ ~ Present(b) /\ ~ Present(c) /\ ~ Present(d) /\ Present(e)
  <2>1. \A m \in 1..4 : m = 1 \/ m = 2 \/ m = 3 \/ m = 4
    OBVIOUS
  <2>2. \A m \in 1..4 : values[m] \in {Null, Empty}
    BY <1>1, <1>6, <2>1 DEF Present
  <2>3. PICK n \in 1..5 : n = 5 /\ n - 1 = 4
    OBVIOUS
  <2>4. FirstSet(values) = values[5]
    <3>1. /\ Len(values) \in Nat /\ n \in 1..Len(values)
          /\ \A m \in 1..(n - 1) : values[m] \in {Null, Empty}
      BY <1>1, <2>2, <2>3
    <3>2. values[n] \notin {Null, Empty}
      BY <1>1, <1>6, <2>3 DEF Present
    <3>3. QED
      BY ONLY <2>3, <3>1, <3>2, FirstSetIs
  <2>5. FirstSet(values) = e
    BY <1>1, <2>4
  <2>6. QED
    BY <1>6, <2>5 DEF values
<1>7. CASE ~ Present(a) /\ ~ Present(b) /\ ~ Present(c) /\ ~ Present(d) /\ ~ Present(e)
  BY <1>1, <1>7, FirstSetNone DEF Present
<1>8. QED
  BY <1>2, <1>3, <1>4, <1>5, <1>6, <1>7 DEF values

\* awskms_uri_parse: the region of a URI is that of its ARN, if it has one.
LEMMA RegionOfArn ==
    ASSUME NEW uri \in Uris
    PROVE  LET arn == ArnRegion(uri.key_id)
           IN  /\ arn # Null => Present(arn) /\ uri.region = arn
               /\ ~ Present(uri.region) => ~ Present(arn)
<1>1. PICK raw \in RawUris : uri = ParseUri(raw) /\ ParseUri(raw) # Null
  BY DEF Uris, Rejected
<1> DEFINE id == Attr(raw.path, "key-id")
           region == Attr(raw.path, "region")
<1>2. uri.key_id = id /\ uri.region = RegionOfUri(id, region) /\ RegionAgrees(id, region)
  BY <1>1 DEF ParseUri, Rejected
<1> HIDE DEF id, region
<1>3. ArnRegion(id) # Null => Present(ArnRegion(id))
  BY DEF ArnRegion, Present
<1>4. QED
  BY <1>2, <1>3 DEF RegionOfUri, RegionAgrees, Present

\* client_for refuses what FIPS must not be served through, and a key named by ARN
\* is asked for in its own region.
LEMMA RoutedWell ==
    ASSUME NEW e, NEW r \in Requests, ~ FipsRefuses(e, r)
    PROVE  LET c   == ClientOf(e, r)
               arn == ArnRegion(r.uri.key_id)
           IN  /\ r.fips => FipsClient(c)
               /\ arn # Null => c.region = arn
<1>1. /\ ClientOf(e, r).useFIPS = r.fips /\ ClientOf(e, r).endpoint = Endpoint(e, r)
      /\ ClientOf(e, r).region = Region(e, r)
  BY DEF ClientOf
<1>2. r.fips => FipsClient(ClientOf(e, r))
  BY <1>1 DEF FipsRefuses, FipsClient
<1>3. r.uri \in Uris
  BY DEF Requests
<1>4. ASSUME ArnRegion(r.uri.key_id) # Null
      PROVE  Region(e, r) = ArnRegion(r.uri.key_id)
  BY <1>3, <1>4, RegionOfArn, FirstOfFive DEF Region
<1>5. QED
  BY <1>1, <1>2, <1>4

\* client_for follows the table of docs/INSTALL.md, if a profile that is given is
\* not empty.
LEMMA TableFollowed ==
    ASSUME NEW e \in Environments, NEW r \in Requests,
           r.uri.profile # Empty, r.prov.profile # Empty
    PROVE  FollowsTable(e, r, ClientOf(e, r))
<1> DEFINE c == ClientOf(e, r)
           profile == SelectedProfile(e, r)
<1>1. /\ c.profileName = profile /\ c.region = Region(e, r) /\ c.endpoint = Endpoint(e, r)
  BY DEF ClientOf
<1>2. /\ e.AWS_DEFAULT_PROFILE # Null /\ e.AWS_PROFILE # Null
      /\ e.AWS_DEFAULT_REGION # Null /\ e.AWS_REGION # Null
  BY BackendAssumption
<1> HIDE DEF c
<1>3. IsFirstPresent(profile, TableProfiles(e, r))
  <2> DEFINE rows == TableProfiles(e, r)
  <2>1. /\ Len(rows) = 6 /\ rows[1] = r.uri.profile /\ rows[2] = e.AWS_DEFAULT_PROFILE
        /\ rows[3] = e.AWS_PROFILE
        /\ rows[4] = IF SdkProfile \in SharedProfiles THEN SdkProfile ELSE Null
        /\ rows[5] = r.prov.profile /\ rows[6] = SdkProfile
    BY DEF TableProfiles
  <2> HIDE DEF rows
  <2>2. AmbientProfile(e) =
          IF Present(e.AWS_DEFAULT_PROFILE) THEN e.AWS_DEFAULT_PROFILE
          ELSE IF Present(e.AWS_PROFILE) THEN e.AWS_PROFILE ELSE SdkProfile
    BY FirstOfThree, RoutingAssumption DEF AmbientProfile, Present
  <2> DEFINE n == IF Present(rows[1]) THEN 1 ELSE IF Present(rows[2]) THEN 2
                  ELSE IF Present(rows[3]) THEN 3 ELSE IF Present(rows[4]) THEN 4
                  ELSE IF Present(rows[5]) THEN 5 ELSE 6
  <2>3. Present(rows[n]) /\ n \in 1..6
    BY <2>1, RoutingAssumption DEF Present
  <2>4. \A m \in 1..n : Present(rows[m]) <=> m = n
    <3>1. \A m \in 1..6 : m = 1 \/ m = 2 \/ m = 3 \/ m = 4 \/ m = 5 \/ m = 6
      OBVIOUS
    <3>2. QED
      BY <2>3, <3>1
  <2>5. profile = rows[n]
    BY <1>2, <2>1, <2>2, RoutingAssumption
       DEF SelectedProfile, AmbientProfileSelected, ProfileExists, Present
  <2> HIDE DEF n
  <2>6. QED
    BY <2>1, <2>3, <2>4, <2>5 DEF IsFirstPresent, rows
<1> HIDE DEF profile
<1>4. IsFirstPresent(Region(e, r), TableRegions(e, r, profile))
  <2> DEFINE rows == TableRegions(e, r, profile)
  <2>1. /\ Len(rows) = 7 /\ rows[1] = r.uri.region /\ rows[2] = ArnRegion(r.uri.key_id)
        /\ rows[3] = e.AWS_DEFAULT_REGION /\ rows[4] = e.AWS_REGION
        /\ rows[5] = IF profile \in SharedProfiles THEN ProfileRegion[profile] ELSE Null
        /\ rows[6] = r.prov.region /\ rows[7] = SdkRegion
    BY DEF TableRegions
  <2> HIDE DEF rows
  <2>2. ~ Present(rows[1]) => ~ Present(rows[2])
    BY <2>1, RegionOfArn DEF Requests
  <2>3. Region(e, r) =
          IF Present(rows[1]) THEN rows[1] ELSE IF Present(rows[3]) THEN rows[3]
          ELSE IF Present(rows[4]) THEN rows[4] ELSE IF Present(rows[5]) THEN rows[5]
          ELSE IF Present(rows[6]) THEN rows[6] ELSE rows[7]
    <3>1. EnvironmentRegion(e) =
            IF Present(rows[3]) THEN rows[3]
            ELSE IF Present(rows[4]) THEN rows[4] ELSE Empty
      BY <2>1, FirstOfTwo DEF EnvironmentRegion
    <3>2. /\ Present(RegionOfProfile(profile)) <=> Present(rows[5])
          /\ Present(rows[5]) => RegionOfProfile(profile) = rows[5]
      BY <2>1 DEF RegionOfProfile, Present
    <3>3. Region(e, r) =
            IF Present(rows[1]) THEN rows[1]
            ELSE IF Present(EnvironmentRegion(e)) THEN EnvironmentRegion(e)
            ELSE IF Present(RegionOfProfile(profile)) THEN RegionOfProfile(profile)
            ELSE IF Present(rows[6]) THEN rows[6] ELSE rows[7]
      BY <2>1, FirstOfFive, RoutingAssumption DEF Region, profile, Present
    <3>4. ~ Present(Empty)
      BY DEF Present
    <3>5. QED
      BY <3>1, <3>2, <3>3, <3>4
  <2> DEFINE n == IF Present(rows[1]) THEN 1 ELSE IF Present(rows[3]) THEN 3
                  ELSE IF Present(rows[4]) THEN 4 ELSE IF Present(rows[5]) THEN 5
                  ELSE IF Present(rows[6]) THEN 6 ELSE 7
  <2>4. Present(rows[n]) /\ n \in 1..7 /\ Region(e, r) = rows[n]
    BY <2>1, <2>3, RoutingAssumption DEF Present
  <2>5. \A m \in 1..n : Present(rows[m]) <=> m = n
    <3>1. \A m \in 1..7 : m = 1 \/ m = 2 \/ m = 3 \/ m = 4 \/ m = 5 \/ m = 6 \/ m = 7
      OBVIOUS
    <3>2. QED
      BY <2>2, <2>4, <3>1
  <2> HIDE DEF n
  <2>6. QED
    BY <2>1, <2>4, <2>5 DEF IsFirstPresent, rows
<1>5. LET rows == TableEndpoints(e, r, profile)
      IN  \/ IsFirstPresent(Endpoint(e, r), rows)
          \/ Endpoint(e, r) = Empty /\ \A n \in 1..4 : ~ Present(rows[n])
  <2> DEFINE rows == TableEndpoints(e, r, profile)
  <2>1. /\ Len(rows) = 4 /\ rows[1] = r.uri.endpoint /\ rows[2] = e.AWS_ENDPOINT_URL
        /\ rows[3] = IF profile \in SharedProfiles THEN ProfileEndpoint[profile] ELSE Null
        /\ rows[4] = r.prov.endpoint
    BY DEF TableEndpoints
  <2> HIDE DEF rows
  <2>2. Endpoint(e, r) =
          IF Present(rows[1]) THEN rows[1] ELSE IF Present(rows[2]) THEN rows[2]
          ELSE IF Present(rows[3]) THEN rows[3]
          ELSE IF Present(rows[4]) THEN rows[4] ELSE Empty
    <3>1. EndpointSource(e, profile) =
            IF Present(rows[2]) THEN rows[2]
            ELSE IF Present(rows[3]) THEN rows[3] ELSE Empty
      BY <2>1, FirstOfTwo DEF EndpointSource, Present
    <3>2. Endpoint(e, r) =
            IF Present(rows[1]) THEN rows[1]
            ELSE IF Present(EndpointSource(e, profile)) THEN EndpointSource(e, profile)
            ELSE IF Present(rows[4]) THEN rows[4] ELSE Empty
      BY <2>1, FirstOfThree DEF Endpoint, profile
    <3>3. ~ Present(Empty)
      BY DEF Present
    <3>4. QED
      BY <3>1, <3>2, <3>3
  <2>3. \A m \in 1..4 : m = 1 \/ m = 2 \/ m = 3 \/ m = 4
    OBVIOUS
  <2>4. CASE \A n \in 1..4 : ~ Present(rows[n])
    BY <2>2, <2>4 DEF rows
  <2>5. CASE \E n \in 1..4 : Present(rows[n])
    <3> DEFINE n == IF Present(rows[1]) THEN 1 ELSE IF Present(rows[2]) THEN 2
                    ELSE IF Present(rows[3]) THEN 3 ELSE 4
    <3>1. Present(rows[n]) /\ n \in 1..4 /\ Endpoint(e, r) = rows[n]
      BY <2>2, <2>3, <2>5
    <3>2. \A m \in 1..n : Present(rows[m]) <=> m = n
      BY <2>3, <3>1
    <3> HIDE DEF n
    <3>3. QED
      BY <2>1, <3>1, <3>2 DEF IsFirstPresent, rows
  <2>6. QED
    BY <2>4, <2>5
<1>6. QED
  BY <1>1, <1>3, <1>4, <1>5 DEF FollowsTable, c

-----------------------------------------------------------------------------
(***************************************************************************)
(* The cache                                                               *)
(***************************************************************************)
\* (What was served before is not kept here.)
Cache == INSTANCE ClientCacheProofs WITH Keys <- ClientKeys, recency <- <<>>

\* The steps of the cache here are those of which ClientCacheProofs speaks.
LEMMA SameCardinality ==
    \A S : Cache!Cardinality(S) = CC!Cardinality(S)
BY Zenon DEF Cache!Cardinality, CC!Cardinality

\* Every step of the cache that KmsBackend takes is that step of the cache.
LEMMA CacheSteps ==
    ASSUME NEW t \in Threads
    PROVE  /\ CC!Init => Cache!Init
           /\ \A k : CC!Request(t, k) => Cache!Request(t, k)
           /\ CC!CachedClientHit(t) => Cache!CachedClientHit(t)
           /\ CC!CachedClientMiss(t) => Cache!CachedClientMiss(t)
           /\ CC!Construct(t) => Cache!Construct(t)
           /\ CC!ConstructThrows(t) => Cache!ConstructThrows(t)
           /\ CC!PublishFound(t) => Cache!PublishFound(t)
           /\ CC!PublishInsert(t) => Cache!PublishInsert(t)
           /\ CC!DropUnlocked(t) => Cache!DropUnlocked(t)
           /\ CC!FinishCall(t) => Cache!FinishCall(t)
<1>1. CC!Init => Cache!Init
  BY DEF CC!Init, Cache!Init
<1>2. \A k : CC!Request(t, k) => Cache!Request(t, k)
  BY DEF CC!Request, Cache!Request
<1>3. CC!CachedClientHit(t) => Cache!CachedClientHit(t)
  BY DEF CC!CachedClientHit, Cache!CachedClientHit, CC!Touched, Cache!Touched,
         CC!NodeOf, Cache!NodeOf, CC!Present, Cache!Present, CC!Result, Cache!Result
<1>4. CC!CachedClientMiss(t) => Cache!CachedClientMiss(t)
  BY DEF CC!CachedClientMiss, Cache!CachedClientMiss, CC!Present, Cache!Present
<1>5. CC!Construct(t) => Cache!Construct(t)
  BY DEF CC!Construct, Cache!Construct, CC!InUse, Cache!InUse, CC!Candidate,
         Cache!Candidate
<1>6. CC!ConstructThrows(t) => Cache!ConstructThrows(t)
  BY DEF CC!ConstructThrows, Cache!ConstructThrows
<1>7. CC!PublishFound(t) => Cache!PublishFound(t)
  BY DEF CC!PublishFound, Cache!PublishFound, CC!Touched, Cache!Touched,
         CC!NodeOf, 
         Cache!NodeOf, CC!Present, Cache!Present, CC!Result, Cache!Result, CC!Dropped,
         Cache!Dropped
<1>8. CC!PublishInsert(t) => Cache!PublishInsert(t)
  <2>1. CC!Full <=> Cache!Full
    BY SameCardinality DEF CC!Full, Cache!Full
  <2>2. CC!Evicts <=> Cache!Evicts
    BY <2>1
       DEF CC!Evicts, Cache!Evicts, CC!Present, Cache!Present, CC!Back,
           Cache!Back
  <2>3. CC!KeysKept = Cache!KeysKept /\ CC!Evicted = Cache!Evicted
    BY <2>2 DEF CC!KeysKept, Cache!KeysKept, CC!Evicted, Cache!Evicted, CC!Back,
                Cache!Back
  <2>4. CC!NodesKept = Cache!NodesKept
    BY <2>1 DEF CC!NodesKept, Cache!NodesKept
  <2>5. QED
    BY <2>3, <2>4
       DEF CC!PublishInsert, Cache!PublishInsert, CC!Present, Cache!Present, CC!Entry,
           Cache!Entry, CC!Result, Cache!Result, CC!Dropped, Cache!Dropped
<1>9. CC!DropUnlocked(t) => Cache!DropUnlocked(t)
  BY DEF CC!DropUnlocked, Cache!DropUnlocked, CC!AfterDestruction,
         Cache!AfterDestruction, CC!Dropped, Cache!Dropped
<1>10. CC!FinishCall(t) => Cache!FinishCall(t)
  BY DEF CC!FinishCall, Cache!FinishCall, CC!AfterDestruction,
         Cache!AfterDestruction, 
         CC!Result, Cache!Result
<1>11. QED
  BY <1>1, <1>2, <1>3, <1>4, <1>5, <1>6, <1>7, <1>8, <1>9, <1>10

\* A step of the backend is a step of its cache, or leaves the cache as it is.
LEMMA StepOfCache ==
    ASSUME env \in Environments, [BackendNext]_backendVars
    PROVE  [Cache!Next]_(Cache!vars)
<1>1. CASE UNCHANGED cache
  BY <1>1 DEF cache, Cache!vars
<1>2. ASSUME NEW t \in Threads, NEW r \in Requests, Resolve(t, r)
      PROVE  Cache!Next
  <2>1. ClientKeyOf(env, r) \in ClientKeys
    BY DEF ClientKeys
  <2>2. QED
    BY <1>2, <2>1, CacheSteps DEF Resolve, Cache!Next
<1>3. ASSUME NEW t \in Threads,
             \/ LookUp(t) \/ ConstructClient(t) \/ ConstructionFails(t)
             \/ Publish(t) \/ Unlocked(t) \/ CallKms(t)
      PROVE  Cache!Next
  <2>1. Cache!CacheStep(t)
    BY <1>3, CacheSteps
       DEF LookUp, ConstructClient, ConstructionFails, Publish, Unlocked, CallKms,
           Cache!CacheStep
  <2>2. QED
    BY <2>1 DEF Cache!Next
<1>4. ASSUME NEW t \in Threads, NEW r \in Requests, RefuseRouting(t, r)
      PROVE  UNCHANGED cache
  BY <1>4 DEF RefuseRouting, backendVars
<1>5. CASE ChangeEnvironment \/ UNCHANGED backendVars
  BY <1>1, <1>5 DEF ChangeEnvironment, backendVars
<1>6. QED
  BY <1>1, <1>2, <1>3, <1>4, <1>5 DEF BackendNext

\* What the threads do to the cache is what ClientCache specifies.
THEOREM BackendUsesCache == BackendSpec => Cache!Spec
<1>1. BackendInit => Cache!Init /\ env \in Environments
  BY DEF BackendInit, CC!Init, Cache!Init
<1>2. env \in Environments /\ [BackendNext]_backendVars => (env \in Environments)'
  BY DEF BackendNext, backendVars, ChangeEnvironment, Resolve, RefuseRouting,
         LookUp, 
         ConstructClient, ConstructionFails, Publish, Unlocked, CallKms
<1>3. env \in Environments /\ [BackendNext]_backendVars => [Cache!Next]_(Cache!vars)
  BY StepOfCache
<1>4. QED
  BY <1>1, <1>2, <1>3, PTL DEF BackendSpec, Cache!Spec

\* In particular the cache's invariant holds of the composition.
LEMMA CacheHolds == BackendSpec => []Cache!CacheInv
<1>1. MaxClients \in Nat \ {0} /\ NoKey \notin ClientKeys /\ NoClient \notin Clients
  BY BackendAssumption
<1>2. Cache!Spec => []Cache!CacheInv
  BY <1>1, Cache!CacheInvariant
<1>3. QED
  BY <1>2, BackendUsesCache

-----------------------------------------------------------------------------
(***************************************************************************)
(* The invariant                                                           *)
(***************************************************************************)
LEMMA InitBackend ==
    ASSUME BackendInit
    PROVE  BackendInv
<1>1. BackendTypeOK
  BY DEF BackendInit, BackendTypeOK
<1>2. Resolved /\ BuiltAsKeyed
  BY DEF BackendInit, CC!Init, Resolved, BuiltAsKeyed
<1>3. QED
  BY <1>1, <1>2 DEF BackendInv

\* What the cache's invariant is used for
LEMMA CacheFacts ==
    ASSUME Cache!CacheInv
    PROVE  /\ pc = [t \in Threads |-> pc[t]] /\ key = [t \in Threads |-> key[t]]
           /\ builtFor = [c \in Clients |-> builtFor[c]]
           /\ candidate = [t \in Threads |-> candidate[t]]
           /\ \A t \in Threads : pc[t] \in {"unlocked", "call"} =>
                 client[t] \in Clients /\ builtFor[client[t]] = key[t]
           /\ \A t \in Threads : key[t] = NoKey <=> pc[t] = "idle"
<1>1. /\ pc = [t \in Threads |-> pc[t]] /\ key = [t \in Threads |-> key[t]]
      /\ builtFor = [c \in Clients |-> builtFor[c]]
      /\ candidate = [t \in Threads |-> candidate[t]]
      /\ client \in [Threads -> Clients \cup {NoClient}]
  BY DEF Cache!CacheInv, Cache!TypeOK
<1>2. \A t \in Threads : key[t] = NoKey <=> pc[t] = "idle"
  BY DEF Cache!CacheInv, Cache!LocalsMatchPc
<1>3. \A t \in Threads : pc[t] \in {"unlocked", "call"} =>
                 client[t] \in Clients /\ builtFor[client[t]] = key[t]
  BY <1>1 DEF Cache!CacheInv, Cache!LocalsMatchPc, Cache!RightClient
<1>4. QED
  BY <1>1, <1>2, <1>3

\* A step that keeps the requests at work keeps what was resolved for them.
LEMMA ResolvedStays ==
    ASSUME Resolved,
           \A t \in Threads :
              pc'[t] = "idle" \/ /\ pc[t] # "idle" /\ request'[t] = request[t]
                                 /\ key'[t] = key[t] /\ wanted'[t] = wanted[t]
    PROVE  Resolved'
BY DEF Resolved

\* client_for resolves a request and looks its key up: the thread has the key and
\* the configuration of one environment, the present one.
LEMMA ResolveStep ==
    ASSUME Cache!CacheInv, BackendInv, NEW t \in Threads, NEW r \in Requests, Resolve(t, r)
    PROVE  BackendInv'
<1>1. /\ pc' = [pc EXCEPT ![t] = "lookup"]
      /\ key' = [key EXCEPT ![t] = ClientKeyOf(env, r)]
      /\ request' = [request EXCEPT ![t] = r]
      /\ wanted' = [wanted EXCEPT ![t] = ClientOf(env, r)]
      /\ UNCHANGED env /\ UNCHANGED config /\ UNCHANGED builtFor
      /\ ~ FipsRefuses(env, r) /\ env \in Environments
  BY DEF Resolve, CC!Request, BackendInv, BackendTypeOK
<1>2. BackendTypeOK'
  BY <1>1 DEF BackendInv, BackendTypeOK
<1>3. Resolved'
  <2> SUFFICES ASSUME NEW u \in Threads, pc'[u] # "idle"
               PROVE  /\ request'[u] \in Requests
                      /\ \E e \in Environments :
                            /\ ~ FipsRefuses(e, request'[u])
                            /\ key'[u] = ClientKeyOf(e, request'[u])
                            /\ wanted'[u] = ClientOf(e, request'[u])
    BY DEF Resolved
  <2>1. CASE u = t
    <3>1. request'[u] = r /\ key'[u] = ClientKeyOf(env, r) /\ wanted'[u] = ClientOf(env, r)
      BY <1>1, <2>1, CacheFacts DEF BackendInv, BackendTypeOK
    <3>2. QED
      BY <1>1, <3>1
  <2>2. CASE u # t
    <3>1. /\ pc'[u] = pc[u] /\ request'[u] = request[u] /\ key'[u] = key[u]
          /\ wanted'[u] = wanted[u]
      BY <1>1, <2>2, CacheFacts DEF BackendInv, BackendTypeOK
    <3>2. QED
      BY <3>1 DEF BackendInv, Resolved
  <2>3. QED
    BY <2>1, <2>2
<1>4. BuiltAsKeyed'
  BY <1>1 DEF BackendInv, BuiltAsKeyed
<1>5. QED
  BY <1>2, <1>3, <1>4 DEF BackendInv

\* The client constructed for a key has the configuration its thread resolved.
LEMMA ConstructClientStep ==
    ASSUME Cache!CacheInv, BackendInv, NEW t \in Threads, ConstructClient(t)
    PROVE  BackendInv'
<1>1. PICK c \in Clients :
        /\ builtFor' = [builtFor EXCEPT ![c] = key[t]]
        /\ candidate' = [candidate EXCEPT ![t] = c]
  BY DEF ConstructClient, CC!Construct
<1>2. /\ pc[t] = "construct" /\ pc' = [pc EXCEPT ![t] = "publish"]
      /\ config' = [config EXCEPT ![candidate'[t]] = wanted[t]]
      /\ UNCHANGED env /\ UNCHANGED request /\ UNCHANGED wanted /\ UNCHANGED key
  BY DEF ConstructClient, CC!Construct
<1>3. candidate'[t] = c
  BY <1>1, CacheFacts
<1>4. BackendTypeOK'
  BY <1>2, <1>3 DEF BackendInv, BackendTypeOK
<1>5. Resolved'
  BY <1>2, CacheFacts, ResolvedStays DEF BackendInv
<1>6. wanted[t] = KeyClient(key[t])
  BY <1>2, ClientKeyComplete DEF BackendInv, Resolved
<1>7. \A d \in Clients : d # c => builtFor'[d] = builtFor[d] /\ config'[d] = config[d]
  BY <1>1, <1>2, <1>3, CacheFacts DEF BackendInv, BackendTypeOK
<1>8. builtFor'[c] = key[t] /\ config'[c] = wanted[t]
  BY <1>1, <1>2, <1>3, CacheFacts DEF BackendInv, BackendTypeOK
<1>9. BuiltAsKeyed'
  BY <1>6, <1>7, <1>8 DEF BackendInv, BuiltAsKeyed
<1>10. QED
  BY <1>4, <1>5, <1>9 DEF BackendInv

\* A client that loses its last owner loses its key and its configuration.
LEMMA SurvivorsAsKeyed ==
    ASSUME BackendInv, config' = SurvivingConfig,
           \A c \in Clients : builtFor'[c] = IF owners'[c] = {} THEN NoKey ELSE builtFor[c]
    PROVE  BuiltAsKeyed' /\ config' = [c \in Clients |-> config'[c]]
BY DEF BackendInv, BuiltAsKeyed, SurvivingConfig

\* Clients that are destroyed after the unlock take their configuration along.
LEMMA UnlockedStep ==
    ASSUME Cache!CacheInv, BackendInv, NEW t \in Threads, Unlocked(t)
    PROVE  BackendInv'
<1>1. /\ pc[t] = "unlocked" /\ pc' = [pc EXCEPT ![t] = "call"]
      /\ config' = SurvivingConfig
      /\ UNCHANGED env /\ UNCHANGED request /\ UNCHANGED wanted /\ UNCHANGED key
      /\ \A c \in Clients : builtFor'[c] = IF owners'[c] = {} THEN NoKey ELSE builtFor[c]
  BY DEF Unlocked, CC!DropUnlocked, CC!AfterDestruction
<1>2. BuiltAsKeyed' /\ BackendTypeOK'
  BY <1>1, SurvivorsAsKeyed DEF BackendInv, BackendTypeOK
<1>3. Resolved'
  BY <1>1, CacheFacts, ResolvedStays DEF BackendInv
<1>4. QED
  BY <1>2, <1>3 DEF BackendInv

\* A call ends, with it what its thread wanted, and perhaps the client.
LEMMA CallKmsStep ==
    ASSUME Cache!CacheInv, BackendInv, NEW t \in Threads, CallKms(t)
    PROVE  BackendInv'
<1>1. /\ pc' = [pc EXCEPT ![t] = "idle"] /\ key' = [key EXCEPT ![t] = NoKey]
      /\ config' = SurvivingConfig /\ UNCHANGED env
      /\ request' = [request EXCEPT ![t] = NoRequest]
      /\ wanted' = [wanted EXCEPT ![t] = NoRequest]
      /\ \A c \in Clients : builtFor'[c] = IF owners'[c] = {} THEN NoKey ELSE builtFor[c]
  BY DEF CallKms, CC!FinishCall, CC!AfterDestruction
<1>2. BuiltAsKeyed' /\ BackendTypeOK'
  BY <1>1, SurvivorsAsKeyed DEF BackendInv, BackendTypeOK
<1>3. \A u \in Threads :
        pc'[u] = "idle" \/ /\ pc'[u] = pc[u] /\ request'[u] = request[u]
                           /\ key'[u] = key[u] /\ wanted'[u] = wanted[u]
  BY <1>1, CacheFacts DEF BackendInv, BackendTypeOK
<1>4. Resolved'
  BY <1>3, ResolvedStays DEF BackendInv
<1>5. QED
  BY <1>2, <1>4 DEF BackendInv

\* A client that is not constructed leaves nothing behind.
LEMMA ConstructionFailsStep ==
    ASSUME Cache!CacheInv, BackendInv, NEW t \in Threads, ConstructionFails(t)
    PROVE  BackendInv'
<1>1. /\ pc' = [pc EXCEPT ![t] = "idle"] /\ key' = [key EXCEPT ![t] = NoKey]
      /\ UNCHANGED config /\ UNCHANGED env /\ UNCHANGED builtFor
      /\ request' = [request EXCEPT ![t] = NoRequest]
      /\ wanted' = [wanted EXCEPT ![t] = NoRequest]
  BY DEF ConstructionFails, CC!ConstructThrows
<1>2. BuiltAsKeyed' /\ BackendTypeOK'
  BY <1>1 DEF BackendInv, BackendTypeOK, BuiltAsKeyed
<1>3. \A u \in Threads :
        pc'[u] = "idle" \/ /\ pc'[u] = pc[u] /\ request'[u] = request[u]
                           /\ key'[u] = key[u] /\ wanted'[u] = wanted[u]
  BY <1>1, CacheFacts DEF BackendInv, BackendTypeOK
<1>4. Resolved'
  BY <1>3, ResolvedStays DEF BackendInv
<1>5. QED
  BY <1>2, <1>4 DEF BackendInv

\* A step between the lookup and the call moves the thread, and nothing of these.
LEMMA ServedStep ==
    ASSUME Cache!CacheInv, BackendInv, NEW t \in Threads, LookUp(t) \/ Publish(t)
    PROVE  BackendInv'
<1>1. PICK step \in {"construct", "unlocked", "call"} :
        /\ pc[t] # "idle" /\ pc' = [pc EXCEPT ![t] = step]
        /\ UNCHANGED env /\ UNCHANGED request /\ UNCHANGED wanted /\ UNCHANGED config
        /\ UNCHANGED key /\ UNCHANGED builtFor
  BY DEF LookUp, Publish, CC!CachedClientHit, CC!CachedClientMiss,
         CC!PublishFound, 
         CC!PublishInsert
<1>2. BackendTypeOK' /\ BuiltAsKeyed'
  BY <1>1 DEF BackendInv, BackendTypeOK, BuiltAsKeyed
<1>3. Resolved'
  BY <1>1, CacheFacts, ResolvedStays DEF BackendInv
<1>4. QED
  BY <1>2, <1>3 DEF BackendInv

\* Every step preserves the invariant.
LEMMA StepBackend ==
    ASSUME Cache!CacheInv, BackendInv, [BackendNext]_backendVars
    PROVE  BackendInv'
<1>1. CASE ChangeEnvironment \/ UNCHANGED backendVars
  <2>1. /\ env' \in Environments /\ UNCHANGED <<request, wanted, config, cache>>
    BY <1>1 DEF ChangeEnvironment, backendVars, BackendInv, BackendTypeOK
  <2>2. /\ UNCHANGED pc /\ UNCHANGED key /\ UNCHANGED builtFor /\ UNCHANGED request
        /\ UNCHANGED wanted /\ UNCHANGED config
    BY <2>1 DEF cache
  <2>3. BackendTypeOK' /\ BuiltAsKeyed'
    BY <2>1, <2>2 DEF BackendInv, BackendTypeOK, BuiltAsKeyed
  <2>4. Resolved'
    BY <2>2, ResolvedStays DEF BackendInv
  <2>5. QED
    BY <2>3, <2>4 DEF BackendInv
<1>2. ASSUME NEW t \in Threads, NEW r \in Requests, Resolve(t, r) \/ RefuseRouting(t, r)
      PROVE  BackendInv'
  BY <1>1, <1>2, ResolveStep DEF RefuseRouting
<1>3. ASSUME NEW t \in Threads,
             \/ LookUp(t) \/ ConstructClient(t) \/ ConstructionFails(t)
             \/ Publish(t) \/ Unlocked(t) \/ CallKms(t)
      PROVE  BackendInv'
  BY <1>3, ServedStep, ConstructClientStep, ConstructionFailsStep, UnlockedStep,
     CallKmsStep
<1>4. QED
  BY <1>1, <1>2, <1>3 DEF BackendNext

\* What was resolved for a thread, and what a client was built with, stay what the
\* ClientKey says, whatever else happens to the environment and the cache.
THEOREM BackendInvariant == BackendSpec => []BackendInv
<1>1. BackendInit => BackendInv
  BY InitBackend
<1>2. Cache!CacheInv /\ BackendInv /\ [BackendNext]_backendVars => BackendInv'
  BY StepBackend
<1>3. QED
  BY <1>1, <1>2, CacheHolds, PTL DEF BackendSpec

\* The client of a call is the one that the request determines.
LEMMA ClientIsWanted ==
    ASSUME Cache!CacheInv, BackendInv, NEW t \in Threads, Calling(t)
    PROVE  /\ request[t] \in Requests
           /\ \E e \in Environments : /\ ~ FipsRefuses(e, request[t])
                                      /\ wanted[t] = ClientOf(e, request[t])
                                      /\ config[client[t]] = wanted[t]
<1>1. pc[t] = "call" /\ client[t] \in Clients /\ builtFor[client[t]] = key[t]
      /\ key[t] # NoKey
  BY CacheFacts DEF Calling
<1>2. config[client[t]] = KeyClient(key[t])
  BY <1>1 DEF BackendInv, BuiltAsKeyed
<1>3. PICK e \in Environments :
        /\ ~ FipsRefuses(e, request[t]) /\ key[t] = ClientKeyOf(e, request[t])
        /\ wanted[t] = ClientOf(e, request[t])
  BY <1>1 DEF BackendInv, Resolved
<1>4. QED
  BY <1>1, <1>2, <1>3, ClientKeyComplete DEF BackendInv, Resolved

\* ClientKey and PrecedenceCredentialsProviderChain: the client of a call, whoever
\* built it and when, has the configuration and the credentials of the request.
THEOREM AlwaysWantedConfiguration == BackendSpec => []WantedConfiguration
<1>1. Cache!CacheInv /\ BackendInv => WantedConfiguration
  <2> SUFFICES ASSUME Cache!CacheInv, BackendInv, NEW t \in Threads, Calling(t)
               PROVE  /\ config[client[t]] = wanted[t]
                      /\ OwnCredentials(t, config[client[t]].credentials)
    BY DEF WantedConfiguration
  <2>1. PICK e \in Environments : /\ wanted[t] = ClientOf(e, request[t])
                                  /\ config[client[t]] = wanted[t]
    BY ClientIsWanted
  <2>2. config[client[t]].credentials = CredentialsChain(e, request[t])
    BY <2>1 DEF ClientOf
  <2>3. OwnCredentials(t, CredentialsChain(e, request[t]))
    BY ChainOfItsOwn
  <2>4. QED
    BY <2>1, <2>2, <2>3
<1>2. QED
  BY <1>1, CacheHolds, BackendInvariant, PTL

\* client_for's refusals for FIPS and awskms_uri_parse's for a region that is not
\* the ARN's hold of the client of every call.
THEOREM AlwaysRoutedWhereAllowed == BackendSpec => []RoutedWhereAllowed
<1>1. Cache!CacheInv /\ BackendInv => RoutedWhereAllowed
  BY ClientIsWanted, RoutedWell DEF RoutedWhereAllowed
<1>2. QED
  BY <1>1, CacheHolds, BackendInvariant, PTL

\* Only the step that resolves a request changes what a thread is to be given.
LEMMA OnlyResolveWants ==
    ASSUME Cache!CacheInv, BackendInv, [BackendNext]_backendVars, NEW t \in Threads,
           wanted'[t] # wanted[t], wanted'[t] # NoRequest
    PROVE  \E r \in Requests : request'[t] = r /\ wanted'[t] = ClientOf(env, r)
<1>1. wanted = [u \in Threads |-> wanted[u]]
  BY DEF BackendInv, BackendTypeOK
<1>2. ASSUME NEW u \in Threads, NEW r \in Requests, Resolve(u, r)
      PROVE  request'[t] = r /\ wanted'[t] = ClientOf(env, r)
  <2>1. /\ wanted' = [wanted EXCEPT ![u] = ClientOf(env, r)]
        /\ request' = [request EXCEPT ![u] = r]
    BY <1>2 DEF Resolve
  <2>2. u = t
    BY <1>1, <2>1
  <2>3. QED
    BY <1>1, <2>1, <2>2 DEF BackendInv, BackendTypeOK
<1>3. ASSUME NEW u \in Threads, ConstructionFails(u) \/ CallKms(u)
      PROVE  FALSE
  BY <1>1, <1>3 DEF ConstructionFails, CallKms
<1>4. ASSUME NEW u \in Threads, LookUp(u) \/ ConstructClient(u) \/ Publish(u) \/ Unlocked(u)
      PROVE  FALSE
  BY <1>4 DEF LookUp, ConstructClient, Publish, Unlocked
<1>5. ASSUME \/ ChangeEnvironment \/ UNCHANGED backendVars
             \/ \E u \in Threads, r \in Requests : RefuseRouting(u, r)
      PROVE  FALSE
  BY <1>5 DEF ChangeEnvironment, RefuseRouting, backendVars
<1>6. QED
  BY <1>2, <1>3, <1>4, <1>5 DEF BackendNext

\* client_for selects the settings of a client as the table of docs/INSTALL.md has
\* it, if no URI and no provider section gives the empty profile; client_for takes
\* that one for a profile that is given, which the table does not say.
THEOREM AlwaysPrecedenceTable ==
    (\A r \in Requests : r.uri.profile # Empty /\ r.prov.profile # Empty) =>
        (BackendSpec => PrecedenceTable)
<1> SUFFICES ASSUME \A r \in Requests : r.uri.profile # Empty /\ r.prov.profile # Empty
             PROVE  BackendSpec => PrecedenceTable
  OBVIOUS
<1>1. Cache!CacheInv /\ BackendInv /\ [BackendNext]_backendVars =>
        \A t \in Threads : wanted'[t] # wanted[t] /\ wanted'[t] # NoRequest =>
            FollowsTable(env, request'[t], wanted'[t])
  <2> SUFFICES ASSUME Cache!CacheInv, BackendInv, [BackendNext]_backendVars,
                      NEW t \in Threads, wanted'[t] # wanted[t], wanted'[t] # NoRequest
               PROVE  FollowsTable(env, request'[t], wanted'[t])
    OBVIOUS
  <2>1. PICK r \in Requests : request'[t] = r /\ wanted'[t] = ClientOf(env, r)
    BY OnlyResolveWants
  <2>2. env \in Environments
    BY DEF BackendInv, BackendTypeOK
  <2>3. QED
    BY <2>1, <2>2, TableFollowed
<1>2. QED
  BY <1>1, CacheHolds, BackendInvariant, PTL DEF BackendSpec, PrecedenceTable
===============================================================================
