------------------------------ MODULE KmsBackend ------------------------------
(***************************************************************************)
(* Threads that sign with, or load, keys through one process-wide cache:   *)
(* the routing of client_for (KmsRouting) composed with the client cache   *)
(* (ClientCache), while the host changes the environment between calls.    *)
(* Requests of several provider contexts, with and without FIPS, share the *)
(* cache; what must not be shared is decided by the ClientKey alone.       *)
(*                                                                         *)
(* getenv and setenv may not race in one process, so the host changes the  *)
(* environment while no thread is between its first and its last read of   *)
(* it: resolving a request is one action.                                  *)
(***************************************************************************)
EXTENDS KmsRouting, FiniteSets

CONSTANTS
    Threads, Clients, MaxClients, NoKey, NoClient,
    RawUris,      \* URIs the application may load
    ProvConfigs,  \* configuration sections of the provider contexts
    Environments, \* environments the process may have
    NoRequest

VARIABLES
    env,     \* the process environment
    request, \* the request each thread is serving
    wanted,  \* history: what ClientOf was when the request was resolved
    config,  \* the configuration each client was constructed with
    clients, lru, owners, builtFor, pc, key, candidate, client, dropped

cache == <<clients, lru, owners, builtFor, pc, key, candidate, client, dropped>>
backendVars == <<env, request, wanted, config, cache>>

\* The keys that STORE opened: URIs that parsed
Uris == {ParseUri(raw) : raw \in RawUris} \ {Rejected}

Requests == [uri : Uris, prov : ProvConfigs, fips : BOOLEAN]

ClientKeys == {ClientKeyOf(e, r) : e \in Environments, r \in Requests}

CC == INSTANCE ClientCache WITH Keys <- ClientKeys

\* What an environment variable holds is a string, the empty one if it is not set.
ASSUME BackendAssumption ==
    /\ MaxClients \in Nat \ {0}
    /\ NoKey \notin ClientKeys /\ NoClient \notin Clients
    /\ \A e \in Environments :
          /\ e.AWS_DEFAULT_PROFILE # Null /\ e.AWS_PROFILE # Null
          /\ e.AWS_DEFAULT_REGION # Null /\ e.AWS_REGION # Null

BackendInit ==
    /\ CC!Init
    /\ env     \in Environments
    /\ request = [t \in Threads |-> NoRequest]
    /\ wanted  = [t \in Threads |-> NoRequest]
    /\ config  = [c \in Clients |-> NoRequest]

(***************************************************************************)
(* The host sets environment variables between calls.                      *)
(***************************************************************************)
ChangeEnvironment ==
    /\ env' \in Environments \ {env}
    /\ UNCHANGED <<request, wanted, config, cache>>

(***************************************************************************)
(* client_for up to the lookup: the settings are selected, FIPS routing is *)
(* checked, and the key of the client is formed.                           *)
(***************************************************************************)
Resolve(t, r) ==
    /\ ~ FipsRefuses(env, r)
    /\ CC!Request(t, ClientKeyOf(env, r))
    /\ request' = [request EXCEPT ![t] = r]
    /\ wanted'  = [wanted EXCEPT ![t] = ClientOf(env, r)]
    /\ UNCHANGED <<env, config>>

RefuseRouting(t, r) ==
    /\ pc[t] = "idle"
    /\ FipsRefuses(env, r)
    /\ UNCHANGED backendVars

(***************************************************************************)
(* The cache's own steps.  A client is constructed from the locals of      *)
(* client_for, which the environment no longer influences.                 *)
(***************************************************************************)
LookUp(t) ==
    /\ CC!CachedClientHit(t) \/ CC!CachedClientMiss(t)
    /\ UNCHANGED <<env, request, wanted, config>>

ConstructClient(t) ==
    /\ CC!Construct(t)
    /\ config' = [config EXCEPT ![candidate'[t]] = wanted[t]]
    /\ UNCHANGED <<env, request, wanted>>

ConstructionFails(t) ==
    /\ CC!ConstructThrows(t)
    /\ request' = [request EXCEPT ![t] = NoRequest]
    /\ wanted'  = [wanted EXCEPT ![t] = NoRequest]
    /\ UNCHANGED <<env, config>>

Publish(t) ==
    /\ CC!PublishFound(t) \/ CC!PublishInsert(t)
    /\ UNCHANGED <<env, request, wanted, config>>

\* The configuration goes with the client that is destroyed.
SurvivingConfig == [c \in Clients |-> IF owners'[c] = {} THEN NoRequest
                                      ELSE config[c]]

Unlocked(t) ==
    /\ CC!DropUnlocked(t)
    /\ config' = SurvivingConfig
    /\ UNCHANGED <<env, request, wanted>>

(***************************************************************************)
(* The KMS request through the client, whatever KMS answers.               *)
(***************************************************************************)
CallKms(t) ==
    /\ CC!FinishCall(t)
    /\ request' = [request EXCEPT ![t] = NoRequest]
    /\ wanted'  = [wanted EXCEPT ![t] = NoRequest]
    /\ config'  = SurvivingConfig
    /\ UNCHANGED env

BackendNext ==
    \/ ChangeEnvironment
    \/ \E t \in Threads :
        \/ \E r \in Requests : Resolve(t, r) \/ RefuseRouting(t, r)
        \/ LookUp(t) \/ ConstructClient(t) \/ ConstructionFails(t)
        \/ Publish(t) \/ Unlocked(t) \/ CallKms(t)

BackendSpec == BackendInit /\ [][BackendNext]_backendVars

-----------------------------------------------------------------------------

Calling(t) == pc[t] = "call"

\* The credentials of a profile the URI does not name, and that neither the
\* provider section nor the environment selects, never sign: a call uses at
\* most the URI's profile, the ambient chain and the provider's fallback, and
\* the provider's profile only after the ambient chain.
OwnCredentials(t, chain) ==
    LET uri == request[t].uri.profile
    IN  /\ uri \notin {Null, Empty} =>
             chain[1] = [source |-> "profile", profile |-> uri]
        /\ \A i \in 1..Len(chain) :
             chain[i].source = "profile" =>
                \/ i = 1 /\ chain[i].profile = uri
                \/ /\ i > 1
                   /\ chain[i].profile = request[t].prov.profile
                   /\ chain[i - 1].source = "default chain"

\* The client a call goes through, cached by whatever thread, provider
\* context and environment, has the very configuration and credentials the
\* request asked for: ClientKey leaves nothing out, and neither the cache nor
\* the chain it was built with (PrecedenceCredentialsProviderChain) lets the
\* credentials of another request sign.
WantedConfiguration ==
    \A t \in Threads : Calling(t) =>
        /\ config[client[t]] = wanted[t]
        /\ OwnCredentials(t, config[client[t]].credentials)

FipsClient(c) == c.useFIPS /\ c.endpoint = Empty /\ c.region \notin ChinaRegions

\* A request goes nowhere it must not.  With FIPS, only a FIPS client of a
\* validated region with no endpoint override will do, also when non-FIPS
\* requests for the same key share the cache (client_for,
\* AWSKMS_R_FIPS_ROUTING).  And a key named by ARN is only ever asked for in the
\* ARN's own region, whatever the environment, profile or provider section says
\* (uri.c, AWSKMS_R_REGION_CONFLICT).
RoutedWhereAllowed ==
    \A t \in Threads : Calling(t) =>
        LET c   == config[client[t]]
            arn == ArnRegion(request[t].uri.key_id)
        IN  /\ request[t].fips => FipsClient(c)
            /\ arn # Null => c.region = arn

\* The settings of a client follow the precedence table of docs/INSTALL.md,
\* read with the environment at the moment the request was resolved.
PrecedenceTable ==
    [][\A t \in Threads : wanted'[t] # wanted[t] /\ wanted'[t] # NoRequest =>
        FollowsTable(env, request'[t], wanted'[t])]_backendVars
=============================================================================
