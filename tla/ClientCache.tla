----------------------------- MODULE ClientCache -----------------------------
(***************************************************************************)
(* The process-wide, bounded, least-recently-used cache of AWS KMS SDK     *)
(* clients in src/src/kms_aws.cc, as the threads that enter client_for use *)
(* it.  A thread looks its key up under clients_mutex (cached_client),     *)
(* builds a client outside the mutex when there is none, and offers it     *)
(* back under the mutex (publish_client), which may find that another      *)
(* thread was faster, or may have to evict a client that other threads are *)
(* still calling through.                                                  *)
(*                                                                         *)
(* Each critical section is a single action: it holds clients_mutex from   *)
(* its first statement to its last and calls nothing that can block.       *)
(*                                                                         *)
(* A std::shared_ptr is modelled by the set of variables that own the      *)
(* client (owners): copying one adds an owner, moving one renames it,      *)
(* destroying one removes it, and the client's destructor runs when the    *)
(* last owner goes.  An identity in Clients is the address of a client     *)
(* and may be used again once the client at it is destroyed.               *)
(***************************************************************************)
EXTENDS Naturals, Sequences, FiniteSets

CONSTANTS
    Threads,    \* threads that call into the backend (libuv pool, main)
    Keys,       \* the ClientKey values the requests resolve to
    Clients,    \* addresses a KMSClient may be allocated at
    MaxClients, \* kMaxClients
    NoKey,      \* a thread outside client_for
    NoClient    \* a null shared_ptr

ASSUME MaxClientsAssumption == MaxClients \in Nat \ {0}
ASSUME NoKeyAssumption == NoKey \notin Keys
ASSUME NoClientAssumption == NoClient \notin Clients

VARIABLES
    clients,   \* state.clients: the keys present, each with its client
    lru,       \* state.lru: keys, most recently used first
    owners,    \* owners[c]: the shared_ptr variables that own client c
    builtFor,  \* builtFor[c]: the key client c was constructed from;
               \* NoKey once c is destroyed
    pc,        \* where each thread is
    key,       \* client_for's key
    candidate, \* the client a thread has built and not yet published
    client,    \* the client a thread received from client_for
    dropped    \* what publish_client destroys after it unlocks

vars == <<clients, lru, owners, builtFor, pc, key, candidate, client, dropped>>

\* The shared_ptr variables: the one in a map entry, and each thread's own.
Entry        == <<"entry", NoClient>>
Candidate(t) == <<"candidate", t>>
Result(t)    == <<"client", t>>
Dropped(t)   == <<"dropped", t>>

Owner == {Entry} \cup ({"candidate", "client", "dropped"} \X Threads)

Location == {"idle", "lookup", "construct", "publish", "unlocked", "call"}

\* The node an entry's iterator points to is the first one with its key:
\* push_front and splice only ever put nodes at the front.
NodeOf(s, k) ==
    CHOOSE i \in 1..Len(s) : s[i] = k /\ \A j \in 1..(i - 1) : s[j] # k

\* touch_lru: splice the node of k to the front of the list
Touched(s, k) ==
    [n \in 1..Len(s) |-> IF n = 1 THEN k
                         ELSE IF n <= NodeOf(s, k) THEN s[n - 1] ELSE s[n]]

Back(s) == s[Len(s)]

Present(k) == k \in DOMAIN clients

\* (slip) the size is compared after the insertion it should make room for
FullLate == Cardinality(DOMAIN clients) = MaxClients + 1

Full == Cardinality(DOMAIN clients) = MaxClients

InUse(c) == owners[c] # {}

\* What is left of the clients once those without an owner are destroyed.
AfterDestruction(ownersNow) ==
    [c \in Clients |-> IF ownersNow[c] = {} THEN NoKey ELSE builtFor[c]]

Init ==
    /\ clients   = <<>>
    /\ lru       = <<>>
    /\ owners    = [c \in Clients |-> {}]
    /\ builtFor  = [c \in Clients |-> NoKey]
    /\ pc        = [t \in Threads |-> "idle"]
    /\ key       = [t \in Threads |-> NoKey]
    /\ candidate = [t \in Threads |-> NoClient]
    /\ client    = [t \in Threads |-> NoClient]
    /\ dropped   = [t \in Threads |-> NoClient]

-----------------------------------------------------------------------------

(***************************************************************************)
(* client_for has resolved the request to a key and goes to the cache.     *)
(***************************************************************************)
Request(t, k) ==
    /\ pc[t] = "idle"
    /\ pc'  = [pc EXCEPT ![t] = "lookup"]
    /\ key' = [key EXCEPT ![t] = k]
    /\ UNCHANGED <<clients, lru, owners, builtFor, candidate, client, dropped>>

\* (slip) cached_client returns found->second.client.get()
CachedClientHitRaw(t) ==
    /\ pc[t] = "lookup"
    /\ Present(key[t])
    /\ lru'    = Touched(lru, key[t])
    /\ client' = [client EXCEPT ![t] = clients[key[t]]]
    /\ pc'     = [pc EXCEPT ![t] = "call"]
    /\ UNCHANGED <<clients, owners, builtFor, key, candidate, dropped>>

\* (slip) cached_client does not call touch_lru
CachedClientHitUntouched(t) ==
    /\ pc[t] = "lookup"
    /\ Present(key[t])
    /\ client' = [client EXCEPT ![t] = clients[key[t]]]
    /\ owners' = [owners EXCEPT ![clients[key[t]]] = @ \cup {Result(t)}]
    /\ pc'     = [pc EXCEPT ![t] = "call"]
    /\ UNCHANGED <<clients, lru, builtFor, key, candidate, dropped>>

(***************************************************************************)
(* cached_client finds the key: the entry moves to the front of the list   *)
(* and the caller gets a copy of the shared_ptr.                           *)
(***************************************************************************)
CachedClientHit(t) ==
    /\ pc[t] = "lookup"
    /\ Present(key[t])
    /\ lru'     = Touched(lru, key[t])
    /\ client'  = [client EXCEPT ![t] = clients[key[t]]]
    /\ owners'  = [owners EXCEPT ![clients[key[t]]] = @ \cup {Result(t)}]
    /\ pc'      = [pc EXCEPT ![t] = "call"]
    /\ UNCHANGED <<clients, builtFor, key, candidate, dropped>>

CachedClientMiss(t) ==
    /\ pc[t] = "lookup"
    /\ ~ Present(key[t])
    /\ pc' = [pc EXCEPT ![t] = "construct"]
    /\ UNCHANGED <<clients, lru, owners, builtFor, key, candidate, client,
                   dropped>>

(***************************************************************************)
(* The client and its credentials chain are built with no lock held.  A    *)
(* constructor that throws is caught by the caller of client_for.          *)
(***************************************************************************)
Construct(t) ==
    /\ pc[t] = "construct"
    /\ \E c \in Clients :
        /\ ~ InUse(c)
        /\ owners'    = [owners EXCEPT ![c] = {Candidate(t)}]
        /\ builtFor'  = [builtFor EXCEPT ![c] = key[t]]
        /\ candidate' = [candidate EXCEPT ![t] = c]
    /\ pc' = [pc EXCEPT ![t] = "publish"]
    /\ UNCHANGED <<clients, lru, key, client, dropped>>

ConstructThrows(t) ==
    /\ pc[t] = "construct"
    /\ pc'  = [pc EXCEPT ![t] = "idle"]
    /\ key' = [key EXCEPT ![t] = NoKey]
    /\ UNCHANGED <<clients, lru, owners, builtFor, candidate, client, dropped>>

\* (slip) the loser of the race keeps the client it built
PublishFoundOwn(t) ==
    /\ pc[t] = "publish"
    /\ Present(key[t])
    /\ lru'       = Touched(lru, key[t])
    /\ client'    = [client EXCEPT ![t] = candidate[t]]
    /\ candidate' = [candidate EXCEPT ![t] = NoClient]
    /\ owners'    = [owners EXCEPT ![candidate[t]] = {Result(t)}]
    /\ pc'        = [pc EXCEPT ![t] = "unlocked"]
    /\ UNCHANGED <<clients, builtFor, key, dropped>>

(***************************************************************************)
(* publish_client finds that another thread published the key first: its   *)
(* client is returned and the candidate is destroyed once unlocked.        *)
(***************************************************************************)
PublishFound(t) ==
    /\ pc[t] = "publish"
    /\ Present(key[t])
    /\ lru'       = Touched(lru, key[t])
    /\ client'    = [client EXCEPT ![t] = clients[key[t]]]
    /\ dropped'   = [dropped EXCEPT ![t] = candidate[t]]
    /\ candidate' = [candidate EXCEPT ![t] = NoClient]
    /\ owners'    = [owners EXCEPT
                        ![clients[key[t]]] = @ \cup {Result(t)},
                        ![candidate[t]]    = {Dropped(t)}]
    /\ pc'        = [pc EXCEPT ![t] = "unlocked"]
    /\ UNCHANGED <<clients, builtFor, key>>

(***************************************************************************)
(* The entry that makes room.  A full cache looks the back of the list up  *)
(* in the map; when it is there its client moves to the local "evicted",   *)
(* and the node goes either way.                                           *)
(***************************************************************************)
Evicts == Full /\ Present(Back(lru))

\* (slip) the map keeps the entry whose client was moved away
PublishInsertKeepsEntry(t) ==
    /\ pc[t] = "publish"
    /\ ~ Present(key[t])
    /\ clients'   = [k \in DOMAIN clients \cup {key[t]} |->
                        IF k = key[t] THEN candidate[t]
                        ELSE IF Evicts /\ k = Back(lru) THEN NoClient
                        ELSE clients[k]]
    /\ lru'       = <<key[t]>> \o
                     (IF Full THEN SubSeq(lru, 1, Len(lru) - 1) ELSE lru)
    /\ client'    = [client EXCEPT ![t] = candidate[t]]
    /\ candidate' = [candidate EXCEPT ![t] = NoClient]
    /\ owners'    = [owners EXCEPT ![candidate[t]] = {Entry, Result(t)}]
    /\ pc'        = [pc EXCEPT ![t] = "unlocked"]
    /\ UNCHANGED <<builtFor, key, dropped>>

KeysKept == DOMAIN clients \ (IF Evicts THEN {Back(lru)} ELSE {})

\* (slip) pop_back is forgotten
NodesKeptAll == lru

NodesKept == IF Full THEN SubSeq(lru, 1, Len(lru) - 1) ELSE lru

Evicted == IF Evicts THEN clients[Back(lru)] ELSE NoClient

\* (slips) the evicted client is destroyed whoever still uses it, or it is
\* released before the unlock
InsertReleasing(t, remaining(_)) ==
    /\ pc[t] = "publish"
    /\ ~ Present(key[t])
    /\ clients'   = [k \in KeysKept \cup {key[t]} |->
                        IF k = key[t] THEN candidate[t] ELSE clients[k]]
    /\ lru'       = <<key[t]>> \o NodesKept
    /\ client'    = [client EXCEPT ![t] = candidate[t]]
    /\ candidate' = [candidate EXCEPT ![t] = NoClient]
    /\ owners'    = [c \in Clients |->
                        IF c = candidate[t] THEN {Entry, Result(t)}
                        ELSE IF c = Evicted THEN remaining(c) ELSE owners[c]]
    /\ builtFor'  = AfterDestruction(owners')
    /\ pc'        = [pc EXCEPT ![t] = "unlocked"]
    /\ UNCHANGED <<key, dropped>>

PublishInsertDestroys(t) == InsertReleasing(t, LAMBDA c : {})

PublishInsertLocked(t) == InsertReleasing(t, LAMBDA c : owners[c] \ {Entry})

(***************************************************************************)
(* publish_client inserts the candidate, evicting when the cache is full.  *)
(* The map holds a copy; the by-value parameter becomes the result.        *)
(***************************************************************************)
PublishInsert(t) ==
    /\ pc[t] = "publish"
    /\ ~ Present(key[t])
    /\ clients'   = [k \in KeysKept \cup {key[t]} |->
                        IF k = key[t] THEN candidate[t] ELSE clients[k]]
    /\ lru'       = <<key[t]>> \o NodesKept
    /\ client'    = [client EXCEPT ![t] = candidate[t]]
    /\ candidate' = [candidate EXCEPT ![t] = NoClient]
    /\ dropped'   = [dropped EXCEPT ![t] = Evicted]
    /\ owners'    = [c \in Clients |->
                        IF c = candidate[t] THEN {Entry, Result(t)}
                        ELSE IF c = Evicted
                             THEN (owners[c] \ {Entry}) \cup {Dropped(t)}
                             ELSE owners[c]]
    /\ pc'        = [pc EXCEPT ![t] = "unlocked"]
    /\ UNCHANGED <<builtFor, key>>

(***************************************************************************)
(* After the unlock: evicted.reset(), or the losing candidate's            *)
(* destructor.  The SDK client is destroyed here when nobody else owns it. *)
(***************************************************************************)
DropUnlocked(t) ==
    /\ pc[t] = "unlocked"
    /\ owners'   = [c \in Clients |-> owners[c] \ {Dropped(t)}]
    /\ builtFor' = AfterDestruction(owners')
    /\ dropped' = [dropped EXCEPT ![t] = NoClient]
    /\ pc'      = [pc EXCEPT ![t] = "call"]
    /\ UNCHANGED <<clients, lru, key, candidate, client>>

(***************************************************************************)
(* GetPublicKey or Sign has run on the client and the local shared_ptr of  *)
(* awskms_kms_get_public_key / awskms_kms_sign goes out of scope.          *)
(***************************************************************************)
FinishCall(t) ==
    /\ pc[t] = "call"
    /\ owners'   = [c \in Clients |-> owners[c] \ {Result(t)}]
    /\ builtFor' = AfterDestruction(owners')
    /\ client' = [client EXCEPT ![t] = NoClient]
    /\ key'    = [key EXCEPT ![t] = NoKey]
    /\ pc'     = [pc EXCEPT ![t] = "idle"]
    /\ UNCHANGED <<clients, lru, candidate, dropped>>

-----------------------------------------------------------------------------

\* The exception leaves through publish_client and client_for into the
\* caller's catch; whoever lost its last owner on the way is destroyed.
Unwind(t) ==
    /\ candidate' = [candidate EXCEPT ![t] = NoClient]
    /\ key'       = [key EXCEPT ![t] = NoKey]
    /\ pc'        = [pc EXCEPT ![t] = "idle"]
    /\ builtFor'  = AfterDestruction(owners')
    /\ UNCHANGED <<client, dropped>>

(***************************************************************************)
(* Memory runs out in lru.push_front or, once the node is pushed, in       *)
(* clients.emplace: the exception releases the lock, the evicted client    *)
(* and the candidate, and a pushed node stays.  Only SpecOutOfMemory takes *)
(* this step.                                                              *)
(***************************************************************************)
PublishThrows(t) ==
    /\ pc[t] = "publish"
    /\ ~ Present(key[t])
    /\ clients' = [k \in KeysKept |-> clients[k]]
    /\ lru' \in {NodesKept, <<key[t]>> \o NodesKept}
    /\ owners'  = [c \in Clients |->
                      IF c = candidate[t] THEN {}
                      ELSE IF c = Evicted THEN owners[c] \ {Entry}
                           ELSE owners[c]]
    /\ Unwind(t)

-----------------------------------------------------------------------------

CacheStep(t) ==
    \/ CachedClientHit(t)
    \/ CachedClientMiss(t)
    \/ Construct(t)
    \/ ConstructThrows(t)
    \/ PublishFound(t)
    \/ PublishInsert(t)
    \/ DropUnlocked(t)
    \/ FinishCall(t)

Next == \E t \in Threads : CacheStep(t) \/ \E k \in Keys : Request(t, k)

Spec == Init /\ [][Next]_vars

Fairness == \A t \in Threads : WF_vars(CacheStep(t))

SpecOutOfMemory ==
    Init /\ [][Next \/ \E t \in Threads : PublishThrows(t)]_vars

-----------------------------------------------------------------------------

\* Every variable keeps its type through every step of client_for.
TypeOK ==
    /\ DOMAIN clients \subseteq Keys
    /\ \A k \in DOMAIN clients : clients[k] \in Clients
    /\ lru       \in Seq(Keys)
    /\ owners    \in [Clients -> SUBSET Owner]
    /\ builtFor  \in [Clients -> Keys \cup {NoKey}]
    /\ pc        \in [Threads -> Location]
    /\ key       \in [Threads -> Keys \cup {NoKey}]
    /\ candidate \in [Threads -> Clients \cup {NoClient}]
    /\ client    \in [Threads -> Clients \cup {NoClient}]
    /\ dropped   \in [Threads -> Clients \cup {NoClient}]

\* The list names exactly the cached keys, each once, however lookups,
\* publications and evictions interleave: an entry's iterator never dangles
\* and "oldest" is always found (touch_lru, publish_client).
ListMatchesMap ==
    /\ \A i, j \in 1..Len(lru) : lru[i] = lru[j] => i = j
    /\ {lru[i] : i \in 1..Len(lru)} = DOMAIN clients

\* Every entry of the map has its node in the list, also after allocations have
\* failed half-way through an insertion: the iterator touch_lru splices by never
\* dangles, and a cache that is full has an oldest node to evict.
EntriesListed == DOMAIN clients \subseteq {lru[i] : i \in 1..Len(lru)}

\* "The bounded client cache": never more than kMaxClients entries, also when
\* several threads publish different keys at the limit.
CacheBounded == Cardinality(DOMAIN clients) <= MaxClients

\* The client a thread calls through was built for the thread's own key, and
\* no cached client sits under another client's key.  This is what keeps one
\* region, profile or FIPS mode from being served by another's client.
RightClient ==
    /\ \A t \in Threads :
        client[t] # NoClient => builtFor[client[t]] = key[t]
    /\ \A k \in DOMAIN clients : builtFor[clients[k]] = k

\* The destructor of a client has not run while the cache or any thread can
\* still reach it: a thread in the middle of a KMS call survives the eviction
\* of its client by another thread.
NoUseAfterDestroy ==
    /\ \A t \in Threads :
        /\ client[t] # NoClient => Result(t) \in owners[client[t]]
        /\ candidate[t] # NoClient => Candidate(t) \in owners[candidate[t]]
        /\ dropped[t] # NoClient => Dropped(t) \in owners[dropped[t]]
    /\ \A k \in DOMAIN clients : Entry \in owners[clients[k]]

\* No client outlives its last user: an owner recorded for a client is a
\* variable that really refers to it, so evicted and losing clients are
\* destroyed once the threads using them are done.
NoLeakedClient ==
    \A c \in Clients :
        /\ Entry \in owners[c] => \E k \in DOMAIN clients : clients[k] = c
        /\ \A t \in Threads :
            /\ Result(t) \in owners[c] => client[t] = c
            /\ Candidate(t) \in owners[c] => candidate[t] = c
            /\ Dropped(t) \in owners[c] => dropped[t] = c

\* Shared ownership is exact: neither does an eviction or a lost race destroy a
\* client that somebody can still reach, nor does a client outlive the last one
\* who could (the moves and copies of shared_ptr's in publish_client).
OwnersExact == NoUseAfterDestroy /\ NoLeakedClient

\* A thread never leaves client_for with a client of its own: at the step
\* that hands the client over it is the cached one, so the losers of a race
\* to build a key share the winner's client.
OneSharedClient ==
    [][\A t \in Threads :
        client'[t] # client[t] /\ client'[t] # NoClient =>
            /\ key[t] \in DOMAIN clients'
            /\ clients'[key[t]] = client'[t]]_vars

\* A client another thread is calling through is never destroyed by an
\* eviction or by a lost race: only the thread that lets go of the last
\* owner destroys it, and never while the cache lock is held.
DestroyedUnlocked ==
    [][\A c \in Clients :
        InUse(c) /\ ~ InUse(c)' =>
            /\ \A k \in DOMAIN clients : clients[k] # c
            /\ UNCHANGED <<clients, lru>>]_vars
-----------------------------------------------------------------------------

(***************************************************************************)
(* The inductive strengthening of the invariants above: which local of     *)
(* client_for is set where, and that an unpublished candidate is private.  *)
(***************************************************************************)
LocalsMatchPc ==
    \A t \in Threads :
        /\ pc[t] = "idle" <=> key[t] = NoKey
        /\ pc[t] = "publish" <=> candidate[t] # NoClient
        /\ pc[t] \in {"unlocked", "call"} <=> client[t] # NoClient
        /\ dropped[t] # NoClient => pc[t] = "unlocked"

CandidatePrivate ==
    \A t \in Threads : candidate[t] # NoClient =>
        /\ owners[candidate[t]] = {Candidate(t)}
        /\ builtFor[candidate[t]] = key[t]

\* The first node of a cached key; behind it there may be stale ones once an
\* allocation has failed.
FirstNodes ==
    \A k \in DOMAIN clients :
        \E i \in 1..Len(lru) :
            /\ lru[i] = k
            /\ \A j \in 1..(i - 1) : lru[j] # k

\* What does not depend on the list agreeing with the map.
ClientsSound ==
    /\ TypeOK
    /\ RightClient
    /\ NoUseAfterDestroy
    /\ NoLeakedClient
    /\ LocalsMatchPc
    /\ CandidatePrivate

\* Inductive also for SpecOutOfMemory, where CacheInv is not even true.
MemoryInv == ClientsSound /\ FirstNodes

CacheInv ==
    /\ TypeOK
    /\ IsFiniteSet(DOMAIN clients)
    /\ ListMatchesMap
    /\ CacheBounded
    /\ RightClient
    /\ NoUseAfterDestroy
    /\ NoLeakedClient
    /\ LocalsMatchPc
    /\ CandidatePrivate

-----------------------------------------------------------------------------

(***************************************************************************)
(* Refinement of KmsClientService.  A served thread's key is read off the  *)
(* client it really holds, and a client whose destructor has run serves    *)
(* nobody.                                                                 *)
(***************************************************************************)
PhaseOf(t) ==
    CASE pc[t] = "idle"                               -> "idle"
      [] pc[t] \in {"lookup", "construct", "publish"} -> "waiting"
      [] pc[t] \in {"unlocked", "call"}               -> "using"

ServedKeyOf(t) ==
    IF PhaseOf(t) # "using" THEN key[t]
    ELSE IF InUse(client[t]) THEN builtFor[client[t]] ELSE NoKey

Service == INSTANCE KmsClientService WITH
    Capacity  <- MaxClients,
    phase     <- [t \in Threads |-> PhaseOf(t)],
    servedKey <- [t \in Threads |-> ServedKeyOf(t)],
    shared    <- DOMAIN clients

\* The cache is the service it promises: every request is served through a
\* live client of its own key, or fails, and always one or the other.
ImplementsService == Service!ServiceSpec
=============================================================================
