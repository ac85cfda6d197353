------------------------------- MODULE KeyStore -------------------------------
(***************************************************************************)
(* The life of a key object: the STORE loader that builds it (store.c),    *)
(* the key itself (key.c), and the keymgmt entries that share, copy and    *)
(* release it (keymgmt.c).                                                 *)
(*                                                                         *)
(* A key is built by one loader and then shared, without locks, by every   *)
(* thread that signs: it must be complete, and must not change, from the   *)
(* moment it is published.  Loaders and EVP_PKEYs are used by different    *)
(* threads; a load is two steps, the request to KMS being between them.    *)
(* libcrypto sets the parameters of a loader before it loads from it.      *)
(***************************************************************************)
EXTENDS Integers, FiniteSets

CONSTANTS
    Keys,        \* addresses of AWSKMS_KEYs
    Loaders,     \* addresses of AWSKMS_STORE_CTXs
    PKeys,       \* EVP_PKEYs, one for each holder
    Materials,   \* public keys an alias may stand for, in turn
    SpecOf,      \* the key spec of each
    MaxRequests, \* kms:GetPublicKey calls of a loader
    None         \* NULL, or none

EcSpecs == {"ECC_NIST_P256", "ECC_NIST_P384", "ECC_NIST_P521"}
ASSUME SpecAssumption == DOMAIN SpecOf = Materials
ASSUME HoldersAssumption == Loaders \cap PKeys = {}
ASSUME MaxRequestsAssumption == MaxRequests \in Nat

\* The parts of a key an operation may select; everything else there is to
\* select is irrelevant to every key of this provider.
Selections == {"private", "public", "domain"}

Pubs == [of : Materials \cup {None}, point : BOOLEAN, fips : BOOLEAN]
Specs == {SpecOf[m] : m \in Materials}

KeyType ==
    [refs : Nat, fips : BOOLEAN, uri : BOOLEAN, spec : Specs \cup {None},
     pub : Pubs \cup {None}]

LoadType == [fips : BOOLEAN]

LoaderType ==
    [key : Keys, expect : {"any", "other"}, emitted : BOOLEAN,
     load : LoadType \cup {None}, requests : Nat, wants : BOOLEAN]

PKeyType == [key : Keys, has : SUBSET Selections, original : Materials]

ASSUME NoneAssumption ==
    /\ None \notin Materials /\ None \notin Specs
    /\ None \notin Pubs \cup LoadType
    /\ None \notin KeyType \cup LoaderType \cup PKeyType

VARIABLES
    key,    \* key[k]: the AWSKMS_KEY at k, or None
    loader, \* loader[l]: the AWSKMS_STORE_CTX at l, or None
    pkey    \* pkey[p]: the keydata of an EVP_PKEY, or None; what it was made to
            \* have, and the key at KMS it goes back to, are history

vars == <<key, loader, pkey>>

\* awskms_key_new.  uri tells whether the key has an identifier at KMS; pub is
\* the OpenSSL key in memory, of which point tells a public key from mere
\* domain parameters.
NewKey(fips) ==
    [refs |-> 1, fips |-> fips, uri |-> FALSE, spec |-> None, pub |-> None]

\* awskms_key_up_ref
UpRef(k) == [key EXCEPT ![k].refs = @ + 1]

\* (slip) the key is destroyed whoever else holds it
ReleasedAtOnce(k) == [key EXCEPT ![k] = None]

\* (slip) the last reference goes and the key stays
ReleasedOneShort(k) == [key EXCEPT ![k].refs = @ - 1]

\* awskms_key_free
Released(k) ==
    IF key[k].refs = 1 THEN [key EXCEPT ![k] = None]
    ELSE [key EXCEPT ![k].refs = @ - 1]

Init ==
    /\ key = [k \in Keys |-> None]
    /\ loader = [l \in Loaders |-> None]
    /\ pkey = [p \in PKeys |-> None]

-----------------------------------------------------------------------------
(***************************************************************************)
(* The loader.  wants is history: whether FIPS was asked for.              *)
(***************************************************************************)

\* awskms_store_open, given a URI that parses; default is what the default
\* properties of the library context say of FIPS.
Open(l, k, default) ==
    /\ loader[l] = None /\ key[k] = None
    /\ key' = [key EXCEPT ![k] = [NewKey(default) EXCEPT !.uri = TRUE]]
    /\ loader' = [loader EXCEPT ![l] =
          [key |-> k, expect |-> "any", emitted |-> FALSE, load |-> None,
           requests |-> 0, wants |-> default]]
    /\ UNCHANGED pkey

Idle(l) == loader[l] # None /\ loader[l].load = None

\* (slip) parameters taken at any time
SetCtxParamsAnyTime(l, expect, fips) ==
    /\ Idle(l)
    /\ loader' = [loader EXCEPT ![l].expect = expect,
                                ![l].wants = @ \/ fips]
    /\ key' = IF fips THEN [key EXCEPT ![loader[l].key].fips = TRUE] ELSE key
    /\ UNCHANGED pkey

\* awskms_store_set_ctx_params and awskms_store_apply_properties; fips is what
\* awskms_fips_requested says.  A request for FIPS is never taken back.
SetCtxParams(l, expect, fips) ==
    /\ Idle(l) /\ loader[l].requests = 0 /\ ~ loader[l].emitted
    /\ loader' = [loader EXCEPT ![l].expect = expect,
                                ![l].wants = @ \/ fips]
    /\ key' = IF fips THEN [key EXCEPT ![loader[l].key].fips = TRUE] ELSE key
    /\ UNCHANGED pkey

\* awskms_store_load of something the caller did not expect
LoadUnexpected(l) ==
    /\ Idle(l) /\ ~ loader[l].emitted /\ loader[l].expect = "other"
    /\ loader' = [loader EXCEPT ![l].emitted = TRUE]
    /\ UNCHANGED <<key, pkey>>

\* awskms_store_load, up to the answer of kms:GetPublicKey, which a key that
\* is loaded already does not need.  A load that failed may be tried again.
LoadBegin(l) ==
    LET k == loader[l].key
    IN  /\ Idle(l) /\ ~ loader[l].emitted /\ loader[l].expect # "other"
        /\ loader[l].requests < MaxRequests
        /\ loader' = [loader EXCEPT
              ![l].requests = IF key[k].spec # None THEN @ ELSE @ + 1,
              ![l].load = [fips |-> key[k].fips]]
        /\ UNCHANGED <<key, pkey>>

Loading(l) == loader[l] # None /\ loader[l].load # None

\* (slip) a public key that could not be parsed leaves its key spec behind
FetchFailsHalfWay(l) ==
    /\ Loading(l) /\ key[loader[l].key].spec = None
    /\ loader' = [loader EXCEPT ![l].load = None]
    /\ key' = [key EXCEPT ![loader[l].key].spec = "RSA_2048"]
    /\ UNCHANGED pkey

\* awskms_store_load_key fails: no answer, or one that does not parse, of which
\* awskms_pubkey_cleanup leaves nothing.
FetchFails(l) ==
    /\ Loading(l) /\ key[loader[l].key].spec = None
    /\ loader' = [loader EXCEPT ![l].load = None]
    /\ UNCHANGED <<key, pkey>>

\* ... or has the public key that the identifier stands for at that time.
FetchSucceeds(l, m) ==
    LET k == loader[l].key
    IN  /\ Loading(l) /\ key[k].spec = None
        /\ key' = [key EXCEPT
              ![k].spec = SpecOf[m],
              ![k].pub = [of |-> m, point |-> TRUE, fips |-> key[k].fips]]
        /\ UNCHANGED <<loader, pkey>>

\* history: the key at KMS that a loaded key is
Original(k) == IF key[k].pub = None THEN None ELSE key[k].pub.of

\* The end of awskms_store_load: the object is offered once, and libcrypto may
\* take it, which calls awskms_keymgmt_load, or fail to.
Offer(l) ==
    /\ Loading(l) /\ key[loader[l].key].spec # None
    /\ loader' = [loader EXCEPT ![l].emitted = TRUE, ![l].load = None]
    /\ \/ \E p \in PKeys :
             /\ pkey[p] = None
             /\ pkey' = [pkey EXCEPT ![p] =
                           [key |-> loader[l].key, has |-> Selections,
                            original |-> Original(loader[l].key)]]
             /\ key' = UpRef(loader[l].key)
       \/ UNCHANGED <<key, pkey>>

\* awskms_store_close
Close(l) ==
    /\ Idle(l)
    /\ key' = Released(loader[l].key)
    /\ loader' = [loader EXCEPT ![l] = None]
    /\ UNCHANGED pkey

-----------------------------------------------------------------------------
(***************************************************************************)
(* The key manager                                                         *)
(***************************************************************************)

\* has_public_key, has_domain_parameters and awskms_keymgmt_has
HasPublicKey(k) == key[k].spec # None /\ key[k].pub # None /\ key[k].pub.point
HasDomainParameters(k) == key[k].spec \in EcSpecs => key[k].pub # None

Has(k, selection) ==
    /\ key[k].spec # None
    /\ "public" \in selection => HasPublicKey(k)
    /\ "private" \in selection => key[k].uri
    /\ "domain" \in selection => HasDomainParameters(k)

\* awskms_keymgmt_validate, given that the default provider finds nothing wrong
\* with a key it has parsed: what there is to check must be in memory.
Validates(k, selection) ==
    /\ Has(k, selection)
    /\ "public" \in selection => key[k].pub # None /\ key[k].pub.point
    /\ "domain" \in selection /\ key[k].spec \in EcSpecs => key[k].pub # None

SameDomain(a, b) ==
    key[a].spec \in EcSpecs \/ key[b].spec \in EcSpecs => key[a].spec = key[b].spec

\* EVP_PKEY_eq, of the OpenSSL keys in memory
SamePublicKey(a, b) ==
    /\ key[a].pub # None /\ key[b].pub # None
    /\ key[a].pub.of = key[b].pub.of

\* (slip) a private key alone is not compared
MatchPublicOnly(a, b, selection) ==
    /\ Has(a, selection) /\ Has(b, selection)
    /\ a # b =>
          /\ "domain" \in selection => SameDomain(a, b)
          /\ "public" \in selection => SamePublicKey(a, b)

\* awskms_keymgmt_match: the public key stands for the private one, whatever
\* the identifiers.
Match(a, b, selection) ==
    /\ Has(a, selection) /\ Has(b, selection)
    /\ a # b =>
          /\ "domain" \in selection => SameDomain(a, b)
          /\ selection \cap {"private", "public"} # {} => SamePublicKey(a, b)

\* awskms_keymgmt_export: what leaves the provider, if anything does
Export(k, selection) ==
    IF "private" \notin selection /\ "public" \in selection /\ HasPublicKey(k)
    THEN key[k].pub.of ELSE None

\* awskms_keymgmt_dup of a key pair shares the key.
DupPair(p, q, selection) ==
    LET k == pkey[p].key
    IN  /\ pkey[p] # None /\ pkey[q] = None
        /\ {"private", "public"} \subseteq selection
        /\ Has(k, selection)
        /\ key' = UpRef(k)
        /\ pkey' = [pkey EXCEPT ![q] = [key |-> k, has |-> selection,
                                       original |-> pkey[p].original]]
        /\ UNCHANGED loader

\* (slip) the copy does not take over the requirement
PublicCopyWithoutFips(k) ==
    [NewKey(FALSE) EXCEPT !.spec = key[k].spec, !.pub = key[k].pub]

\* dup_public_key, dup_domain_parameters and new_subset_key: a key of its own,
\* without the reference to KMS
PublicCopy(k) ==
    [NewKey(key[k].fips) EXCEPT !.spec = key[k].spec, !.pub = key[k].pub]
Subset(k) == [NewKey(key[k].fips) EXCEPT !.spec = key[k].spec]
DomainCopy(k) ==
    [Subset(k) EXCEPT !.pub = [key[k].pub EXCEPT !.of = None, !.point = FALSE]]

Part(k, selection) ==
    IF "public" \in selection THEN PublicCopy(k)
    ELSE IF "domain" \in selection /\ key[k].spec \in EcSpecs THEN DomainCopy(k)
    ELSE Subset(k)

\* awskms_keymgmt_dup of anything less
DupPart(p, q, new, selection) ==
    LET k == pkey[p].key
    IN  /\ pkey[p] # None /\ pkey[q] = None /\ key[new] = None
        /\ "private" \notin selection
        /\ Has(k, selection)
        /\ key' = [key EXCEPT ![new] = Part(k, selection)]
        /\ pkey' = [pkey EXCEPT ![q] = [key |-> new, has |-> selection,
                                       original |-> pkey[p].original]]
        /\ UNCHANGED loader

\* awskms_keymgmt_free
Free(p) ==
    /\ pkey[p] # None
    /\ key' = Released(pkey[p].key)
    /\ pkey' = [pkey EXCEPT ![p] = None]
    /\ UNCHANGED loader

Next ==
    \/ \E l \in Loaders, k \in Keys, default \in BOOLEAN : Open(l, k, default)
    \/ \E l \in Loaders, expect \in {"any", "other"}, fips \in BOOLEAN :
          SetCtxParams(l, expect, fips)
    \/ \E l \in Loaders : LoadUnexpected(l)
    \/ \E l \in Loaders : LoadBegin(l)
    \/ \E l \in Loaders : FetchFails(l)
    \/ \E l \in Loaders, m \in Materials : FetchSucceeds(l, m)
    \/ \E l \in Loaders : Offer(l)
    \/ \E l \in Loaders : Close(l)
    \/ \E p, q \in PKeys, selection \in SUBSET Selections :
          \/ DupPair(p, q, selection)
          \/ \E new \in Keys : DupPart(p, q, new, selection)
    \/ \E p \in PKeys : Free(p)

Spec == Init /\ [][Next]_vars

-----------------------------------------------------------------------------
(***************************************************************************)
(* Properties                                                              *)
(***************************************************************************)
\* The types of the three tables.
TypeOK ==
    /\ key \in [Keys -> KeyType \cup {None}]
    /\ loader \in [Loaders -> LoaderType \cup {None}]
    /\ pkey \in [PKeys -> PKeyType \cup {None}]

Holders(k) ==
    {l \in Loaders : loader[l] # None /\ loader[l].key = k} \cup
    {p \in PKeys : pkey[p] # None /\ pkey[p].key = k}

\* awskms_key_up_ref and awskms_key_free: a key has as many references as
\* holders, so that none is destroyed under a holder and none outlives them.
RefsExact ==
    \A k \in Keys :
        /\ key[k] = None => Holders(k) = {}
        /\ key[k] # None => key[k].refs > 0 /\ Cardinality(Holders(k)) = key[k].refs

\* Once FIPS was asked for, by the defaults or by the properties given to the
\* store, the key says so, and the request to KMS, the parsing of its answer
\* and every copy of the key are under FIPS.
FipsKept ==
    /\ \A l \in Loaders : loader[l] # None =>
        /\ loader[l].wants = key[loader[l].key].fips
        /\ loader[l].load # None => loader[l].load.fips = loader[l].wants
    /\ \A k \in Keys : key[k] # None /\ key[k].pub # None =>
        key[k].pub.fips = key[k].fips

\* What an EVP_PKEY was loaded or copied for it has and EVP_PKEY_check finds
\* there, whatever failed on the way: a private key the public key and the
\* identifier that signing needs, and all of it under FIPS once FIPS was asked
\* for.  And a copy made for less has no reference to KMS it could sign with.
PublishedComplete ==
    /\ \A p \in PKeys : pkey[p] # None =>
        /\ Validates(pkey[p].key, pkey[p].has)
        /\ "private" \in pkey[p].has => HasPublicKey(pkey[p].key)
        /\ "private" \notin pkey[p].has => ~ key[pkey[p].key].uri
    /\ FipsKept

\* "A KMS public key uniquely identifies its opaque private half" (keymgmt.c):
\* what two EVP_PKEYs both have matches, and is exported alike, exactly if they
\* go back to one key at KMS, by whatever loads, repointed aliases and copies.
MatchIsSameKey ==
    \A p, q \in PKeys : pkey[p] # None /\ pkey[q] # None =>
        \A selection \in SUBSET (pkey[p].has \cap pkey[q].has) :
            LET a == pkey[p].key
                b == pkey[q].key
                same == pkey[p].original = pkey[q].original
            IN  /\ same => /\ Match(a, b, selection)
                           /\ Export(a, selection) = Export(b, selection)
                /\ selection \cap {"private", "public"} # {} /\ ~ same =>
                      ~ Match(a, b, selection)

\* key.h: "Immutable once built".  While an EVP_PKEY has a key, nothing of it
\* but the reference count changes.
PublishedImmutable ==
    [][\A p \in PKeys :
        pkey[p] # None /\ pkey'[p] = pkey[p] =>
            LET k == pkey[p].key
            IN  key'[k] = [key[k] EXCEPT !.refs = key'[k].refs]]_vars
===============================================================================
