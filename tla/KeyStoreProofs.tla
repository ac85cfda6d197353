---------------------------- MODULE KeyStoreProofs ----------------------------
(***************************************************************************)
(* Proofs about KeyStore for any number of keys, loaders and EVP_PKEYs and *)
(* any public keys: a key has as many references as holders, is complete   *)
(* and under FIPS as asked for when it is published, does not change from  *)
(* then on, and matches the keys that are the same at KMS.                 *)
(***************************************************************************)
EXTENDS KeyStore, FiniteSetTheorems, TLAPS

\* The references of a key are its holders.
Counted(k) ==
    /\ IsFiniteSet(Holders(k))
    /\ key[k] = None => Holders(k) = {}
    /\ key[k] # None => key[k].refs > 0 /\ Cardinality(Holders(k)) = key[k].refs

\* What is in memory of a key was parsed as the key demands.
UnderFips(k) ==
    key[k] # None /\ key[k].pub # None => key[k].pub.fips = key[k].fips

\* The key of a loader is its own, has its identifier and the requirement it was
\* given, and either nothing of the answer of KMS or all of it.
Building(l) ==
    LET x == loader[l]
        k == key[x.key]
    IN  x # None =>
        /\ k # None /\ k.uri
        /\ x.wants = k.fips
        /\ x.load # None => x.load.fips = x.wants /\ x.requests > 0
        /\ k.spec = None => k.pub = None
        /\ k.spec # None =>
              /\ k.pub # None /\ k.pub.point /\ k.pub.of # None
              /\ k.spec = SpecOf[k.pub.of]
              /\ x.requests > 0
        /\ \A m \in Loaders :
              loader[m] # None /\ loader[m].key = x.key => m = l

\* The key of an EVP_PKEY has what the EVP_PKEY was made to have, of the key at
\* KMS it goes back to.
Complete(p) ==
    LET y == pkey[p]
        k == key[y.key]
    IN  y # None =>
        /\ k # None /\ k.spec = SpecOf[y.original]
        /\ k.pub # None /\ k.pub.point => k.pub.of = y.original
        /\ "public" \in y.has \/ "private" \in y.has => k.pub # None /\ k.pub.point
        /\ "domain" \in y.has /\ k.spec \in EcSpecs => k.pub # None
        /\ "private" \in y.has <=> k.uri

StoreInv ==
    /\ TypeOK
    /\ \A k \in Keys : Counted(k)
    /\ \A k \in Keys : UnderFips(k)
    /\ \A l \in Loaders : Building(l)
    /\ \A p \in PKeys : Complete(p)

-----------------------------------------------------------------------------
(***************************************************************************)
(* What a step does to a key                                               *)
(***************************************************************************)

\* Key k stays as it is, except for its references.
Kept(k) ==
    /\ key[k] # None /\ key'[k] # None
    /\ key'[k].fips = key[k].fips /\ key'[k].uri = key[k].uri
    /\ key'[k].spec = key[k].spec /\ key'[k].pub = key[k].pub
    /\ key'[k] = [key[k] EXCEPT !.refs = key'[k].refs]

OthersSame(k) == \A j \in Keys \ {k} : key'[j] = key[j]

KeysTyped == key \in [Keys -> KeyType \cup {None}]

\* A key but for its count
LEMMA Counting ==
    ASSUME NEW x \in KeyType, NEW n \in Nat
    PROVE  /\ x # None /\ x.refs \in Nat
           /\ [x EXCEPT !.refs = n] \in KeyType
           /\ [x EXCEPT !.refs = n].refs = n
           /\ [x EXCEPT !.refs = n].fips = x.fips
           /\ [x EXCEPT !.refs = n].uri = x.uri
           /\ [x EXCEPT !.refs = n].spec = x.spec
           /\ [x EXCEPT !.refs = n].pub = x.pub
BY NoneAssumption DEF KeyType

\* awskms_key_up_ref touches the count of one key.
LEMMA UpRefEffect ==
    ASSUME KeysTyped, NEW k \in Keys, key[k] # None, key' = UpRef(k)
    PROVE  /\ KeysTyped' /\ Kept(k) /\ OthersSame(k)
           /\ key'[k].refs = key[k].refs + 1
<1>1. key[k] \in KeyType /\ key[k].refs + 1 \in Nat
  BY DEF KeysTyped, KeyType
<1>2. key'[k] = [key[k] EXCEPT !.refs = key[k].refs + 1]
  BY DEF UpRef, KeysTyped
<1>3. key'[k] \in KeyType /\ key'[k] # None /\ key'[k].refs = key[k].refs + 1
  BY <1>1, <1>2, Counting
<1>4. Kept(k)
  BY <1>1, <1>2, <1>3, Counting DEF Kept
<1>5. OthersSame(k) /\ KeysTyped'
  BY <1>3 DEF UpRef, KeysTyped, OthersSame
<1>6. QED
  BY <1>3, <1>4, <1>5

\* awskms_key_free: the last reference frees the key, another is counted down.
LEMMA ReleasedEffect ==
    ASSUME KeysTyped, NEW k \in Keys, key[k] # None, key[k].refs > 0,
           key' = Released(k)
    PROVE  /\ KeysTyped' /\ OthersSame(k)
           /\ key[k].refs = 1 => key'[k] = None
           /\ key[k].refs # 1 => Kept(k) /\ key'[k].refs = key[k].refs - 1
<1>1. key[k] \in KeyType /\ key[k].refs - 1 \in Nat
  BY DEF KeysTyped, KeyType
<1>2. key'[k] = IF key[k].refs = 1 THEN None
                ELSE [key[k] EXCEPT !.refs = key[k].refs - 1]
  BY DEF Released, KeysTyped
<1>3. CASE key[k].refs = 1
  BY <1>2, <1>3 DEF Released, KeysTyped, OthersSame
<1>4. CASE key[k].refs # 1
  <2>1. key'[k] \in KeyType /\ key'[k] # None /\ key'[k].refs = key[k].refs - 1
    BY <1>1, <1>2, <1>4, Counting
  <2>2. Kept(k)
    BY <1>1, <1>2, <1>4, <2>1, Counting DEF Kept
  <2>3. OthersSame(k) /\ KeysTyped'
    BY <2>1 DEF Released, KeysTyped, OthersSame
  <2>4. QED
    BY <1>4, <2>1, <2>2, <2>3
<1>5. QED
  BY <1>3, <1>4

-----------------------------------------------------------------------------
(***************************************************************************)
(* What a step leaves alone                                                *)
(***************************************************************************)
KeptOrSame(k) == key'[k] = key[k] \/ Kept(k)

\* A key keeps what FIPS asks of it while its fields are kept.
LEMMA UnderFipsKept ==
    ASSUME NEW k \in Keys, UnderFips(k), KeptOrSame(k) \/ key'[k] = None
    PROVE  UnderFips(k)'
<1>1. CASE key'[k] = key[k]
  BY <1>1 DEF UnderFips
<1>2. CASE Kept(k)
  BY <1>2 DEF UnderFips, Kept
<1>3. CASE key'[k] = None
  BY <1>3 DEF UnderFips
<1>4. QED
  BY <1>1, <1>2, <1>3 DEF KeptOrSame

\* An EVP_PKEY stays complete while its key is kept.
LEMMA CompleteKept ==
    ASSUME NEW p \in PKeys, Complete(p), pkey'[p] = pkey[p],
           pkey[p] # None => KeptOrSame(pkey[p].key)
    PROVE  Complete(p)'
BY DEF Complete, KeptOrSame, Kept

\* A loader goes on building its own key while nobody else takes it.
LEMMA BuildingKept ==
    ASSUME NEW l \in Loaders, Building(l), loader'[l] = loader[l],
           loader[l] # None => KeptOrSame(loader[l].key),
           \A m \in Loaders :
              loader'[m] # None => \/ loader[m] # None /\ loader'[m].key = loader[m].key
                                  \/ loader[l] = None \/ loader'[m].key # loader[l].key
    PROVE  Building(l)'
BY DEF Building, KeptOrSame, Kept

\* The holders of a key are those of before when the loaders and the EVP_PKEYs
\* that held it do, and no others.
LEMMA HoldersSame ==
    ASSUME NEW k,
           \A l \in Loaders :
              loader'[l] # None /\ loader'[l].key = k <=>
              loader[l] # None /\ loader[l].key = k,
           \A p \in PKeys :
              pkey'[p] # None /\ pkey'[p].key = k <=>
              pkey[p] # None /\ pkey[p].key = k
    PROVE  Holders(k)' = Holders(k)
BY DEF Holders

\* A count stays right while the holders are the same.
LEMMA CountedSame ==
    ASSUME NEW k, Counted(k), Holders(k)' = Holders(k),
           key'[k] # None <=> key[k] # None, key'[k].refs = key[k].refs
    PROVE  Counted(k)'
BY DEF Counted

\* A key gets another holder, ...
LEMMA OneHolderMore ==
    ASSUME NEW k, NEW h, Counted(k), h \notin Holders(k),
           Holders(k)' = Holders(k) \cup {h},
           key[k] # None, key'[k] # None, key[k].refs \in Nat,
           key'[k].refs = key[k].refs + 1
    PROVE  Counted(k)'
BY FS_AddElement DEF Counted

\* ... its first one, ...
LEMMA FirstHolder ==
    ASSUME NEW k, NEW h, key'[k] # None, key'[k].refs = 1, Holders(k)' = {h}
    PROVE  Counted(k)'
<1>1. IsFiniteSet({h}) /\ Cardinality({h}) = 1
  BY FS_Singleton
<1>2. QED
  BY <1>1 DEF Counted

\* ... or loses one; the last takes the key with it.
LEMMA OneHolderLess ==
    ASSUME NEW k, NEW h, Counted(k), h \in Holders(k),
           Holders(k)' = Holders(k) \ {h}, key[k] # None, key[k].refs \in Nat,
           key[k].refs = 1 => key'[k] = None,
           key[k].refs # 1 => key'[k] # None /\ key'[k].refs = key[k].refs - 1
    PROVE  Counted(k)'
<1>1. /\ IsFiniteSet(Holders(k)')
      /\ Cardinality(Holders(k)') = Cardinality(Holders(k)) - 1
  BY FS_RemoveElement DEF Counted
<1>2. CASE key[k].refs = 1
  BY <1>1, <1>2, FS_EmptySet DEF Counted
<1>3. CASE key[k].refs # 1
  BY <1>1, <1>3 DEF Counted
<1>4. QED
  BY <1>2, <1>3

\* A key with two holders has two references.
LEMMA TwoHolders ==
    ASSUME NEW k, NEW g, NEW h, g # h, Counted(k), g \in Holders(k), h \in Holders(k),
           key[k] # None, key[k].refs \in Nat
    PROVE  key[k].refs # 1
BY FS_Singleton DEF Counted

-----------------------------------------------------------------------------
(***************************************************************************)
(* The steps of a loader                                                   *)
(***************************************************************************)
LoadersTyped == loader \in [Loaders -> LoaderType \cup {None}]
PKeysTyped == pkey \in [PKeys -> PKeyType \cup {None}]

OtherLoadersSame(l) == \A m \in Loaders \ {l} : loader'[m] = loader[m]

\* A loader keeps its key, and goes on.
Advances(l) ==
    /\ loader[l] # None /\ loader'[l] # None
    /\ loader'[l].key = loader[l].key
    /\ loader'[l].requests >= loader[l].requests
    /\ loader'[l].load # None =>
          loader'[l].load.fips = loader'[l].wants /\ loader'[l].requests > 0
    /\ OtherLoadersSame(l)

\* The fields of a loader in use
LEMMA LoaderFields ==
    ASSUME NEW x \in LoaderType
    PROVE  /\ x # None /\ x.key \in Keys /\ x.requests \in Nat
           /\ x.load = None \/ x.load \in LoadType
BY NoneAssumption DEF LoaderType

\* A loader that advances keeps what it is building, whoever takes a key.
LEMMA BuildingGoesOn ==
    ASSUME StoreInv, NEW l \in Loaders, LoadersTyped', Advances(l),
           loader'[l].wants = loader[l].wants, \A j \in Keys : KeptOrSame(j)
    PROVE  \A m \in Loaders : Building(m)'
<1>1. ASSUME NEW m \in Loaders, loader[m] # None PROVE loader[m].key \in Keys
  BY <1>1, LoaderFields DEF StoreInv, TypeOK
<1>2. ASSUME NEW m \in Loaders PROVE Building(m)'
  <2>1. CASE m = l
    <3>1. loader[l].requests \in Nat /\ loader'[l].requests \in Nat
      BY LoaderFields DEF StoreInv, TypeOK, LoadersTyped, Advances
    <3>2. KeptOrSame(loader[l].key) /\ Building(l)
      BY <1>1 DEF StoreInv, Advances
    <3>3. /\ loader[l] # None /\ loader'[l] # None /\ loader'[l].key = loader[l].key
          /\ loader'[l].requests >= loader[l].requests
          /\ loader'[l].wants = loader[l].wants
          /\ loader'[l].load # None =>
                loader'[l].load.fips = loader[l].wants /\ loader'[l].requests > 0
          /\ \A n \in Loaders \ {l} : loader'[n] = loader[n]
      BY <3>1 DEF Building, Advances, OtherLoadersSame, StoreInv
    <3>4. PICK k : k = loader[l].key
      OBVIOUS
    <3>5. /\ key[k] # None => key'[k] # None
          /\ key'[k].fips = key[k].fips /\ key'[k].uri = key[k].uri
          /\ key'[k].spec = key[k].spec /\ key'[k].pub = key[k].pub
      BY <3>2, <3>4 DEF KeptOrSame, Kept
    <3>6. /\ key[k] # None /\ key[k].uri /\ loader[l].wants = key[k].fips
          /\ key[k].spec = None => key[k].pub = None
          /\ key[k].spec # None =>
                /\ key[k].pub # None /\ key[k].pub.point /\ key[k].pub.of # None
                /\ key[k].spec = SpecOf[key[k].pub.of] /\ loader[l].requests > 0
          /\ \A n \in Loaders : loader[n] # None /\ loader[n].key = k => n = l
      BY <3>2, <3>3, <3>4 DEF Building
    <3>7. PICK x : x = loader'[l]
      OBVIOUS
    <3>8. /\ x # None /\ x.key = k /\ x.wants = loader[l].wants
          /\ x.load # None => x.load.fips = x.wants /\ x.requests > 0
      BY <3>3, <3>4, <3>7
    <3>9. /\ key[k].spec # None => x.requests > 0
          /\ \A n \in Loaders : loader'[n] # None /\ loader'[n].key = k => n = l
      BY <3>1, <3>3, <3>6, <3>7
    <3>10. Building(l)'
      BY ONLY <3>5, <3>6, <3>7, <3>8, <3>9 DEF Building
    <3>11. QED
      BY <2>1, <3>10
  <2>2. CASE m # l
    BY <1>1, <2>2, BuildingKept DEF StoreInv, Advances, OtherLoadersSame
  <2>3. QED
    BY <2>1, <2>2
<1>3. QED
  BY <1>2

\* While a loader advances and the keys stay as they are, nothing else moves.
LEMMA Advance ==
    ASSUME StoreInv, NEW l \in Loaders, LoadersTyped', Advances(l),
           loader'[l].wants = loader[l].wants, UNCHANGED <<key, pkey>>
    PROVE  StoreInv'
<1>1. TypeOK'
  BY DEF StoreInv, TypeOK, LoadersTyped
<1>2. ASSUME NEW k \in Keys PROVE Counted(k)' /\ UnderFips(k)'
  <2>1. Holders(k)' = Holders(k)
    BY HoldersSame DEF Advances, OtherLoadersSame
  <2>2. QED
    BY <2>1 DEF StoreInv, Counted, UnderFips
<1>3. \A m \in Loaders : Building(m)'
  <2>1. \A j \in Keys : KeptOrSame(j)
    BY DEF KeptOrSame
  <2>2. QED
    BY <2>1, BuildingGoesOn
<1>4. ASSUME NEW p \in PKeys PROVE Complete(p)'
  BY CompleteKept DEF StoreInv, KeptOrSame
<1>5. QED
  BY <1>1, <1>2, <1>3, <1>4 DEF StoreInv

\* awskms_store_load of something the caller did not expect
LEMMA LoadUnexpectedStep ==
    ASSUME StoreInv, NEW l \in Loaders, LoadUnexpected(l)
    PROVE  StoreInv'
<1> DEFINE x == loader[l]
<1>1. x \in LoaderType /\ x.load = None
  BY DEF LoadUnexpected, Idle, StoreInv, TypeOK
<1>2. loader'[l] = [x EXCEPT !.emitted = TRUE] /\ OtherLoadersSame(l)
  BY DEF LoadUnexpected, StoreInv, TypeOK, OtherLoadersSame
<1>3. [x EXCEPT !.emitted = TRUE] \in LoaderType
  BY <1>1 DEF LoaderType
<1>4. LoadersTyped'
  BY <1>2, <1>3 DEF LoadUnexpected, StoreInv, TypeOK, LoadersTyped
<1>5. Advances(l) /\ loader'[l].wants = x.wants
  <2>1. /\ loader'[l].key = x.key /\ loader'[l].requests = x.requests
        /\ loader'[l].load = x.load /\ loader'[l].wants = x.wants
    BY <1>1, <1>2 DEF LoaderType
  <2>2. x # None /\ loader'[l] # None /\ x.requests \in Nat
    BY <1>1, <1>2, <1>3, LoaderFields
  <2>3. QED
    BY <1>1, <1>2, <2>1, <2>2 DEF Advances
<1>6. QED
  BY <1>4, <1>5, Advance DEF LoadUnexpected

\* awskms_store_load begins.
LEMMA LoadBeginStep ==
    ASSUME StoreInv, NEW l \in Loaders, LoadBegin(l)
    PROVE  StoreInv'
<1> DEFINE x == loader[l]
           n == IF key[x.key].spec # None THEN x.requests ELSE x.requests + 1
           f == [fips |-> key[x.key].fips]
<1>1. x \in LoaderType /\ x.load = None /\ x # None
  BY DEF LoadBegin, Idle, StoreInv, TypeOK
<1>2. x.key \in Keys /\ n \in Nat /\ n >= x.requests
  BY <1>1 DEF LoaderType
<1>3. key[x.key] # None /\ key[x.key].fips = x.wants /\ n > 0
  <2>1. Building(l)
    BY DEF StoreInv
  <2>2. /\ key[x.key] # None /\ key[x.key].fips = x.wants
        /\ key[x.key].spec # None => x.requests > 0
    BY <1>1, <2>1 DEF Building
  <2>3. x.requests \in Nat
    BY <1>1, LoaderFields
  <2>4. QED
    BY <2>2, <2>3
<1>4. f \in LoadType /\ f.fips = x.wants
  <2>1. x.wants \in BOOLEAN
    BY <1>1 DEF LoaderType
  <2>2. f = [fips |-> x.wants]
    BY <1>3
  <2>3. QED
    BY <2>1, <2>2 DEF LoadType
<1>5. loader' = [loader EXCEPT ![l].requests = n, ![l].load = f]
  BY DEF LoadBegin
<1>6. UNCHANGED <<key, pkey>>
  BY DEF LoadBegin
<1> HIDE DEF n, f
<1>7. loader'[l] = [x EXCEPT !.requests = n, !.load = f] /\ OtherLoadersSame(l)
  BY <1>5 DEF StoreInv, TypeOK, OtherLoadersSame
<1>8. loader'[l] \in LoaderType
  BY <1>1, <1>2, <1>4, <1>7 DEF LoaderType
<1>9. LoadersTyped'
  BY <1>5, <1>8 DEF StoreInv, TypeOK, LoadersTyped
<1>10. Advances(l) /\ loader'[l].wants = x.wants
  BY <1>1, <1>2, <1>3, <1>4, <1>7, <1>8, LoaderFields DEF Advances, LoaderType
<1>11. QED
  BY <1>6, <1>9, <1>10, Advance

\* A load without an answer leaves the key as it was.
LEMMA FetchFailsStep ==
    ASSUME StoreInv, NEW l \in Loaders, FetchFails(l)
    PROVE  StoreInv'
<1> DEFINE x == loader[l]
<1>1. x \in LoaderType
  BY DEF FetchFails, Loading, StoreInv, TypeOK
<1>2. loader'[l] = [x EXCEPT !.load = None] /\ OtherLoadersSame(l)
  BY DEF FetchFails, StoreInv, TypeOK, OtherLoadersSame
<1>3. [x EXCEPT !.load = None] \in LoaderType
  BY <1>1 DEF LoaderType
<1>4. LoadersTyped'
  BY <1>2, <1>3 DEF FetchFails, StoreInv, TypeOK, LoadersTyped
<1>5. Advances(l) /\ loader'[l].wants = x.wants
  BY <1>1, <1>2, <1>3, LoaderFields DEF Advances, LoaderType
<1>6. QED
  BY <1>4, <1>5, Advance DEF FetchFails

\* A key that is not loaded yet has one holder, its loader, which may do with it
\* what it likes.
LEMMA NotPublished ==
    ASSUME StoreInv, NEW l \in Loaders, loader[l] # None,
           key[loader[l].key].spec = None
    PROVE  /\ loader[l].key \in Keys
           /\ \A p \in PKeys : pkey[p] # None => pkey[p].key # loader[l].key
           /\ \A m \in Loaders :
                 loader[m] # None /\ loader[m].key = loader[l].key => m = l
<1>1. loader[l].key \in Keys
  BY LoaderFields DEF StoreInv, TypeOK
<1>2. ASSUME NEW p \in PKeys, pkey[p] # None
      PROVE  pkey[p].key # loader[l].key
  <2>1. pkey[p].original \in Materials
    BY <1>2 DEF StoreInv, TypeOK, PKeyType
  <2>2. SpecOf[pkey[p].original] # None
    BY <2>1, NoneAssumption DEF Specs
  <2>3. QED
    BY <1>2, <2>2 DEF StoreInv, Complete
<1>3. QED
  BY <1>1, <1>2 DEF StoreInv, Building

\* A loader changes its own key, which nobody else holds yet.
LEMMA OwnKeyChanges ==
    ASSUME StoreInv, NEW l \in Loaders, loader[l] # None,
           key[loader[l].key].spec = None,
           LoadersTyped', KeysTyped', UNCHANGED pkey,
           loader'[l] # None, loader'[l].key = loader[l].key,
           OtherLoadersSame(l), OthersSame(loader[l].key),
           key'[loader[l].key] # None,
           key'[loader[l].key].refs = key[loader[l].key].refs,
           UnderFips(loader[l].key)', Building(l)'
    PROVE  StoreInv'
<1> DEFINE own == loader[l].key
<1>1. TypeOK'
  BY DEF StoreInv, TypeOK, LoadersTyped, KeysTyped
<1>2. key[own] # None
  BY DEF StoreInv, Building
<1>3. ASSUME NEW k \in Keys PROVE Counted(k)'
  <2>1. Holders(k)' = Holders(k)
    BY HoldersSame DEF OtherLoadersSame
  <2>2. QED
    BY <1>2, <2>1, CountedSame DEF StoreInv, OthersSame
<1>4. ASSUME NEW k \in Keys PROVE UnderFips(k)'
  BY UnderFipsKept DEF StoreInv, OthersSame, KeptOrSame
<1>5. ASSUME NEW m \in Loaders PROVE Building(m)'
  <2>1. CASE m # l
    <3>1. loader[m] # None => loader[m].key \in Keys /\ loader[m].key # own
      BY <2>1, NotPublished, LoaderFields DEF StoreInv, TypeOK
    <3>2. loader[m] # None => KeptOrSame(loader[m].key)
      BY <3>1 DEF OthersSame, KeptOrSame
    <3>3. QED
      BY <2>1, <3>2, BuildingKept DEF StoreInv, OtherLoadersSame
  <2>2. QED
    BY <2>1
<1>6. ASSUME NEW p \in PKeys PROVE Complete(p)'
  <2>1. pkey[p] # None => pkey[p].key \in Keys
    BY DEF StoreInv, TypeOK, PKeyType
  <2>2. pkey[p] # None => KeptOrSame(pkey[p].key)
    BY <2>1, NotPublished DEF OthersSame, KeptOrSame
  <2>3. QED
    BY <2>2, CompleteKept DEF StoreInv
<1>7. QED
  BY <1>1, <1>3, <1>4, <1>5, <1>6 DEF StoreInv

\* awskms_store_set_ctx_params
LEMMA SetCtxParamsStep ==
    ASSUME StoreInv, NEW l \in Loaders, NEW expect \in {"any", "other"},
           NEW fips \in BOOLEAN, SetCtxParams(l, expect, fips)
    PROVE  StoreInv'
<1> DEFINE x == loader[l]
           own == loader[l].key
           w == x.wants \/ fips
<1>1. /\ x \in LoaderType /\ x # None /\ x.load = None /\ x.requests = 0
      /\ own \in Keys /\ key[own] \in KeyType /\ key[own] # None
  BY LoaderFields DEF SetCtxParams, Idle, StoreInv, TypeOK, Building
<1>2. loader' = [loader EXCEPT ![l].expect = expect, ![l].wants = w]
  BY DEF SetCtxParams
<1>3. w \in BOOLEAN
  OBVIOUS
<1> HIDE DEF w
<1>4. loader'[l] = [x EXCEPT !.expect = expect, !.wants = w] /\ OtherLoadersSame(l)
  BY <1>2 DEF StoreInv, TypeOK, OtherLoadersSame
<1>5. /\ loader'[l] \in LoaderType
      /\ loader'[l].key = own /\ loader'[l].requests = x.requests
      /\ loader'[l].load = x.load /\ loader'[l].wants = w
  BY <1>1, <1>3, <1>4 DEF LoaderType
<1>6. LoadersTyped'
  BY <1>2, <1>5 DEF StoreInv, TypeOK, LoadersTyped
<1>7. CASE ~ fips
  <2>1. w = x.wants
    BY <1>1, <1>7 DEF w, LoaderType
  <2>2. Advances(l)
    BY <1>1, <1>4, <1>5, LoaderFields DEF Advances
  <2>3. QED
    BY <1>5, <1>6, <1>7, <2>1, <2>2, Advance DEF SetCtxParams
<1>8. CASE fips
  <2>1. w = TRUE
    BY <1>8 DEF w
  <2>2. key[own].spec = None /\ key[own].pub = None /\ key[own].uri
    BY <1>1 DEF StoreInv, Building
  <2>3. key' = [key EXCEPT ![own].fips = TRUE] /\ UNCHANGED pkey
    BY <1>8 DEF SetCtxParams
  <2>4. key'[own] = [key[own] EXCEPT !.fips = TRUE] /\ OthersSame(own)
    BY <1>1, <2>3 DEF StoreInv, TypeOK, OthersSame
  <2>5. /\ key'[own] \in KeyType
        /\ key'[own].refs = key[own].refs /\ key'[own].fips = TRUE
        /\ key'[own].uri /\ key'[own].spec = None /\ key'[own].pub = None
    BY <1>1, <2>2, <2>4 DEF KeyType
  <2>6. KeysTyped'
    BY <2>3, <2>5 DEF StoreInv, TypeOK, KeysTyped
  <2>7. key'[own] # None /\ loader'[l] # None
    BY <1>5, <2>5, NoneAssumption
  <2>8. UnderFips(own)'
    BY <1>5, <2>5 DEF UnderFips
  <2>9. Building(l)'
    <3>1. \A m \in Loaders : loader'[m] # None /\ loader'[m].key = own => m = l
      BY <1>1, <1>4, <2>2, NotPublished DEF OtherLoadersSame
    <3>2. loader'[l].wants = key'[own].fips
      BY <1>5, <2>1, <2>5
    <3>3. QED
      BY <1>1, <1>5, <2>5, <2>7, <3>1, <3>2 DEF Building
  <2>10. QED
    BY <1>1, <1>4, <1>5, <1>6, <2>2, <2>3, <2>4, <2>5, <2>6, <2>7, <2>8, <2>9,
       OwnKeyChanges
<1>9. QED
  BY <1>7, <1>8

\* The key gets the public key that was answered.
LEMMA FetchSucceedsStep ==
    ASSUME StoreInv, NEW l \in Loaders, NEW m \in Materials, FetchSucceeds(l, m)
    PROVE  StoreInv'
<1> DEFINE x == loader[l]
           own == loader[l].key
           pub == [of |-> m, point |-> TRUE, fips |-> key[own].fips]
<1>1. /\ x \in LoaderType /\ x # None /\ own \in Keys
      /\ key[own] \in KeyType /\ key[own] # None /\ key[own].uri
      /\ key[own].spec = None /\ x.requests > 0
  BY LoaderFields DEF FetchSucceeds, Loading, StoreInv, TypeOK, Building
<1>2. pub \in Pubs /\ pub # None /\ SpecOf[m] \in Specs /\ SpecOf[m] # None
  <2>1. key[own].fips \in BOOLEAN
    BY <1>1 DEF KeyType
  <2>2. pub \in Pubs
    BY <2>1 DEF Pubs
  <2>3. SpecOf[m] \in Specs
    BY DEF Specs
  <2>4. QED
    BY <2>2, <2>3, NoneAssumption
<1>3. pub.of = m /\ pub.point /\ pub.fips = key[own].fips /\ m # None
  BY NoneAssumption
<1>4. key' = [key EXCEPT ![own].spec = SpecOf[m], ![own].pub = pub]
  BY DEF FetchSucceeds
<1>5. UNCHANGED <<loader, pkey>>
  BY DEF FetchSucceeds
<1> HIDE DEF pub
<1>6. /\ key'[own] = [key[own] EXCEPT !.spec = SpecOf[m], !.pub = pub]
      /\ OthersSame(own)
  BY <1>1, <1>4 DEF StoreInv, TypeOK, OthersSame
<1>7. /\ key'[own] \in KeyType
      /\ key'[own].refs = key[own].refs /\ key'[own].fips = key[own].fips
      /\ key'[own].uri = key[own].uri
      /\ key'[own].spec = SpecOf[m] /\ key'[own].pub = pub
  BY <1>1, <1>2, <1>6 DEF KeyType
<1>8. KeysTyped' /\ LoadersTyped'
  BY <1>4, <1>5, <1>7 DEF StoreInv, TypeOK, KeysTyped, LoadersTyped
<1>9. key'[own] # None
  BY <1>7, NoneAssumption
<1>10. UnderFips(own)'
  BY <1>3, <1>5, <1>7 DEF UnderFips
<1>11. Building(l)'
  BY <1>1, <1>2, <1>3, <1>5, <1>7, <1>9 DEF StoreInv, Building
<1>12. QED
  BY <1>1, <1>5, <1>6, <1>7, <1>8, <1>9, <1>10, <1>11, OwnKeyChanges
     DEF OtherLoadersSame

\* awskms_store_open makes a key with a reference for the loader.
LEMMA OpenStep ==
    ASSUME StoreInv, NEW l \in Loaders, NEW own \in Keys, NEW default \in BOOLEAN,
           Open(l, own, default)
    PROVE  StoreInv'
<1> DEFINE k == [NewKey(default) EXCEPT !.uri = TRUE]
           x == [key |-> own, expect |-> "any", emitted |-> FALSE,
                 load |-> None, requests |-> 0, wants |-> default]
<1>1. k \in KeyType /\ x \in LoaderType
  BY DEF NewKey, KeyType, LoaderType
<1>2. k # None /\ x # None
  BY <1>1, NoneAssumption
<1>3. /\ k.refs = 1 /\ k.fips = default /\ k.uri /\ k.spec = None /\ k.pub = None
      /\ x.key = own /\ x.load = None /\ x.wants = default
  BY DEF NewKey
<1>4. /\ loader[l] = None /\ key[own] = None /\ UNCHANGED pkey
      /\ key' = [key EXCEPT ![own] = k] /\ loader' = [loader EXCEPT ![l] = x]
  BY DEF Open
<1> HIDE DEF k, x
<1>5. /\ key'[own] = k /\ OthersSame(own)
      /\ loader'[l] = x /\ OtherLoadersSame(l)
  BY <1>4 DEF StoreInv, TypeOK, OthersSame, OtherLoadersSame
<1>6. TypeOK'
  BY <1>1, <1>4 DEF StoreInv, TypeOK
<1>7. Holders(own) = {}
  BY <1>4 DEF StoreInv, Counted
<1>8. ASSUME NEW j \in Keys PROVE Counted(j)'
  <2>1. CASE j = own
    <3>1. Holders(own)' = {l}
      BY <1>2, <1>3, <1>4, <1>5, <1>7 DEF Holders, OtherLoadersSame
    <3>2. QED
      BY <1>2, <1>3, <1>5, <2>1, <3>1, FirstHolder
  <2>2. CASE j # own
    <3>1. Holders(j)' = Holders(j)
      BY <1>3, <1>4, <1>5, <2>2, HoldersSame DEF OtherLoadersSame
    <3>2. QED
      BY <1>5, <2>2, <3>1, CountedSame DEF StoreInv, OthersSame
  <2>3. QED
    BY <2>1, <2>2
<1>9. ASSUME NEW j \in Keys PROVE UnderFips(j)'
  <2>1. CASE j = own
    BY <1>3, <1>5, <2>1 DEF UnderFips
  <2>2. CASE j # own
    BY <1>5, <2>2, UnderFipsKept DEF StoreInv, OthersSame, KeptOrSame
  <2>3. QED
    BY <2>1, <2>2
<1>10. ASSUME NEW m \in Loaders PROVE Building(m)'
  <2>1. \A n \in Loaders : loader[n] # None => loader[n].key # own /\ loader[n].key \in Keys
    BY <1>4, LoaderFields DEF StoreInv, TypeOK, Building
  <2>2. CASE m = l
    BY <1>2, <1>3, <1>5, <2>1, <2>2 DEF Building, OtherLoadersSame
  <2>3. CASE m # l
    BY <1>3, <1>4, <1>5, <2>1, <2>3, BuildingKept
       DEF StoreInv, OtherLoadersSame, OthersSame, KeptOrSame
  <2>4. QED
    BY <2>2, <2>3
<1>11. ASSUME NEW p \in PKeys PROVE Complete(p)'
  <2>1. pkey[p] # None => pkey[p].key \in Keys /\ pkey[p].key # own
    BY <1>4 DEF StoreInv, TypeOK, PKeyType, Complete
  <2>2. QED
    BY <1>4, <1>5, <2>1, CompleteKept DEF StoreInv, OthersSame, KeptOrSame
<1>12. QED
  BY <1>6, <1>8, <1>9, <1>10, <1>11 DEF StoreInv

-----------------------------------------------------------------------------
(***************************************************************************)
(* The steps of a key manager                                              *)
(***************************************************************************)
LoadersHoldTheSame ==
    \A l \in Loaders : /\ loader'[l] # None <=> loader[l] # None
                       /\ loader[l] # None => loader'[l].key = loader[l].key

OtherPKeysSame(p) == \A q \in PKeys \ {p} : pkey'[q] = pkey[q]

\* An EVP_PKEY takes a key that others hold already.
LEMMA Taken ==
    ASSUME StoreInv, NEW p \in PKeys, NEW k \in Keys, NEW y \in PKeyType,
           pkey[p] = None, key[k] # None, y.key = k,
           key' = UpRef(k), pkey' = [pkey EXCEPT ![p] = y],
           LoadersHoldTheSame, Complete(p)'
    PROVE  /\ KeysTyped' /\ PKeysTyped' /\ \A j \in Keys : KeptOrSame(j)
           /\ \A j \in Keys : Counted(j)' /\ UnderFips(j)'
           /\ \A q \in PKeys : Complete(q)'
<1>1. KeysTyped' /\ Kept(k) /\ OthersSame(k) /\ key'[k].refs = key[k].refs + 1
  BY UpRefEffect DEF StoreInv, TypeOK, KeysTyped
<1>2. pkey'[p] = y /\ y # None /\ OtherPKeysSame(p) /\ PKeysTyped'
  BY NoneAssumption DEF StoreInv, TypeOK, PKeysTyped, OtherPKeysSame
<1>3. \A j \in Keys : KeptOrSame(j)
  BY <1>1 DEF KeptOrSame, OthersSame
<1>4. ASSUME NEW j \in Keys PROVE Counted(j)'
  <2>1. CASE j = k
    <3>1. p \notin Holders(k)
      BY HoldersAssumption DEF Holders
    <3>2. Holders(k)' = Holders(k) \cup {p}
      BY <1>2 DEF Holders, LoadersHoldTheSame, OtherPKeysSame
    <3>3. key[k].refs \in Nat /\ key'[k] # None
      BY <1>1 DEF StoreInv, TypeOK, KeyType, Kept
    <3>4. QED
      BY <1>1, <2>1, <3>1, <3>2, <3>3, OneHolderMore DEF StoreInv
  <2>2. CASE j # k
    <3>1. Holders(j)' = Holders(j)
      BY <1>2, <2>2, HoldersSame DEF LoadersHoldTheSame, OtherPKeysSame
    <3>2. QED
      BY <1>1, <2>2, <3>1, CountedSame DEF StoreInv, OthersSame
  <2>3. QED
    BY <2>1, <2>2
<1>5. ASSUME NEW j \in Keys PROVE UnderFips(j)'
  BY <1>3, UnderFipsKept DEF StoreInv
<1>6. ASSUME NEW q \in PKeys PROVE Complete(q)'
  <2>1. CASE q # p
    <3>1. pkey[q] # None => pkey[q].key \in Keys
      BY DEF StoreInv, TypeOK, PKeyType
    <3>2. QED
      BY <1>2, <1>3, <2>1, <3>1, CompleteKept DEF StoreInv, OtherPKeysSame
  <2>2. QED
    BY <2>1
<1>7. QED
  BY <1>1, <1>2, <1>3, <1>4, <1>5, <1>6

\* The object is offered, and an EVP_PKEY takes its own reference.
LEMMA OfferStep ==
    ASSUME StoreInv, NEW l \in Loaders, Offer(l)
    PROVE  StoreInv'
<1> DEFINE x == loader[l]
           own == loader[l].key
           y == [key |-> own, has |-> Selections, original |-> Original(own)]
<1>1. /\ x \in LoaderType /\ x # None /\ own \in Keys
      /\ key[own] \in KeyType /\ key[own] # None
      /\ key[own].uri /\ key[own].spec # None
      /\ key[own].pub # None /\ key[own].pub.point /\ key[own].pub.of # None
      /\ key[own].spec = SpecOf[key[own].pub.of] /\ x.requests > 0
  BY LoaderFields DEF Offer, Loading, StoreInv, TypeOK, Building
<1>2. loader' = [loader EXCEPT ![l].emitted = TRUE, ![l].load = None]
  BY DEF Offer
<1>3. loader'[l] = [x EXCEPT !.emitted = TRUE, !.load = None] /\ OtherLoadersSame(l)
  BY <1>2 DEF StoreInv, TypeOK, OtherLoadersSame
<1>4. /\ loader'[l] \in LoaderType /\ loader'[l].key = own
      /\ loader'[l].requests = x.requests /\ loader'[l].wants = x.wants
      /\ loader'[l].load = None
  BY <1>1, <1>3 DEF LoaderType
<1>5. LoadersTyped'
  BY <1>2, <1>4 DEF StoreInv, TypeOK, LoadersTyped
<1>6. Advances(l)
  BY <1>1, <1>3, <1>4, LoaderFields DEF Advances
<1>7. CASE UNCHANGED <<key, pkey>>
  BY <1>4, <1>5, <1>6, <1>7, Advance
<1>8. ASSUME NEW p \in PKeys, pkey[p] = None, pkey' = [pkey EXCEPT ![p] = y],
             key' = UpRef(own)
      PROVE  StoreInv'
  <2>1. key[own].pub \in Pubs /\ Original(own) = key[own].pub.of
    BY <1>1 DEF KeyType, Original
  <2>2. y \in PKeyType
    BY <1>1, <2>1 DEF PKeyType, Pubs, Selections
  <2>3. /\ y.key = own /\ y.original = key[own].pub.of /\ "private" \in y.has
    BY <2>1 DEF Selections
  <2> HIDE DEF y
  <2>4. LoadersHoldTheSame
    BY <1>3, <1>6 DEF LoadersHoldTheSame, Advances, OtherLoadersSame
  <2>5. Kept(own)
    BY <1>1, <1>8, UpRefEffect DEF StoreInv, TypeOK, KeysTyped
  <2>6. pkey'[p] = y
    BY <1>8 DEF StoreInv, TypeOK
  <2>7. Complete(p)'
    <3>1. PICK k \in Keys : k = own
      BY <1>1
    <3>2. /\ key'[k] # None /\ key'[k].uri = key[k].uri /\ key'[k].spec = key[k].spec
          /\ key'[k].pub = key[k].pub
      BY <2>5, <3>1 DEF Kept
    <3>3. PICK z : z = y
      OBVIOUS
    <3>4. /\ pkey'[p] = z /\ z.key = k /\ z.original = key[k].pub.of
          /\ "private" \in z.has
      BY <2>3, <2>6, <3>1, <3>3
    <3>5. /\ key[k].uri /\ key[k].pub # None /\ key[k].pub.point
          /\ key[k].spec = SpecOf[key[k].pub.of]
      BY <1>1, <3>1
    <3>6. QED
      BY ONLY <3>2, <3>4, <3>5 DEF Complete
  <2>8. /\ KeysTyped' /\ PKeysTyped' /\ \A j \in Keys : KeptOrSame(j)
        /\ \A j \in Keys : Counted(j)' /\ UnderFips(j)'
        /\ \A q \in PKeys : Complete(q)'
    <3>1. PICK taken \in PKeyType : taken = y
      BY <2>2
    <3>2. PICK k \in Keys : k = own
      BY <1>1
    <3>3. /\ pkey[p] = None /\ key[k] # None /\ taken.key = k
          /\ key' = UpRef(k) /\ pkey' = [pkey EXCEPT ![p] = taken]
      BY <1>1, <1>8, <2>3, <3>1, <3>2
    <3>4. StoreInv /\ p \in PKeys
      BY <1>8
    <3> HIDE DEF own
    <3>5. QED
      BY ONLY <2>4, <2>7, <3>1, <3>2, <3>3, <3>4, Taken
  <2>9. \A m \in Loaders : Building(m)'
    BY <1>4, <1>5, <1>6, <2>8, BuildingGoesOn
  <2>10. QED
    BY <1>5, <2>8, <2>9 DEF StoreInv, TypeOK, KeysTyped, LoadersTyped, PKeysTyped
<1>9. QED
  BY <1>7, <1>8 DEF Offer

\* Whatever happens to the keys, loaders that are left alone go on.
LEMMA BuildingAlone ==
    ASSUME StoreInv, UNCHANGED loader,
           \A l \in Loaders : loader[l] # None => KeptOrSame(loader[l].key)
    PROVE  \A l \in Loaders : Building(l)'
BY BuildingKept DEF StoreInv

\* awskms_keymgmt_dup of a pair shares the key.
LEMMA DupPairStep ==
    ASSUME StoreInv, NEW p \in PKeys, NEW q \in PKeys,
           NEW selection \in SUBSET Selections, DupPair(p, q, selection)
    PROVE  StoreInv'
<1> DEFINE k == pkey[p].key
           y == [key |-> k, has |-> selection, original |-> pkey[p].original]
<1>1. /\ pkey[p] \in PKeyType /\ k \in Keys /\ pkey[p].original \in Materials
      /\ pkey[p] # None /\ pkey[q] = None
      /\ key[k] # None /\ key[k] \in KeyType
  BY DEF DupPair, StoreInv, TypeOK, PKeyType, Complete
<1>2. /\ key' = UpRef(k) /\ pkey' = [pkey EXCEPT ![q] = y] /\ UNCHANGED loader
      /\ "private" \in selection /\ "public" \in selection /\ Has(k, selection)
  BY DEF DupPair
<1>3. y \in PKeyType /\ y.key = k /\ y.original = pkey[p].original /\ y.has = selection
  BY <1>1 DEF PKeyType
<1> HIDE DEF y
<1>4. Kept(k)
  BY <1>1, <1>2, UpRefEffect DEF StoreInv, TypeOK, KeysTyped
<1>5. pkey'[q] = y
  BY <1>2 DEF StoreInv, TypeOK
<1>6. key[k].pub # None /\ key[k].pub.point /\ key[k].uri
  BY <1>2 DEF Has, HasPublicKey
<1>7. Complete(q)'
  <2>1. /\ key'[k] # None /\ key'[k].uri /\ key'[k].spec = key[k].spec
        /\ key'[k].pub = key[k].pub
    BY <1>4, <1>6 DEF Kept
  <2>2. /\ key[k].spec = SpecOf[pkey[p].original]
        /\ key[k].pub.of = pkey[p].original
    BY <1>1, <1>6 DEF StoreInv, Complete
  <2>3. QED
    BY <1>2, <1>3, <1>5, <1>6, <2>1, <2>2 DEF Complete
<1>8. /\ KeysTyped' /\ PKeysTyped' /\ \A j \in Keys : KeptOrSame(j)
      /\ \A j \in Keys : Counted(j)' /\ UnderFips(j)'
      /\ \A r \in PKeys : Complete(r)'
  BY <1>1, <1>2, <1>3, <1>7, Taken DEF LoadersHoldTheSame
<1>9. \A l \in Loaders : Building(l)'
  BY <1>2, <1>8, BuildingAlone, LoaderFields DEF StoreInv, TypeOK
<1>10. QED
  BY <1>2, <1>8, <1>9 DEF StoreInv, TypeOK, KeysTyped, LoadersTyped, PKeysTyped
\* A copy made for less than a key pair: it has what was selected, parsed as its
\* own requirement demands, and no identifier.
LEMMA PartOfKey ==
    ASSUME StoreInv, NEW k \in Keys, key[k] # None,
           NEW selection \in SUBSET Selections, Has(k, selection)
    PROVE  LET z == Part(k, selection)
           IN  /\ z \in KeyType /\ z.refs = 1 /\ ~ z.uri
               /\ z.fips = key[k].fips /\ z.spec = key[k].spec
               /\ z.pub # None => z.pub.fips = z.fips
               /\ z.pub # None /\ z.pub.point => z.pub.of = key[k].pub.of
                                                 /\ key[k].pub # None /\ key[k].pub.point
               /\ "public" \in selection => z.pub # None /\ z.pub.point
               /\ "domain" \in selection /\ z.spec \in EcSpecs => z.pub # None
<1> DEFINE x == key[k]
           part == Part(k, selection)
           new == NewKey(x.fips)
<1>1. /\ x \in KeyType /\ x.spec # None /\ UnderFips(k)
      /\ x.fips \in BOOLEAN /\ x.spec \in Specs \cup {None}
      /\ x.pub \in Pubs \cup {None}
  BY DEF StoreInv, TypeOK, Has, KeyType
<1>2. /\ new \in KeyType /\ new.refs = 1 /\ new.fips = x.fips /\ ~ new.uri
      /\ new.spec = None /\ new.pub = None
  BY <1>1 DEF NewKey, KeyType
<1>3. x.pub # None => x.pub.fips = x.fips
  BY <1>1 DEF UnderFips
<1> HIDE DEF new
<1>4. CASE "public" \in selection
  <2>1. part = [new EXCEPT !.spec = x.spec, !.pub = x.pub]
    BY <1>4 DEF Part, PublicCopy, new
  <2>2. /\ part \in KeyType /\ part.refs = 1 /\ ~ part.uri
        /\ part.fips = x.fips /\ part.spec = x.spec /\ part.pub = x.pub
    BY <1>1, <1>2, <2>1 DEF KeyType
  <2>3. x.pub # None /\ x.pub.point
    BY <1>4 DEF Has, HasPublicKey
  <2> HIDE DEF part
  <2>4. QED
    BY <1>3, <2>2, <2>3 DEF part
<1>5. CASE "public" \notin selection /\ "domain" \in selection /\ x.spec \in EcSpecs
  <2> DEFINE d == [x.pub EXCEPT !.of = None, !.point = FALSE]
             sub == [new EXCEPT !.spec = x.spec]
  <2>1. x.pub \in Pubs /\ x.pub # None
    BY <1>1, <1>5 DEF Has, HasDomainParameters
  <2>2. d \in Pubs /\ d # None /\ ~ d.point /\ d.fips = x.fips
    BY <1>3, <2>1, NoneAssumption DEF Pubs
  <2>3. /\ sub \in KeyType /\ sub.refs = 1 /\ ~ sub.uri /\ sub.fips = x.fips
        /\ sub.spec = x.spec
    BY <1>1, <1>2 DEF KeyType
  <2>4. part = [sub EXCEPT !.pub = d]
    BY <1>5 DEF Part, DomainCopy, Subset, new
  <2> HIDE DEF d, sub
  <2>5. /\ part \in KeyType /\ part.refs = 1 /\ ~ part.uri
        /\ part.fips = x.fips /\ part.spec = x.spec /\ part.pub = d
    BY <2>2, <2>3, <2>4 DEF KeyType
  <2> HIDE DEF part
  <2>6. QED
    BY <1>5, <2>2, <2>5 DEF part
<1>6. CASE "public" \notin selection /\ ~ ("domain" \in selection /\ x.spec \in EcSpecs)
  <2>1. part = [new EXCEPT !.spec = x.spec]
    BY <1>6 DEF Part, Subset, new
  <2>2. /\ part \in KeyType /\ part.refs = 1 /\ ~ part.uri
        /\ part.fips = x.fips /\ part.spec = x.spec /\ part.pub = None
    BY <1>1, <1>2, <2>1 DEF KeyType
  <2> HIDE DEF part
  <2>3. QED
    BY <1>6, <2>2 DEF part
<1>7. QED
  BY <1>4, <1>5, <1>6

\* awskms_keymgmt_dup of a public part makes a key of its own.
LEMMA DupPartStep ==
    ASSUME StoreInv, NEW p \in PKeys, NEW q \in PKeys, NEW new \in Keys,
           NEW selection \in SUBSET Selections, DupPart(p, q, new, selection)
    PROVE  StoreInv'
<1> DEFINE k == pkey[p].key
           y == [key |-> new, has |-> selection, original |-> pkey[p].original]
           z == Part(k, selection)
<1>1. /\ pkey[p] \in PKeyType /\ k \in Keys /\ pkey[p].original \in Materials
      /\ pkey[p] # None /\ pkey[q] = None
      /\ key[k] # None /\ key[k] \in KeyType /\ key[new] = None
  BY DEF DupPart, StoreInv, TypeOK, PKeyType, Complete
<1>2. /\ key' = [key EXCEPT ![new] = z] /\ pkey' = [pkey EXCEPT ![q] = y]
      /\ UNCHANGED loader
      /\ "private" \notin selection /\ Has(k, selection)
  BY DEF DupPart
<1>3. /\ y \in PKeyType /\ y.key = new /\ y.original = pkey[p].original
      /\ y.has = selection
  BY <1>1 DEF PKeyType
<1>4. /\ z \in KeyType /\ z.refs = 1 /\ ~ z.uri
      /\ z.fips = key[k].fips /\ z.spec = key[k].spec
      /\ z.pub # None => z.pub.fips = z.fips
      /\ z.pub # None /\ z.pub.point =>
            z.pub.of = key[k].pub.of /\ key[k].pub # None /\ key[k].pub.point
      /\ "public" \in selection => z.pub # None /\ z.pub.point
      /\ "domain" \in selection /\ z.spec \in EcSpecs => z.pub # None
  BY <1>1, <1>2, PartOfKey
<1> HIDE DEF y, z
<1>5. /\ key'[new] = z /\ OthersSame(new) /\ z # None
      /\ pkey'[q] = y /\ OtherPKeysSame(q) /\ y # None
  BY <1>2, <1>3, <1>4, NoneAssumption
     DEF StoreInv, TypeOK, OthersSame, OtherPKeysSame
<1>6. TypeOK'
  BY <1>2, <1>3, <1>4 DEF StoreInv, TypeOK
<1>7. /\ \A l \in Loaders : loader[l] # None =>
            loader[l].key \in Keys /\ loader[l].key # new
      /\ \A r \in PKeys : pkey[r] # None => pkey[r].key \in Keys /\ pkey[r].key # new
  <2>1. key[new] = None
    BY <1>1
  <2>2. ASSUME NEW l \in Loaders, loader[l] # None
        PROVE  loader[l].key \in Keys /\ key[loader[l].key] # None
    BY <2>2, LoaderFields DEF StoreInv, TypeOK, Building
  <2>3. ASSUME NEW r \in PKeys, pkey[r] # None
        PROVE  pkey[r].key \in Keys /\ key[pkey[r].key] # None
    BY <2>3 DEF StoreInv, TypeOK, PKeyType, Complete
  <2>4. QED
    BY <2>1, <2>2, <2>3
<1>8. ASSUME NEW j \in Keys PROVE Counted(j)'
  <2>1. CASE j = new
    <3>1. Holders(new)' = {q}
      BY <1>2, <1>3, <1>5, <1>7 DEF Holders, OtherPKeysSame
    <3>2. QED
      BY <1>4, <1>5, <2>1, <3>1, FirstHolder
  <2>2. CASE j # new
    <3>1. Holders(j)' = Holders(j)
      BY <1>1, <1>2, <1>3, <1>5, <2>2, HoldersSame DEF OtherPKeysSame
    <3>2. QED
      BY <1>5, <2>2, <3>1, CountedSame DEF StoreInv, OthersSame
  <2>3. QED
    BY <2>1, <2>2
<1>9. ASSUME NEW j \in Keys PROVE UnderFips(j)'
  <2>1. CASE j = new
    BY <1>4, <1>5, <2>1 DEF UnderFips
  <2>2. CASE j # new
    BY <1>5, <2>2, UnderFipsKept DEF StoreInv, OthersSame, KeptOrSame
  <2>3. QED
    BY <2>1, <2>2
<1>10. \A l \in Loaders : Building(l)'
  BY <1>2, <1>5, <1>7, BuildingAlone DEF OthersSame, KeptOrSame
<1>11. ASSUME NEW r \in PKeys PROVE Complete(r)'
  <2>1. CASE r = q
    <3>1. /\ key[k].spec = SpecOf[pkey[p].original]
          /\ key[k].pub # None /\ key[k].pub.point =>
                key[k].pub.of = pkey[p].original
      BY <1>1 DEF StoreInv, Complete
    <3>2. QED
      BY <1>2, <1>3, <1>4, <1>5, <2>1, <3>1 DEF Complete
  <2>2. CASE r # q
    BY <1>5, <1>7, <2>2, CompleteKept
       DEF StoreInv, OtherPKeysSame, OthersSame, KeptOrSame
  <2>3. QED
    BY <2>1, <2>2
<1>12. QED
  BY <1>6, <1>8, <1>9, <1>10, <1>11 DEF StoreInv

\* A holder lets its key go, and the others keep theirs.
LEMMA LetGo ==
    ASSUME StoreInv, NEW k \in Keys, NEW h, h \in Holders(k), key' = Released(k),
           Holders(k)' = Holders(k) \ {h},
           \A j \in Keys \ {k} : Holders(j)' = Holders(j)
    PROVE  /\ KeysTyped'
           /\ \A j \in Keys : Counted(j)' /\ UnderFips(j)'
           /\ \A j \in Keys : \A g \in Holders(j) : g # h => KeptOrSame(j)
<1>1. key[k] # None /\ key[k] \in KeyType /\ key[k].refs > 0 /\ key[k].refs \in Nat
  BY DEF StoreInv, TypeOK, Counted, KeyType
<1>2. /\ KeysTyped' /\ OthersSame(k)
      /\ key[k].refs = 1 => key'[k] = None
      /\ key[k].refs # 1 => Kept(k) /\ key'[k].refs = key[k].refs - 1
  BY <1>1, ReleasedEffect DEF StoreInv, TypeOK, KeysTyped
<1>3. ASSUME NEW j \in Keys PROVE Counted(j)'
  <2>1. CASE j = k
    BY <1>1, <1>2, <2>1, OneHolderLess DEF StoreInv, Kept
  <2>2. CASE j # k
    BY <1>2, <2>2, CountedSame DEF StoreInv, OthersSame
  <2>3. QED
    BY <2>1, <2>2
<1>4. ASSUME NEW j \in Keys PROVE UnderFips(j)'
  BY <1>2, UnderFipsKept DEF StoreInv, OthersSame, KeptOrSame
<1>5. ASSUME NEW j \in Keys, NEW g \in Holders(j), g # h PROVE KeptOrSame(j)
  <2>1. CASE j = k
    BY <1>1, <1>2, <1>5, <2>1, TwoHolders DEF StoreInv, KeptOrSame
  <2>2. CASE j # k
    BY <1>2, <2>2 DEF OthersSame, KeptOrSame
  <2>3. QED
    BY <2>1, <2>2
<1>6. QED
  BY <1>2, <1>3, <1>4, <1>5

\* awskms_store_close gives the reference of the loader back.
LEMMA CloseStep ==
    ASSUME StoreInv, NEW l \in Loaders, Close(l)
    PROVE  StoreInv'
<1>1. loader[l].key \in Keys
  BY LoaderFields DEF Close, Idle, StoreInv, TypeOK
<1>2. PICK own \in Keys : own = loader[l].key
  BY <1>1
<1>3. /\ loader[l] # None /\ key' = Released(own)
      /\ loader' = [loader EXCEPT ![l] = None] /\ UNCHANGED pkey
  BY <1>2 DEF Close, Idle
<1>4. loader'[l] = None /\ OtherLoadersSame(l) /\ LoadersTyped' /\ PKeysTyped'
  BY <1>3 DEF StoreInv, TypeOK, OtherLoadersSame, LoadersTyped, PKeysTyped
<1>5. l \in Holders(own) /\ Holders(own)' = Holders(own) \ {l}
  BY <1>2, <1>3, <1>4, HoldersAssumption DEF Holders, OtherLoadersSame
<1>6. \A j \in Keys \ {own} : Holders(j)' = Holders(j)
  BY <1>2, <1>3, <1>4, HoldersSame DEF OtherLoadersSame
<1>7. /\ KeysTyped'
      /\ \A j \in Keys : Counted(j)' /\ UnderFips(j)'
      /\ \A j \in Keys : \A g \in Holders(j) : g # l => KeptOrSame(j)
  BY <1>3, <1>5, <1>6, LetGo
<1>8. ASSUME NEW m \in Loaders PROVE Building(m)'
  <2>1. CASE m = l
    BY <1>4, <2>1 DEF Building
  <2>2. CASE m # l
    <3>1. loader[m] # None => loader[m].key \in Keys /\ m \in Holders(loader[m].key)
      BY LoaderFields DEF StoreInv, TypeOK, Holders
    <3>2. loader[m] # None => KeptOrSame(loader[m].key)
      BY <1>7, <2>2, <3>1
    <3>3. QED
      BY <1>4, <2>2, <3>2, BuildingKept DEF StoreInv, OtherLoadersSame
  <2>3. QED
    BY <2>1, <2>2
<1>9. ASSUME NEW p \in PKeys PROVE Complete(p)'
  <2>1. pkey[p] # None => pkey[p].key \in Keys /\ p \in Holders(pkey[p].key) /\ p # l
    BY HoldersAssumption DEF StoreInv, TypeOK, PKeyType, Holders
  <2>2. QED
    BY <1>3, <1>7, <2>1, CompleteKept DEF StoreInv
<1>10. QED
  BY <1>4, <1>7, <1>8, <1>9
     DEF StoreInv, TypeOK, KeysTyped, LoadersTyped, PKeysTyped

\* awskms_keymgmt_free gives the reference of the EVP_PKEY back.
LEMMA FreeStep ==
    ASSUME StoreInv, NEW p \in PKeys, Free(p)
    PROVE  StoreInv'
<1>1. pkey[p].key \in Keys
  BY DEF Free, StoreInv, TypeOK, PKeyType
<1>2. PICK own \in Keys : own = pkey[p].key
  BY <1>1
<1>3. /\ pkey[p] # None /\ key' = Released(own)
      /\ pkey' = [pkey EXCEPT ![p] = None] /\ UNCHANGED loader
  BY <1>2 DEF Free
<1>4. pkey'[p] = None /\ OtherPKeysSame(p) /\ LoadersTyped' /\ PKeysTyped'
  BY <1>3 DEF StoreInv, TypeOK, OtherPKeysSame, LoadersTyped, PKeysTyped
<1>5. p \in Holders(own) /\ Holders(own)' = Holders(own) \ {p}
  BY <1>2, <1>3, <1>4, HoldersAssumption DEF Holders, OtherPKeysSame
<1>6. \A j \in Keys \ {own} : Holders(j)' = Holders(j)
  BY <1>2, <1>3, <1>4, HoldersSame DEF OtherPKeysSame
<1>7. /\ KeysTyped'
      /\ \A j \in Keys : Counted(j)' /\ UnderFips(j)'
      /\ \A j \in Keys : \A g \in Holders(j) : g # p => KeptOrSame(j)
  BY <1>3, <1>5, <1>6, LetGo
<1>8. \A m \in Loaders : Building(m)'
  <2>1. ASSUME NEW m \in Loaders, loader[m] # None PROVE KeptOrSame(loader[m].key)
    <3>1. loader[m].key \in Keys /\ m \in Holders(loader[m].key) /\ m # p
      BY <2>1, LoaderFields, HoldersAssumption DEF StoreInv, TypeOK, Holders
    <3>2. QED
      BY <1>7, <3>1
  <2>2. QED
    BY <1>3, <2>1, BuildingAlone
<1>9. ASSUME NEW q \in PKeys PROVE Complete(q)'
  <2>1. CASE q = p
    BY <1>4, <2>1 DEF Complete
  <2>2. CASE q # p
    <3>1. pkey[q] # None => pkey[q].key \in Keys /\ q \in Holders(pkey[q].key)
      BY DEF StoreInv, TypeOK, PKeyType, Holders
    <3>2. QED
      BY <1>4, <1>7, <2>2, <3>1, CompleteKept DEF StoreInv, OtherPKeysSame
  <2>3. QED
    BY <2>1, <2>2
<1>10. QED
  BY <1>4, <1>7, <1>8, <1>9
     DEF StoreInv, TypeOK, KeysTyped, LoadersTyped, PKeysTyped
-----------------------------------------------------------------------------
(***************************************************************************)
(* The invariant                                                           *)
(***************************************************************************)
LEMMA InitStore ==
    ASSUME Init
    PROVE  StoreInv
<1>1. TypeOK
  BY DEF Init, TypeOK
<1>2. ASSUME NEW k \in Keys PROVE Counted(k) /\ UnderFips(k)
  <2>1. Holders(k) = {}
    BY DEF Init, Holders
  <2>2. QED
    BY <2>1, FS_EmptySet DEF Init, Counted, UnderFips
<1>3. (\A l \in Loaders : Building(l)) /\ (\A p \in PKeys : Complete(p))
  BY DEF Init, Building, Complete
<1>4. QED
  BY <1>1, <1>2, <1>3 DEF StoreInv

\* Every step keeps the invariant.
LEMMA StepStore ==
    ASSUME StoreInv, [Next]_vars
    PROVE  StoreInv'
<1>1. CASE UNCHANGED vars
  <2>1. TypeOK' /\ \A k \in Keys : UnderFips(k)'
    BY <1>1 DEF vars, StoreInv, TypeOK, UnderFips
  <2>2. \A k \in Keys : Counted(k)'
    BY <1>1 DEF vars, StoreInv, Counted, Holders
  <2>3. \A l \in Loaders : Building(l)'
    BY <1>1 DEF vars, StoreInv, Building
  <2>4. \A p \in PKeys : Complete(p)'
    BY <1>1 DEF vars, StoreInv, Complete
  <2>5. QED
    BY <2>1, <2>2, <2>3, <2>4 DEF StoreInv
<1>2. ASSUME NEW l \in Loaders, NEW k \in Keys, NEW default \in BOOLEAN,
             Open(l, k, default)
      PROVE  StoreInv'
  BY <1>2, OpenStep
<1>3. ASSUME NEW l \in Loaders, NEW expect \in {"any", "other"},
             NEW fips \in BOOLEAN, SetCtxParams(l, expect, fips)
      PROVE  StoreInv'
  BY <1>3, SetCtxParamsStep
<1>4. ASSUME NEW l \in Loaders,
             LoadUnexpected(l) \/ LoadBegin(l) \/ FetchFails(l) \/ Offer(l) \/ Close(l)
      PROVE  StoreInv'
  BY <1>4, LoadUnexpectedStep, LoadBeginStep, FetchFailsStep, OfferStep, CloseStep
<1>5. ASSUME NEW l \in Loaders, NEW m \in Materials, FetchSucceeds(l, m)
      PROVE  StoreInv'
  BY <1>5, FetchSucceedsStep
<1>6. ASSUME NEW p \in PKeys, NEW q \in PKeys, NEW selection \in SUBSET Selections,
             DupPair(p, q, selection)
      PROVE  StoreInv'
  BY <1>6, DupPairStep
<1>7. ASSUME NEW p \in PKeys, NEW q \in PKeys, NEW selection \in SUBSET Selections,
             NEW new \in Keys, DupPart(p, q, new, selection)
      PROVE  StoreInv'
  BY <1>7, DupPartStep
<1>8. ASSUME NEW p \in PKeys, Free(p)
      PROVE  StoreInv'
  BY <1>8, FreeStep
<1>9. QED
  BY <1>1, <1>2, <1>3, <1>4, <1>5, <1>6, <1>7, <1>8 DEF Next

\* What holds of the keys and their holders after any load, copy and release.
THEOREM StoreInvariant == Spec => []StoreInv
<1>1. QED
  BY InitStore, StepStore, PTL DEF Spec

\* The tables keep their types.
THEOREM StoreTypeCorrect == Spec => []TypeOK
<1>1. StoreInv => TypeOK
  BY DEF StoreInv
<1>2. QED
  BY <1>1, StoreInvariant, PTL

\* awskms_key_up_ref and awskms_key_free: a key lives exactly as long as a
\* loader or an EVP_PKEY holds it, and its count is the number of them.
THEOREM AlwaysRefsExact == Spec => []RefsExact
<1>1. StoreInv => RefsExact
  BY DEF StoreInv, Counted, RefsExact
<1>2. QED
  BY <1>1, StoreInvariant, PTL

\* awskms_store_load_key and awskms_keymgmt_dup: an EVP_PKEY has all that it was
\* loaded or copied for, under FIPS once that was asked for.
THEOREM AlwaysPublishedComplete == Spec => []PublishedComplete
<1>1. ASSUME StoreInv PROVE PublishedComplete
  <2>1. FipsKept
    BY <1>1 DEF StoreInv, Building, UnderFips, FipsKept
  <2>2. ASSUME NEW p \in PKeys, pkey[p] # None
        PROVE  /\ Validates(pkey[p].key, pkey[p].has)
               /\ "private" \in pkey[p].has => HasPublicKey(pkey[p].key)
               /\ "private" \notin pkey[p].has => ~ key[pkey[p].key].uri
    <3>1. pkey[p].original \in Materials
      BY <1>1, <2>2 DEF StoreInv, TypeOK, PKeyType
    <3>2. SpecOf[pkey[p].original] # None
      BY <3>1, NoneAssumption DEF Specs
    <3>3. QED
      BY <1>1, <2>2, <3>2
         DEF StoreInv, Complete, Validates, Has, HasPublicKey, HasDomainParameters
  <2>3. QED
    BY <2>1, <2>2 DEF PublishedComplete
<1>2. QED
  BY <1>1, StoreInvariant, PTL

\* awskms_keymgmt_match and awskms_keymgmt_export: two EVP_PKEYs match, and are
\* exported alike, exactly if they go back to one key at KMS.
THEOREM AlwaysMatchIsSameKey == Spec => []MatchIsSameKey
<1>1. ASSUME StoreInv PROVE MatchIsSameKey
  <2>1. SUFFICES ASSUME NEW p \in PKeys, NEW q \in PKeys,
                        pkey[p] # None, pkey[q] # None,
                        NEW selection \in SUBSET (pkey[p].has \cap pkey[q].has)
                 PROVE  LET a == pkey[p].key
                            b == pkey[q].key
                            same == pkey[p].original = pkey[q].original
                        IN  /\ same => /\ Match(a, b, selection)
                                       /\ Export(a, selection) = Export(b, selection)
                            /\ selection \cap {"private", "public"} # {} /\ ~ same =>
                                  ~ Match(a, b, selection)
    BY DEF MatchIsSameKey
  <2> DEFINE a == pkey[p].key
             b == pkey[q].key
             both == selection \cap {"private", "public"} # {}
  <2>2. ASSUME NEW r \in {p, q}
        PROVE  /\ key[pkey[r].key].spec = SpecOf[pkey[r].original]
               /\ Has(pkey[r].key, selection)
               /\ both => /\ key[pkey[r].key].pub # None
                          /\ key[pkey[r].key].pub.of = pkey[r].original
                          /\ HasPublicKey(pkey[r].key)
    <3>1. pkey[r] # None /\ pkey[r].original \in Materials /\ selection \subseteq pkey[r].has
      BY <1>1, <2>1 DEF StoreInv, TypeOK, PKeyType
    <3>2. SpecOf[pkey[r].original] # None
      BY <3>1, NoneAssumption DEF Specs
    <3>3. QED
      BY <1>1, <3>1, <3>2
         DEF StoreInv, Complete, Has, HasPublicKey, HasDomainParameters
  <2>3. ASSUME pkey[p].original = pkey[q].original
        PROVE  Match(a, b, selection) /\ Export(a, selection) = Export(b, selection)
    <3>1. Match(a, b, selection)
      BY <2>2, <2>3 DEF Match, SameDomain, SamePublicKey
    <3>2. Export(a, selection) = Export(b, selection)
      BY <2>2, <2>3 DEF Export
    <3>3. QED
      BY <3>1, <3>2
  <2>4. ASSUME both, pkey[p].original # pkey[q].original
        PROVE  ~ Match(a, b, selection)
    BY <2>2, <2>4 DEF Match, SamePublicKey
  <2>5. QED
    BY <2>3, <2>4
<1>2. QED
  BY <1>1, StoreInvariant, PTL

-----------------------------------------------------------------------------
(***************************************************************************)
(* Once published                                                          *)
(***************************************************************************)
PublishedKept ==
    \A p \in PKeys : pkey[p] # None /\ pkey'[p] = pkey[p] => KeptOrSame(pkey[p].key)

\* What changes is not published, ...
LEMMA OneKeyChanges ==
    ASSUME StoreInv, NEW k \in Keys, OthersSame(k),
           \A p \in PKeys : pkey[p] # None => pkey[p].key # k
    PROVE  PublishedKept
BY DEF StoreInv, TypeOK, PKeyType, OthersSame, PublishedKept, KeptOrSame

\* ... or it is the count.
LEMMA OneReferenceMore ==
    ASSUME StoreInv, NEW k \in Keys, key[k] # None, key' = UpRef(k)
    PROVE  PublishedKept
<1>1. Kept(k) /\ OthersSame(k)
  BY UpRefEffect DEF StoreInv, TypeOK, KeysTyped
<1>2. \A p \in PKeys : pkey[p] # None => pkey[p].key \in Keys
  BY DEF StoreInv, TypeOK, PKeyType
<1>3. QED
  BY <1>1, <1>2 DEF PublishedKept, KeptOrSame, OthersSame

\* A holder that goes takes no key from under another EVP_PKEY.
LEMMA OneReferenceLess ==
    ASSUME StoreInv, NEW k \in Keys, NEW h \in Holders(k), key' = Released(k),
           \A p \in PKeys : pkey[p] # None /\ pkey'[p] = pkey[p] => p # h
    PROVE  PublishedKept
<1>1. key[k] # None /\ key[k].refs > 0 /\ key[k].refs \in Nat
  BY DEF StoreInv, TypeOK, Counted, KeyType
<1>2. OthersSame(k) /\ (key[k].refs # 1 => Kept(k))
  BY <1>1, ReleasedEffect DEF StoreInv, TypeOK, KeysTyped
<1>3. ASSUME NEW p \in PKeys, pkey[p] # None, pkey'[p] = pkey[p]
      PROVE  KeptOrSame(pkey[p].key)
  <2>1. pkey[p].key \in Keys /\ p \in Holders(pkey[p].key) /\ p # h
    BY <1>3 DEF StoreInv, TypeOK, PKeyType, Holders
  <2>2. CASE pkey[p].key = k
    BY <1>1, <1>2, <2>1, <2>2, TwoHolders DEF StoreInv, KeptOrSame
  <2>3. CASE pkey[p].key # k
    BY <1>2, <2>1, <2>3 DEF OthersSame, KeptOrSame
  <2>4. QED
    BY <2>2, <2>3
<1>4. QED
  BY <1>3 DEF PublishedKept

\* No step of a loader changes a key that has been published.
LEMMA LoaderKeepsPublished ==
    ASSUME StoreInv, NEW l \in Loaders,
           \/ \E k \in Keys, default \in BOOLEAN : Open(l, k, default)
           \/ \E expect \in {"any", "other"}, fips \in BOOLEAN :
                 SetCtxParams(l, expect, fips)
           \/ LoadUnexpected(l) \/ LoadBegin(l) \/ FetchFails(l)
           \/ \E m \in Materials : FetchSucceeds(l, m)
           \/ Offer(l) \/ Close(l)
    PROVE  PublishedKept
<1>1. ASSUME loader[l] # None
      PROVE  /\ loader[l].key \in Keys /\ key[loader[l].key] # None
             /\ l \in Holders(loader[l].key)
  BY <1>1, LoaderFields DEF StoreInv, TypeOK, Building, Holders
<1>2. ASSUME NEW k \in Keys, NEW default \in BOOLEAN, Open(l, k, default)
      PROVE  PublishedKept
  <2>1. OthersSame(k) /\ key[k] = None
    BY <1>2 DEF Open, StoreInv, TypeOK, OthersSame
  <2>2. \A p \in PKeys : pkey[p] # None => pkey[p].key # k
    BY <2>1 DEF StoreInv, Complete
  <2>3. QED
    BY <2>1, <2>2, OneKeyChanges
<1>3. ASSUME UNCHANGED key
      PROVE  PublishedKept
  BY <1>3 DEF PublishedKept, KeptOrSame
<1>4. ASSUME NEW expect \in {"any", "other"}, NEW fips \in BOOLEAN,
             SetCtxParams(l, expect, fips)
      PROVE  PublishedKept
  <2>1. CASE ~ fips
    BY <1>3, <1>4, <2>1 DEF SetCtxParams
  <2>2. CASE fips
    <3>1. loader[l] # None /\ OthersSame(loader[l].key)
      BY <1>4, <2>2 DEF SetCtxParams, Idle, StoreInv, TypeOK, OthersSame
    <3>2. key[loader[l].key].spec = None
      <4>1. loader[l].requests = 0
        BY <1>4 DEF SetCtxParams
      <4>2. key[loader[l].key].spec # None => loader[l].requests > 0
        BY <3>1 DEF StoreInv, Building
      <4>3. QED
        BY <4>1, <4>2
    <3>3. QED
      BY <3>1, <3>2, NotPublished, OneKeyChanges
  <2>3. QED
    BY <2>1, <2>2
<1>5. ASSUME NEW m \in Materials, FetchSucceeds(l, m)
      PROVE  PublishedKept
  <2>1. loader[l] # None /\ key[loader[l].key].spec = None /\ OthersSame(loader[l].key)
    BY <1>5 DEF FetchSucceeds, Loading, StoreInv, TypeOK, OthersSame
  <2>2. QED
    BY <2>1, NotPublished, OneKeyChanges
<1>6. ASSUME Offer(l)
      PROVE  PublishedKept
  <2>1. loader[l] # None /\ (key' = UpRef(loader[l].key) \/ UNCHANGED key)
    BY <1>6 DEF Offer, Loading
  <2>2. QED
    BY <1>1, <1>3, <2>1, OneReferenceMore
<1>7. ASSUME Close(l)
      PROVE  PublishedKept
  BY <1>1, <1>7, HoldersAssumption, OneReferenceLess DEF Close, Idle
<1>8. QED
  BY <1>2, <1>3, <1>4, <1>5, <1>6, <1>7 DEF LoadUnexpected, LoadBegin, FetchFails

\* No step of the key manager does either.
LEMMA ManagerKeepsPublished ==
    ASSUME StoreInv, NEW p \in PKeys,
           \/ \E q \in PKeys, selection \in SUBSET Selections :
                 \/ DupPair(p, q, selection)
                 \/ \E new \in Keys : DupPart(p, q, new, selection)
           \/ Free(p)
    PROVE  PublishedKept
<1>1. ASSUME pkey[p] # None
      PROVE  /\ pkey[p].key \in Keys /\ key[pkey[p].key] # None
             /\ p \in Holders(pkey[p].key)
  BY <1>1 DEF StoreInv, TypeOK, PKeyType, Complete, Holders
<1>2. ASSUME NEW q \in PKeys, NEW selection \in SUBSET Selections,
             DupPair(p, q, selection)
      PROVE  PublishedKept
  BY <1>1, <1>2, OneReferenceMore DEF DupPair
<1>3. ASSUME NEW q \in PKeys, NEW selection \in SUBSET Selections, NEW new \in Keys,
             DupPart(p, q, new, selection)
      PROVE  PublishedKept
  <2>1. OthersSame(new) /\ key[new] = None
    BY <1>3 DEF DupPart, StoreInv, TypeOK, OthersSame
  <2>2. \A r \in PKeys : pkey[r] # None => pkey[r].key # new
    BY <2>1 DEF StoreInv, Complete
  <2>3. QED
    BY <2>1, <2>2, OneKeyChanges
<1>4. ASSUME Free(p)
      PROVE  PublishedKept
  <2>1. pkey[p] # None /\ key' = Released(pkey[p].key) /\ pkey'[p] = None
    BY <1>4 DEF Free, StoreInv, TypeOK
  <2>2. QED
    BY <1>1, <2>1, OneReferenceLess
<1>5. QED
  BY <1>2, <1>3, <1>4

\* key.h: while an EVP_PKEY has a key, no load, copy or release by anyone changes
\* more of the key than the number of its references.
THEOREM AlwaysPublishedImmutable == Spec => PublishedImmutable
<1>1. ASSUME StoreInv, [Next]_vars
      PROVE  [\A p \in PKeys :
                pkey[p] # None /\ pkey'[p] = pkey[p] =>
                    LET k == pkey[p].key
                    IN  key'[k] = [key[k] EXCEPT !.refs = key'[k].refs]]_vars
  <2>1. CASE UNCHANGED vars
    BY <2>1
  <2>2. CASE Next
    <3>1. PublishedKept
      BY <1>1, <2>2, LoaderKeepsPublished, ManagerKeepsPublished DEF Next
    <3>2. ASSUME NEW p \in PKeys, pkey[p] # None, pkey'[p] = pkey[p]
          PROVE  key'[pkey[p].key] = [key[pkey[p].key] EXCEPT
                                         !.refs = key'[pkey[p].key].refs]
      <4>1. key[pkey[p].key] \in KeyType
        BY <1>1, <3>2 DEF StoreInv, TypeOK, PKeyType, Complete
      <4>2. CASE key'[pkey[p].key] = key[pkey[p].key]
        BY <4>1, <4>2 DEF KeyType
      <4>3. CASE Kept(pkey[p].key)
        BY <4>3 DEF Kept
      <4>4. QED
        BY <3>1, <3>2, <4>2, <4>3 DEF PublishedKept, KeptOrSame
    <3>3. QED
      BY <3>2
  <2>3. QED
    BY <1>1, <2>1, <2>2
<1>2. QED
  BY <1>1, StoreInvariant, PTL DEF Spec, PublishedImmutable
===============================================================================
