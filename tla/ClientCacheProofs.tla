--------------------------- MODULE ClientCacheProofs ---------------------------
(***************************************************************************)
(* Proofs about ClientCache for any number of threads, keys and clients    *)
(* and any cache size: the list and the map agree, the cache is bounded,   *)
(* a thread calls through a live client of its own key, a client is owned  *)
(* only by variables that refer to it, and what is evicted is the least    *)
(* recently used.                                                          *)
(***************************************************************************)
EXTENDS ClientCacheLru, FiniteSetTheorems, SequenceTheorems, TLAPS

Listed(s) == {s[i] : i \in 1..Len(s)}

NoRepeat(s) == \A i, j \in 1..Len(s) : s[i] = s[j] => i = j

HasFirst(s, k) ==
    \E i \in 1..Len(s) : s[i] = k /\ \A j \in 1..(i - 1) : s[j] # k

\* Without repetition the one node of a key is its first.
LEMMA OnlyIsFirst ==
    ASSUME NEW s, Len(s) \in Nat, NoRepeat(s), NEW k \in Listed(s)
    PROVE  HasFirst(s, k)
<1>1. PICK q \in 1..Len(s) : s[q] = k
  BY DEF Listed
<1>2. \A j \in 1..(q - 1) : s[j] # k
  BY <1>1 DEF NoRepeat
<1>3. QED
  BY <1>1, <1>2 DEF HasFirst

\* A list each of whose nodes has a counterpart in another lists no more.
LEMMA ListedSubset ==
    ASSUME NEW r, NEW s,
           \A n \in 1..Len(r) : \E m \in 1..Len(s) : r[n] = s[m]
    PROVE  Listed(r) \subseteq Listed(s)
BY Zenon DEF Listed

\* touch_lru moves the first node of a key to the front.
LEMMA TouchedIs ==
    ASSUME NEW S, NEW s \in Seq(S), NEW k, HasFirst(s, k)
    PROVE  /\ NodeOf(s, k) \in 1..Len(s) /\ s[NodeOf(s, k)] = k
           /\ Touched(s, k) \in Seq(S) /\ Len(Touched(s, k)) = Len(s)
           /\ \A n \in 1..Len(s) :
                 Touched(s, k)[n] = IF n = 1 THEN k
                                    ELSE IF n <= NodeOf(s, k) THEN s[n - 1] ELSE s[n]
<1> DEFINE p == NodeOf(s, k)
           u == Touched(s, k)
<1>1. PICK q \in 1..Len(s) : s[q] = k /\ \A j \in 1..(q - 1) : s[j] # k
  BY DEF HasFirst
<1>2. p \in 1..Len(s) /\ s[p] = k
  BY <1>1 DEF NodeOf
<1> HIDE DEF p
<1>3. u = [n \in 1..Len(s) |-> IF n = 1 THEN k ELSE IF n <= p THEN s[n - 1] ELSE s[n]]
  BY DEF u, p, Touched
<1>4. \A n \in 1..Len(s) :
        (IF n = 1 THEN k ELSE IF n <= p THEN s[n - 1] ELSE s[n]) \in S
  BY <1>2
<1>5. u \in [1..Len(s) -> S]
  BY <1>3, <1>4
<1>6. u \in Seq(S) /\ Len(u) = Len(s)
  BY <1>3, <1>5
<1>7. QED
  BY <1>2, <1>3, <1>6 DEF p

\* touch_lru permutes the list: it stays a list of the same keys without
\* repetition.
LEMMA TouchedPermutes ==
    ASSUME NEW S, NEW s \in Seq(S), NoRepeat(s), NEW k \in Listed(s)
    PROVE  /\ Touched(s, k) \in Seq(S)
           /\ Len(Touched(s, k)) = Len(s)
           /\ NoRepeat(Touched(s, k))
           /\ Listed(Touched(s, k)) = Listed(s)
<1> DEFINE p == NodeOf(s, k)
           u == Touched(s, k)
<1>1. HasFirst(s, k)
  BY OnlyIsFirst
<1>2. p \in 1..Len(s) /\ s[p] = k
  BY <1>1, TouchedIs
<1>3. /\ u \in Seq(S)
      /\ Len(u) = Len(s)
      /\ \A n \in 1..Len(s) :
            u[n] = IF n = 1 THEN k ELSE IF n <= p THEN s[n - 1] ELSE s[n]
  BY <1>1, TouchedIs
<1> HIDE DEF p, u
<1>4. NoRepeat(u)
  <2> SUFFICES ASSUME NEW i \in 1..Len(s), NEW j \in 1..Len(s), u[i] = u[j]
               PROVE  i = j
    BY <1>3 DEF NoRepeat
  <2> DEFINE From(n) == IF n = 1 THEN p ELSE IF n <= p THEN n - 1 ELSE n
  <2>1. /\ From(i) \in 1..Len(s) /\ u[i] = s[From(i)]
        /\ From(j) \in 1..Len(s) /\ u[j] = s[From(j)]
    <3>1. ASSUME NEW n \in 1..Len(s)
          PROVE  From(n) \in 1..Len(s) /\ u[n] = s[From(n)]
      <4>1. CASE n = 1
        BY <4>1, <1>2, <1>3
      <4>2. CASE n # 1 /\ n <= p
        BY <4>2, <1>2, <1>3
      <4>3. CASE n # 1 /\ ~(n <= p)
        BY <4>3, <1>2, <1>3
      <4>4. QED
        BY <4>1, <4>2, <4>3
    <3>2. QED
      BY <3>1
  <2>2. s[From(i)] = s[From(j)]
    BY <2>1
  <2>3. From(i) = From(j)
    BY ONLY <2>1, <2>2, NoRepeat(s) DEF NoRepeat
  <2>4. QED
    BY <2>3, <1>2
<1>5. \A n \in 1..Len(s) : \E m \in 1..Len(s) : u[n] = s[m]
  BY <1>2, <1>3
<1>6. \A n \in 1..Len(s) : \E m \in 1..Len(s) : s[n] = u[m]
  <2> SUFFICES ASSUME NEW n \in 1..Len(s)
               PROVE  \E m \in 1..Len(s) : s[n] = u[m]
    OBVIOUS
  <2>1. CASE n = p
    BY <2>1, <1>2, <1>3
  <2>2. CASE n < p
    <3>1. n + 1 \in 1..Len(s) /\ u[n + 1] = s[n]
      BY <2>2, <1>2, <1>3
    <3>2. QED
      BY <3>1
  <2>3. CASE n > p
    BY <2>3, <1>2, <1>3
  <2>4. QED
    BY <2>1, <2>2, <2>3, <1>2
<1>7. Listed(u) \subseteq Listed(s) /\ Listed(s) \subseteq Listed(u)
  <2>1. /\ \A n \in 1..Len(u) : \E m \in 1..Len(s) : u[n] = s[m]
        /\ \A n \in 1..Len(s) : \E m \in 1..Len(u) : s[n] = u[m]
    BY <1>3, <1>5, <1>6, Zenon
  <2>2. QED
    BY <2>1, ListedSubset, Zenon
<1>8. QED
  BY <1>3, <1>4, <1>7 DEF u

\* push_front of a key the list does not have.
LEMMA PushAdds ==
    ASSUME NEW S, NEW s \in Seq(S), NoRepeat(s), NEW k \in S, k \notin Listed(s)
    PROVE  /\ <<k>> \o s \in Seq(S)
           /\ NoRepeat(<<k>> \o s)
           /\ Listed(<<k>> \o s) = Listed(s) \cup {k}
<1> DEFINE u == <<k>> \o s
<1>1. /\ u \in Seq(S)
      /\ Len(u) = Len(s) + 1
      /\ u[1] = k
      /\ \A i \in 1..Len(s) : u[i + 1] = s[i]
  OBVIOUS
<1>2. \A i \in 1..Len(u) : i = 1 \/ (i - 1 \in 1..Len(s) /\ u[i] = s[i - 1])
  OBVIOUS
<1> HIDE DEF u
<1>3. NoRepeat(u)
  <2>1. \A i \in 1..Len(s) : s[i] # k
    BY DEF Listed
  <2> SUFFICES ASSUME NEW i \in 1..Len(u), NEW j \in 1..Len(u), u[i] = u[j]
               PROVE  i = j
    BY DEF NoRepeat
  <2>2. CASE i = 1 \/ j = 1
    BY <2>1, <2>2, <1>1, <1>2
  <2>3. CASE i # 1 /\ j # 1
    <3>1. s[i - 1] = s[j - 1]
      BY <2>3, <1>2
    <3>2. i - 1 = j - 1
      BY <2>3, <3>1, <1>2 DEF NoRepeat
    <3>3. QED
      BY <3>2
  <2>4. QED
    BY <2>2, <2>3
<1>4. Listed(u) \subseteq Listed(s) \cup {k}
  BY <1>1, <1>2 DEF Listed
<1>5. Listed(s) \cup {k} \subseteq Listed(u)
  <2>1. k \in Listed(u)
    BY <1>1 DEF Listed
  <2>2. \A i \in 1..Len(s) : i + 1 \in 1..Len(u)
    BY <1>1
  <2>3. \A i \in 1..Len(s) : s[i] \in Listed(u)
    BY <1>1, <2>2 DEF Listed
  <2>4. QED
    BY <2>1, <2>3 DEF Listed
<1>6. QED
  BY <1>1, <1>3, <1>4, <1>5 DEF u

\* pop_back leaves the other nodes where they are.
LEMMA PopIs ==
    ASSUME NEW S, NEW s \in Seq(S), Len(s) > 0
    PROVE  /\ SubSeq(s, 1, Len(s) - 1) \in Seq(S)
           /\ Len(SubSeq(s, 1, Len(s) - 1)) = Len(s) - 1
           /\ \A i \in 1..(Len(s) - 1) : SubSeq(s, 1, Len(s) - 1)[i] = s[i]
<1> DEFINE m == Len(s) - 1
<1>1. m \in Nat /\ m \in Int /\ 1 \in Int
  OBVIOUS
<1>2. \A i \in 1..m : s[i] \in S
  OBVIOUS
<1> HIDE DEF m
<1>3. /\ SubSeq(s, 1, m) \in Seq(S)
      /\ Len(SubSeq(s, 1, m)) = IF 1 <= m THEN m - 1 + 1 ELSE 0
      /\ \A i \in 1..(m - 1 + 1) : SubSeq(s, 1, m)[i] = s[1 + i - 1]
  BY <1>1, <1>2, SubSeqProperties
<1>4. Len(SubSeq(s, 1, m)) = m
  BY <1>1, <1>3
<1>5. \A i \in 1..m : SubSeq(s, 1, m)[i] = s[i]
  <2>1. m - 1 + 1 = m
    BY <1>1
  <2>2. \A i \in 1..m : 1 + i - 1 = i
    BY <1>1
  <2>3. QED
    BY <1>3, <2>1, <2>2, Zenon
<1>6. QED
  BY <1>3, <1>4, <1>5 DEF m

\* pop_back of a list that is not empty.
LEMMA PopRemoves ==
    ASSUME NEW S, NEW s \in Seq(S), NoRepeat(s), Len(s) > 0
    PROVE  /\ SubSeq(s, 1, Len(s) - 1) \in Seq(S)
           /\ NoRepeat(SubSeq(s, 1, Len(s) - 1))
           /\ Listed(SubSeq(s, 1, Len(s) - 1)) = Listed(s) \ {Back(s)}
           /\ Back(s) \in Listed(s)
<1> DEFINE u == SubSeq(s, 1, Len(s) - 1)
<1>1. /\ u \in Seq(S)
      /\ Len(u) = Len(s) - 1
      /\ \A i \in 1..(Len(s) - 1) : u[i] = s[i]
  BY PopIs DEF u
<1> HIDE DEF u
<1>2. NoRepeat(u)
  BY <1>1 DEF NoRepeat
<1>3. \A i \in 1..Len(s) : i = Len(s) \/ i \in 1..(Len(s) - 1)
  OBVIOUS
<1>4. Listed(u) = Listed(s) \ {Back(s)}
  BY <1>1, <1>3 DEF Listed, NoRepeat, Back
<1>5. Back(s) \in Listed(s)
  BY DEF Listed, Back
<1>6. QED
  BY <1>1, <1>2, <1>4, <1>5 DEF u

\* touch_lru of a key keeps the first node of every key its first.
LEMMA TouchedKeepsFirst ==
    ASSUME NEW S, NEW s \in Seq(S), NEW k, HasFirst(s, k),
           NEW e, HasFirst(s, e)
    PROVE  HasFirst(Touched(s, k), e)
<1> DEFINE p == NodeOf(s, k)
           u == Touched(s, k)
<1>1. /\ p \in 1..Len(s)
      /\ s[p] = k
      /\ Len(u) = Len(s)
      /\ \A n \in 1..Len(s) :
            u[n] = IF n = 1 THEN k ELSE IF n <= p THEN s[n - 1] ELSE s[n]
  BY ONLY TouchedIs, s \in Seq(S), HasFirst(s, k)
<1> HIDE DEF p, u
<1>2. CASE e = k
  <2>1. 1 \in 1..Len(u) /\ u[1] = e
    BY <1>1, <1>2
  <2>2. \A j \in 1..(1 - 1) : u[j] # e
    OBVIOUS
  <2>3. QED
    BY <2>1, <2>2 DEF HasFirst, u
<1>3. CASE e # k
  <2>1. PICK i \in 1..Len(s) : s[i] = e /\ \A j \in 1..(i - 1) : s[j] # e
    BY DEF HasFirst
  <2>2. i # p
    BY <1>1, <1>3, <2>1
  <2>3. CASE i < p
    <3>1. i + 1 \in 1..Len(u) /\ u[i + 1] = e
      BY <1>1, <2>1, <2>3
    <3>2. ASSUME NEW j \in 1..((i + 1) - 1)
          PROVE  u[j] # e
      <4>1. j \in 1..Len(s) /\ j <= p /\ j \in 1..i
        BY <1>1, <2>3
      <4>2. CASE j = 1
        BY <1>1, <1>3, <4>1, <4>2
      <4>3. CASE j # 1
        <5>1. u[j] = s[j - 1] /\ j - 1 \in 1..(i - 1)
          BY <1>1, <4>1, <4>3
        <5>2. QED
          BY <2>1, <5>1
      <4>4. QED
        BY <4>2, <4>3
    <3>3. QED
      BY <3>1, <3>2 DEF HasFirst, u
  <2>4. CASE i > p
    <3>1. i \in 1..Len(u) /\ u[i] = e
      BY <1>1, <2>1, <2>4
    <3>2. ASSUME NEW j \in 1..(i - 1)
          PROVE  u[j] # e
      <4>1. j \in 1..Len(s)
        OBVIOUS
      <4>2. CASE j = 1
        BY <1>1, <1>3, <4>1, <4>2
      <4>3. CASE j # 1 /\ j <= p
        <5>1. u[j] = s[j - 1] /\ j - 1 \in 1..(i - 1)
          BY <1>1, <4>1, <4>3
        <5>2. QED
          BY <2>1, <5>1
      <4>4. CASE j # 1 /\ ~(j <= p)
        BY <1>1, <2>1, <4>1, <4>4
      <4>5. QED
        BY <4>2, <4>3, <4>4
    <3>3. QED
      BY <3>1, <3>2 DEF HasFirst, u
  <2>5. QED
    BY <1>1, <2>2, <2>3, <2>4
<1>4. QED
  BY <1>2, <1>3

\* push_front gives its key a first node, and takes nobody's away.
LEMMA PushKeepsFirst ==
    ASSUME NEW S, NEW s \in Seq(S), NEW k \in S,
           NEW e, e = k \/ HasFirst(s, e)
    PROVE  /\ <<k>> \o s \in Seq(S)
           /\ HasFirst(<<k>> \o s, e)
<1> DEFINE u == <<k>> \o s
<1>1. /\ u \in Seq(S)
      /\ Len(u) = Len(s) + 1
      /\ u[1] = k
      /\ \A i \in 1..Len(s) : u[i + 1] = s[i]
  OBVIOUS
<1> HIDE DEF u
<1>2. CASE e = k
  <2>1. 1 \in 1..Len(u) /\ u[1] = e
    BY <1>1, <1>2
  <2>2. \A j \in 1..(1 - 1) : u[j] # e
    OBVIOUS
  <2>3. HasFirst(u, e)
    BY <2>1, <2>2 DEF HasFirst
  <2>4. QED
    BY <1>1, <2>3 DEF u
<1>3. CASE e # k /\ HasFirst(s, e)
  <2>1. PICK i \in 1..Len(s) : s[i] = e /\ \A j \in 1..(i - 1) : s[j] # e
    BY <1>3 DEF HasFirst
  <2>2. i + 1 \in 1..Len(u) /\ u[i + 1] = e
    BY <1>1, <2>1
  <2>3. ASSUME NEW j \in 1..((i + 1) - 1)
        PROVE  u[j] # e
    <3>1. CASE j = 1
      BY <1>1, <1>3, <3>1
    <3>2. CASE j # 1
      <4>1. j - 1 \in 1..Len(s) /\ j - 1 \in 1..(i - 1) /\ (j - 1) + 1 = j
        BY <3>2
      <4>2. u[j] = s[j - 1]
        BY <1>1, <4>1
      <4>3. QED
        BY <2>1, <4>1, <4>2
    <3>3. QED
      BY <3>1, <3>2
  <2>4. HasFirst(u, e)
    BY <2>2, <2>3 DEF HasFirst
  <2>5. QED
    BY <1>1, <2>4 DEF u
<1>4. QED
  BY <1>2, <1>3

\* pop_back takes the first node of no key but the one at the back.
LEMMA PopKeepsFirst ==
    ASSUME NEW S, NEW s \in Seq(S), Len(s) > 0,
           NEW e, HasFirst(s, e), e # Back(s)
    PROVE  HasFirst(SubSeq(s, 1, Len(s) - 1), e)
<1> DEFINE u == SubSeq(s, 1, Len(s) - 1)
<1>1. /\ Len(u) = Len(s) - 1
      /\ \A i \in 1..(Len(s) - 1) : u[i] = s[i]
  BY PopIs
<1> HIDE DEF u
<1>2. PICK i \in 1..Len(s) : s[i] = e /\ \A j \in 1..(i - 1) : s[j] # e
  BY DEF HasFirst
<1>3. i \in 1..(Len(s) - 1)
  BY <1>2 DEF Back
<1>4. i \in 1..Len(u) /\ u[i] = e
  BY <1>1, <1>2, <1>3
<1>5. ASSUME NEW j \in 1..(i - 1)
      PROVE  u[j] # e
  <2>1. j \in 1..(Len(s) - 1)
    BY <1>3
  <2>2. QED
    BY <1>1, <1>2, <2>1
<1>6. QED
  BY <1>4, <1>5 DEF HasFirst, u

-----------------------------------------------------------------------------

\* At the start there are no threads in a call, clients or references.
LEMMA InitCache == Init => CacheInv
<1> SUFFICES ASSUME Init PROVE CacheInv
  OBVIOUS
<1>1. IsFiniteSet(DOMAIN clients) /\ Cardinality(DOMAIN clients) = 0
  <2>1. DOMAIN clients = {}
    BY DEF Init
  <2>2. QED
    BY <2>1, FS_EmptySet
<1>2. TypeOK
  BY DEF Init, TypeOK, Location
<1>3. ListMatchesMap
  BY DEF Init, ListMatchesMap
<1>4. CacheBounded
  BY <1>1, MaxClientsAssumption DEF CacheBounded
<1>5. RightClient /\ NoUseAfterDestroy /\ NoLeakedClient
  BY DEF Init, RightClient, NoUseAfterDestroy, NoLeakedClient
<1>6. LocalsMatchPc /\ CandidatePrivate
  BY DEF Init, LocalsMatchPc, CandidatePrivate
<1>7. QED
  BY <1>1, <1>2, <1>3, <1>4, <1>5, <1>6 DEF CacheInv

\* The part of the invariant that only the map and the list decide.
LEMMA SameCache ==
    ASSUME CacheInv, UNCHANGED clients,
           lru' \in Seq(Keys), NoRepeat(lru'), Listed(lru') = Listed(lru)
    PROVE  /\ IsFiniteSet(DOMAIN clients)'
           /\ ListMatchesMap'
           /\ CacheBounded'
<1>1. ListMatchesMap'
  BY DEF CacheInv, ListMatchesMap, NoRepeat, Listed
<1>2. QED
  BY <1>1 DEF CacheInv, CacheBounded

\* Moving the node of a cached key to the front keeps the list what it was.
LEMMA TouchKeepsList ==
    ASSUME CacheInv, NEW k \in DOMAIN clients
    PROVE  /\ Touched(lru, k) \in Seq(Keys)
           /\ NoRepeat(Touched(lru, k))
           /\ Listed(Touched(lru, k)) = Listed(lru)
<1>1. lru \in Seq(Keys) /\ NoRepeat(lru) /\ k \in Listed(lru)
  BY DEF CacheInv, TypeOK, ListMatchesMap, NoRepeat, Listed
<1>2. QED
  BY <1>1, TouchedPermutes

-----------------------------------------------------------------------------

\* kms_configuration: a call begins with no client of its own.
LEMMA RequestStep ==
    ASSUME ClientsSound, NEW t \in Threads, NEW k \in Keys, Request(t, k)
    PROVE  ClientsSound'
<1> USE DEF Request
<1>1. TypeOK'
  BY DEF ClientsSound, TypeOK, Location
<1>2. LocalsMatchPc'
  BY NoKeyAssumption DEF ClientsSound, TypeOK, LocalsMatchPc
<1>3. RightClient' /\ CandidatePrivate'
  BY DEF ClientsSound, TypeOK, LocalsMatchPc, RightClient, CandidatePrivate,
         Candidate
<1>4. NoUseAfterDestroy' /\ NoLeakedClient'
  BY DEF ClientsSound, NoUseAfterDestroy, NoLeakedClient, Result, Candidate,
         Dropped
<1>5. QED
  BY <1>1, <1>2, <1>3, <1>4 DEF ClientsSound

\* A miss leaves the cache as it is.
LEMMA MissStep ==
    ASSUME ClientsSound, NEW t \in Threads, CachedClientMiss(t)
    PROVE  ClientsSound'
<1> USE DEF CachedClientMiss
<1>1. TypeOK'
  BY DEF ClientsSound, TypeOK, Location
<1>2. LocalsMatchPc'
  BY DEF ClientsSound, TypeOK, LocalsMatchPc
<1>3. RightClient' /\ CandidatePrivate'
  BY DEF ClientsSound, RightClient, CandidatePrivate, Candidate
<1>4. NoUseAfterDestroy' /\ NoLeakedClient'
  BY DEF ClientsSound, NoUseAfterDestroy, NoLeakedClient, Result, Candidate,
         Dropped
<1>5. QED
  BY <1>1, <1>2, <1>3, <1>4 DEF ClientsSound

\* A hit: the caller takes a reference beside that of the cache.
LEMMA HitStep ==
    ASSUME ClientsSound, NEW t \in Threads, CachedClientHit(t), lru' \in Seq(Keys)
    PROVE  ClientsSound'
<1> DEFINE k == key[t]
           c == clients[k]
<1>1. /\ k \in DOMAIN clients
      /\ k \in Keys
      /\ c \in Clients
      /\ builtFor[c] = k
      /\ Entry \in owners[c]
  BY DEF CachedClientHit, Present, ClientsSound, TypeOK, RightClient,
         NoUseAfterDestroy
<1>2. Result(t) \in Owner
  BY DEF Result, Owner
<1>3. TypeOK'
  BY <1>1, <1>2 DEF CachedClientHit, ClientsSound, TypeOK, Location
<1>4. LocalsMatchPc'
  BY <1>1, NoClientAssumption DEF CachedClientHit, ClientsSound, TypeOK,
     LocalsMatchPc
<1>5. RightClient'
  BY <1>1 DEF CachedClientHit, ClientsSound, TypeOK, RightClient
<1>6. CandidatePrivate'
  BY <1>1 DEF CachedClientHit, ClientsSound, TypeOK, CandidatePrivate, Candidate,
              Entry
<1>7. NoUseAfterDestroy'
  BY <1>1 DEF CachedClientHit, ClientsSound, TypeOK, NoUseAfterDestroy
<1>8. NoLeakedClient'
  <2>1. client[t] = NoClient
    BY DEF CachedClientHit, ClientsSound, LocalsMatchPc
  <2>2. \A d \in Clients, o \in Owner :
          o \in owners'[d] <=> o \in owners[d] \/ (d = c /\ o = Result(t))
    BY <1>1, <1>2 DEF CachedClientHit, ClientsSound, TypeOK
  <2>3. \A d \in Clients : Result(t) \notin owners[d]
    BY <2>1, NoClientAssumption DEF ClientsSound, NoLeakedClient
  <2>4. \A u \in Threads : client'[u] = IF u = t THEN c ELSE client[u]
    BY DEF CachedClientHit, ClientsSound, TypeOK
  <2>5. ASSUME NEW d \in Clients
        PROVE  Entry \in owners'[d] => \E e \in DOMAIN clients' : clients'[e] = d
    BY <2>2 DEF CachedClientHit, ClientsSound, NoLeakedClient, Entry, Result, Owner
  <2>6. ASSUME NEW d \in Clients, NEW u \in Threads
        PROVE  /\ Result(u) \in owners'[d] => client'[u] = d
               /\ Candidate(u) \in owners'[d] => candidate'[u] = d
               /\ Dropped(u) \in owners'[d] => dropped'[u] = d
    <3>1. {Result(u), Candidate(u), Dropped(u)} \subseteq Owner
      BY DEF Result, Candidate, Dropped, Owner
    <3>2. /\ Candidate(u) # Result(t)
          /\ Dropped(u) # Result(t)
          /\ u # t => Result(u) # Result(t)
      BY DEF Result, Candidate, Dropped
    <3>3. QED
      BY <2>2, <2>3, <2>4, <3>1, <3>2
         DEF CachedClientHit, ClientsSound, NoLeakedClient
  <2>7. QED
    BY <2>5, <2>6 DEF NoLeakedClient
<1>9. QED
  BY <1>3, <1>4, <1>5, <1>6, <1>7, <1>8 DEF ClientsSound

\* The owners of references of two threads, or of one, are told apart.
LEMMA OwnersDistinct ==
    ASSUME NEW t \in Threads, NEW u \in Threads
    PROVE  /\ {Entry, Result(t), Candidate(t), Dropped(t)} \subseteq Owner
           /\ Entry \notin {Result(t), Candidate(t), Dropped(t)}
           /\ Result(t) \notin {Candidate(u), Dropped(u)}
           /\ Candidate(t) # Dropped(u)
           /\ t # u => /\ Result(t) # Result(u)
                      /\ Candidate(t) # Candidate(u)
                      /\ Dropped(t) # Dropped(u)
BY DEF Entry, Result, Candidate, Dropped, Owner

\* A client is made outside the lock, and held by its maker alone.
LEMMA ConstructStep ==
    ASSUME ClientsSound, NEW t \in Threads, Construct(t)
    PROVE  ClientsSound'
<1>1. PICK c \in Clients :
        /\ owners[c] = {}
        /\ owners'    = [owners EXCEPT ![c] = {Candidate(t)}]
        /\ builtFor'  = [builtFor EXCEPT ![c] = key[t]]
        /\ candidate' = [candidate EXCEPT ![t] = c]
  BY DEF Construct, InUse
<1>2. /\ pc[t] = "construct"
      /\ pc' = [pc EXCEPT ![t] = "publish"]
      /\ UNCHANGED <<clients, lru, key, client, dropped>>
  BY DEF Construct
<1>3. candidate[t] = NoClient /\ client[t] = NoClient /\ key[t] \in Keys
  BY <1>2 DEF ClientsSound, TypeOK, LocalsMatchPc
<1>4. \A d \in Clients :
        owners'[d] = IF d = c THEN {Candidate(t)} ELSE owners[d]
  BY <1>1 DEF ClientsSound, TypeOK
<1>5. TypeOK'
  BY <1>1, <1>2, OwnersDistinct DEF ClientsSound, TypeOK, Location
<1>6. LocalsMatchPc'
  BY <1>1, <1>2, <1>3, NoClientAssumption DEF ClientsSound, TypeOK, LocalsMatchPc
<1>7. /\ \A u \in Threads : client[u] # c /\ candidate[u] # c /\ dropped[u] # c
      /\ \A k \in DOMAIN clients : clients[k] # c
  BY <1>1, NoClientAssumption DEF ClientsSound, NoUseAfterDestroy
<1>8. RightClient'
  BY <1>1, <1>2, <1>7 DEF ClientsSound, TypeOK, RightClient
<1>9. CandidatePrivate'
  BY <1>1, <1>2, <1>4, <1>7 DEF ClientsSound, TypeOK, CandidatePrivate
<1>10. NoUseAfterDestroy'
  BY <1>1, <1>2, <1>4, <1>7 DEF ClientsSound, TypeOK, NoUseAfterDestroy
<1>11. NoLeakedClient'
  <2>1. ASSUME NEW d \in Clients
        PROVE  Entry \in owners'[d] => \E k \in DOMAIN clients' : clients'[k] = d
    BY <1>2, <1>4, OwnersDistinct DEF ClientsSound, NoLeakedClient
  <2>2. ASSUME NEW d \in Clients, NEW u \in Threads
        PROVE  /\ Result(u) \in owners'[d] => client'[u] = d
               /\ Candidate(u) \in owners'[d] => candidate'[u] = d
               /\ Dropped(u) \in owners'[d] => dropped'[u] = d
    <3>1. CASE d = c
      BY <3>1, <1>1, <1>2, <1>4, OwnersDistinct DEF ClientsSound, TypeOK
    <3>2. CASE d # c
      <4>1. Candidate(t) \notin owners[d]
        BY <1>3, NoClientAssumption DEF ClientsSound, NoLeakedClient
      <4>2. QED
        BY <3>2, <4>1, <1>1, <1>2, <1>4 DEF ClientsSound, TypeOK, NoLeakedClient
    <3>3. QED
      BY <3>1, <3>2
  <2>3. QED
    BY <2>1, <2>2 DEF NoLeakedClient
<1>12. QED
  BY <1>5, <1>6, <1>8, <1>9, <1>10, <1>11 DEF ClientsSound

\* A construction that throws leaves nothing behind.
LEMMA ThrowStep ==
    ASSUME ClientsSound, NEW t \in Threads, ConstructThrows(t)
    PROVE  ClientsSound'
<1> USE DEF ConstructThrows
<1>1. TypeOK'
  BY DEF ClientsSound, TypeOK, Location
<1>2. LocalsMatchPc'
  BY DEF ClientsSound, TypeOK, LocalsMatchPc
<1>3. RightClient' /\ CandidatePrivate'
  BY DEF ClientsSound, TypeOK, LocalsMatchPc, RightClient, CandidatePrivate,
         Candidate
<1>4. NoUseAfterDestroy' /\ NoLeakedClient'
  BY DEF ClientsSound, NoUseAfterDestroy, NoLeakedClient, Result, Candidate,
         Dropped
<1>5. QED
  BY <1>1, <1>2, <1>3, <1>4 DEF ClientsSound

\* Another thread has published first: its client is used, the own one dropped.
LEMMA FoundStep ==
    ASSUME ClientsSound, NEW t \in Threads, PublishFound(t), lru' \in Seq(Keys)
    PROVE  ClientsSound'
<1> DEFINE k == key[t]
           c == clients[k]
           b == candidate[t]
<1>1. /\ k \in DOMAIN clients
      /\ k \in Keys
      /\ c \in Clients
      /\ builtFor[c] = k
      /\ Entry \in owners[c]
  BY DEF PublishFound, Present, ClientsSound, TypeOK, RightClient,
         NoUseAfterDestroy
<1>2. /\ pc[t] = "publish"
      /\ client[t] = NoClient
      /\ dropped[t] = NoClient
      /\ b \in Clients
      /\ owners[b] = {Candidate(t)}
  BY DEF PublishFound, ClientsSound, TypeOK, LocalsMatchPc, CandidatePrivate
<1>3. b # c
  BY <1>1, <1>2, OwnersDistinct
<1>4. TypeOK'
  BY <1>1, <1>2, OwnersDistinct
     DEF PublishFound, ClientsSound, TypeOK, Location
<1>5. \A d \in Clients :
        owners'[d] = IF d = b THEN {Dropped(t)}
                     ELSE IF d = c THEN owners[c] \cup {Result(t)} ELSE owners[d]
  BY <1>1, <1>2, <1>3 DEF PublishFound, ClientsSound, TypeOK
<1>6. /\ pc' = [pc EXCEPT ![t] = "unlocked"]
      /\ client' = [client EXCEPT ![t] = c]
      /\ dropped' = [dropped EXCEPT ![t] = b]
      /\ candidate' = [candidate EXCEPT ![t] = NoClient]
      /\ UNCHANGED <<clients, builtFor, key>>
  BY DEF PublishFound
<1>7. LocalsMatchPc'
  BY <1>1, <1>2, <1>6, NoClientAssumption DEF ClientsSound, TypeOK, LocalsMatchPc
<1>8. RightClient'
  BY <1>1, <1>6 DEF ClientsSound, TypeOK, RightClient
<1>9. \A u \in Threads : u # t =>
         client[u] # b /\ candidate[u] # b /\ dropped[u] # b
  BY <1>2, OwnersDistinct, NoClientAssumption DEF ClientsSound, NoUseAfterDestroy
<1>10. \A e \in DOMAIN clients : clients[e] # b
  BY <1>2, OwnersDistinct DEF ClientsSound, NoUseAfterDestroy
<1>11. CandidatePrivate'
  <2> SUFFICES ASSUME NEW u \in Threads, candidate'[u] # NoClient
               PROVE  /\ owners'[candidate'[u]] = {Candidate(u)}
                      /\ builtFor'[candidate'[u]] = key'[u]
    BY DEF CandidatePrivate
  <2>1. u # t /\ candidate'[u] = candidate[u] /\ candidate[u] \in Clients
    BY <1>6 DEF ClientsSound, TypeOK
  <2>2. candidate[u] # c
    BY <2>1, <1>1, <1>6, OwnersDistinct DEF ClientsSound, CandidatePrivate
  <2>3. /\ owners[candidate[u]] = {Candidate(u)}
        /\ builtFor[candidate[u]] = key[u]
        /\ candidate[u] # b
    BY <2>1, <1>9 DEF ClientsSound, CandidatePrivate
  <2>4. owners'[candidate[u]] = owners[candidate[u]]
    BY <2>1, <2>2, <2>3, <1>5
  <2>5. QED
    BY <2>1, <2>3, <2>4, <1>6
<1>12. NoUseAfterDestroy'
  <2>1. ASSUME NEW u \in Threads
        PROVE  /\ client'[u] # NoClient => Result(u) \in owners'[client'[u]]
               /\ candidate'[u] # NoClient =>
                    Candidate(u) \in owners'[candidate'[u]]
               /\ dropped'[u] # NoClient => Dropped(u) \in owners'[dropped'[u]]
    <3>1. CASE u = t
      BY <3>1, <1>1, <1>2, <1>3, <1>5, <1>6 DEF ClientsSound, TypeOK
    <3>2. CASE u # t
      BY <3>2, <1>5, <1>6, <1>9 DEF ClientsSound, TypeOK, NoUseAfterDestroy
    <3>3. QED
      BY <3>1, <3>2
  <2>2. ASSUME NEW e \in DOMAIN clients'
        PROVE  Entry \in owners'[clients'[e]]
    BY <1>5, <1>6, <1>10 DEF ClientsSound, TypeOK, NoUseAfterDestroy
  <2>3. QED
    BY <2>1, <2>2 DEF NoUseAfterDestroy
<1>13. NoLeakedClient'
  <2>1. ASSUME NEW d \in Clients
        PROVE  Entry \in owners'[d] => \E e \in DOMAIN clients' : clients'[e] = d
    BY <1>1, <1>5, <1>6, OwnersDistinct DEF ClientsSound, NoLeakedClient
  <2>2. ASSUME NEW d \in Clients, NEW u \in Threads
        PROVE  /\ Result(u) \in owners'[d] => client'[u] = d
               /\ Candidate(u) \in owners'[d] => candidate'[u] = d
               /\ Dropped(u) \in owners'[d] => dropped'[u] = d
    <3>1. CASE d = b
      BY <3>1, <1>2, <1>5, <1>6, OwnersDistinct DEF ClientsSound, TypeOK
    <3>2. CASE d # b
      <4>1. /\ Result(t) \notin owners[d]
            /\ Dropped(t) \notin owners[d]
            /\ Candidate(t) \notin owners[d]
        BY <3>2, <1>2, NoClientAssumption DEF ClientsSound, NoLeakedClient
      <4>2. CASE u = t
        BY <3>2, <4>1, <4>2, <1>1, <1>5, <1>6, OwnersDistinct
           DEF ClientsSound, TypeOK
      <4>3. CASE u # t
        <5>1. /\ client'[u] = client[u]
              /\ dropped'[u] = dropped[u]
              /\ candidate'[u] = candidate[u]
          BY <4>3, <1>6 DEF ClientsSound, TypeOK
        <5>2. /\ Result(u) # Result(t)
              /\ Candidate(u) # Result(t)
              /\ Dropped(u) # Result(t)
          BY <4>3, OwnersDistinct
        <5>3. \A o : o \in owners'[d] => o \in owners[d] \/ o = Result(t)
          BY <3>2, <1>5
        <5>4. QED
          BY <5>1, <5>2, <5>3 DEF ClientsSound, NoLeakedClient
      <4>4. QED
        BY <4>2, <4>3
    <3>3. QED
      BY <3>1, <3>2
  <2>3. QED
    BY <2>1, <2>2 DEF NoLeakedClient
<1>14. QED
  BY <1>4, <1>7, <1>8, <1>11, <1>12, <1>13 DEF ClientsSound

\* The own client is published, the oldest entry dropped when the cache is full.
LEMMA InsertStep ==
    ASSUME ClientsSound, NEW t \in Threads, PublishInsert(t), lru' \in Seq(Keys)
    PROVE  ClientsSound'
<1> DEFINE k == key[t]
           b == candidate[t]
<1>1. /\ pc[t] = "publish"
      /\ client[t] = NoClient
      /\ dropped[t] = NoClient
      /\ k \in Keys
      /\ k \notin DOMAIN clients
      /\ b \in Clients
      /\ owners[b] = {Candidate(t)}
      /\ builtFor[b] = k
  BY DEF PublishInsert, Present, ClientsSound, TypeOK, LocalsMatchPc,
         CandidatePrivate
<1>2. /\ pc' = [pc EXCEPT ![t] = "unlocked"]
      /\ client' = [client EXCEPT ![t] = b]
      /\ dropped' = [dropped EXCEPT ![t] = Evicted]
      /\ candidate' = [candidate EXCEPT ![t] = NoClient]
      /\ UNCHANGED <<builtFor, key>>
  BY DEF PublishInsert
<1>3. DOMAIN clients' = KeysKept \cup {k}
  BY DEF PublishInsert
<1>4. /\ clients'[k] = b
      /\ \A e \in KeysKept : clients'[e] = clients[e]
      /\ KeysKept \subseteq DOMAIN clients
  BY <1>1 DEF PublishInsert, KeysKept
<1>5. Evicted # NoClient =>
        /\ Back(lru) \in DOMAIN clients
        /\ clients[Back(lru)] = Evicted
        /\ Evicted \in Clients
        /\ Entry \in owners[Evicted]
        /\ Evicted # b
        /\ \A e \in DOMAIN clients : clients[e] = Evicted => e \notin KeysKept
  <2>1. Evicted # NoClient =>
          /\ Back(lru) \in DOMAIN clients
          /\ clients[Back(lru)] = Evicted
          /\ KeysKept = DOMAIN clients \ {Back(lru)}
    BY DEF Evicted, Evicts, KeysKept, Present
  <2>2. QED
    BY <2>1, <1>1, OwnersDistinct
       DEF ClientsSound, TypeOK, RightClient, NoUseAfterDestroy
<1>6. Evicted \in Clients \cup {NoClient}
  BY <1>5
<1>7. \A d \in Clients :
        owners'[d] = IF d = b THEN {Entry, Result(t)}
                     ELSE IF d = Evicted
                          THEN (owners[d] \ {Entry}) \cup {Dropped(t)}
                          ELSE owners[d]
  BY DEF PublishInsert
<1>8. TypeOK'
  <2>1. owners' \in [Clients -> SUBSET Owner]
    BY OwnersDistinct DEF PublishInsert, ClientsSound, TypeOK
  <2>2. DOMAIN clients' \subseteq Keys
    BY <1>1, <1>3, <1>4 DEF ClientsSound, TypeOK
  <2>3. \A e \in DOMAIN clients' : clients'[e] \in Clients
    BY <1>1, <1>3, <1>4 DEF ClientsSound, TypeOK
  <2>4. QED
    BY <1>1, <1>2, <1>3, <1>6, <2>1, <2>2, <2>3
       DEF ClientsSound, TypeOK, Location
<1>9. LocalsMatchPc'
  BY <1>1, <1>2, NoClientAssumption DEF ClientsSound, TypeOK, LocalsMatchPc
<1>10. RightClient'
  <2>1. \A u \in Threads : client'[u] # NoClient => builtFor'[client'[u]] = key'[u]
    BY <1>1, <1>2 DEF ClientsSound, TypeOK, RightClient
  <2>2. \A e \in DOMAIN clients' : builtFor'[clients'[e]] = e
    BY <1>1, <1>2, <1>3, <1>4 DEF ClientsSound, RightClient
  <2>3. QED
    BY <2>1, <2>2 DEF RightClient
<1>11. \A u \in Threads : u # t =>
         client[u] # b /\ candidate[u] # b /\ dropped[u] # b
  BY <1>1, OwnersDistinct, NoClientAssumption DEF ClientsSound, NoUseAfterDestroy
<1>12. \A e \in DOMAIN clients : clients[e] # b
  BY <1>1, OwnersDistinct DEF ClientsSound, NoUseAfterDestroy
<1>13. CandidatePrivate'
  <2> SUFFICES ASSUME NEW u \in Threads, candidate'[u] # NoClient
               PROVE  /\ owners'[candidate'[u]] = {Candidate(u)}
                      /\ builtFor'[candidate'[u]] = key'[u]
    BY DEF CandidatePrivate
  <2>1. u # t /\ candidate'[u] = candidate[u] /\ candidate[u] \in Clients
    BY <1>2 DEF ClientsSound, TypeOK
  <2>2. candidate[u] # Evicted
    BY <2>1, <1>2, <1>5, OwnersDistinct DEF ClientsSound, CandidatePrivate
  <2>3. /\ owners[candidate[u]] = {Candidate(u)} /\ candidate[u] # b
        /\ builtFor[candidate[u]] = key[u]
    BY <1>11, <2>1 DEF ClientsSound, CandidatePrivate
  <2>4. owners'[candidate[u]] = owners[candidate[u]]
    BY <1>7, <2>1, <2>2, <2>3
  <2>5. builtFor'[candidate[u]] = key'[u]
    BY <1>2, <2>3
  <2>6. QED
    BY <2>1, <2>3, <2>4, <2>5
<1>14. NoUseAfterDestroy'
  <2>1. ASSUME NEW u \in Threads
        PROVE  /\ client'[u] # NoClient => Result(u) \in owners'[client'[u]]
               /\ candidate'[u] # NoClient =>
                    Candidate(u) \in owners'[candidate'[u]]
               /\ dropped'[u] # NoClient => Dropped(u) \in owners'[dropped'[u]]
    <3>1. CASE u = t
      BY <3>1, <1>1, <1>2, <1>5, <1>7 DEF ClientsSound, TypeOK
    <3>2. CASE u # t
      <4>1. /\ client'[u] = client[u] /\ client[u] \in Clients \cup {NoClient}
            /\ candidate'[u] = candidate[u]
            /\ candidate[u] \in Clients \cup {NoClient}
            /\ dropped'[u] = dropped[u]
            /\ dropped[u] \in Clients \cup {NoClient}
        BY <3>2, <1>2 DEF ClientsSound, TypeOK
      <4>2. /\ client[u] # NoClient => Result(u) \in owners[client[u]]
            /\ candidate[u] # NoClient => Candidate(u) \in owners[candidate[u]]
            /\ dropped[u] # NoClient => Dropped(u) \in owners[dropped[u]]
        BY <1>1 DEF ClientsSound, NoUseAfterDestroy
      <4>3. Result(u) # Entry /\ Candidate(u) # Entry /\ Dropped(u) # Entry
        BY OwnersDistinct
      <4>4. \A d \in Clients : \A o : d # b /\ o \in owners[d] /\ o # Entry
                                   => o \in owners'[d]
        BY <1>7
      <4>5. client[u] # b /\ candidate[u] # b /\ dropped[u] # b
        BY <3>2, <1>11
      <4>6. client'[u] # NoClient => Result(u) \in owners'[client'[u]]
        BY ONLY <4>1, <4>2, <4>3, <4>4, <4>5
      <4>7. candidate'[u] # NoClient =>
              Candidate(u) \in owners'[candidate'[u]]
        BY ONLY <4>1, <4>2, <4>3, <4>4, <4>5
      <4>8. dropped'[u] # NoClient => Dropped(u) \in owners'[dropped'[u]]
        BY ONLY <4>1, <4>2, <4>3, <4>4, <4>5
      <4>9. QED
        BY <4>6, <4>7, <4>8
    <3>3. QED
      BY <3>1, <3>2
  <2>2. ASSUME NEW e \in DOMAIN clients'
        PROVE  Entry \in owners'[clients'[e]]
    <3>1. CASE e = k
      BY <3>1, <1>1, <1>4, <1>7
    <3>2. CASE e # k
      <4>1. e \in KeysKept /\ clients'[e] = clients[e] /\ clients[e] \in Clients
        BY <3>2, <1>3, <1>4 DEF ClientsSound, TypeOK
      <4>2. clients[e] # Evicted
        BY <4>1, <1>4, <1>5, NoClientAssumption
      <4>3. QED
        BY <4>1, <4>2, <1>4, <1>7, <1>12 DEF ClientsSound, NoUseAfterDestroy
    <3>3. QED
      BY <3>1, <3>2
  <2>3. QED
    BY <2>1, <2>2 DEF NoUseAfterDestroy
<1>15. NoLeakedClient'
  <2>1. ASSUME NEW d \in Clients, Entry \in owners'[d]
        PROVE  \E e \in DOMAIN clients' : clients'[e] = d
    <3>1. CASE d = b
      BY <3>1, <1>3, <1>4
    <3>2. CASE d # b
      <4>1. d # Evicted /\ Entry \in owners[d]
        BY <2>1, <3>2, <1>7, OwnersDistinct
      <4>2. PICK e \in DOMAIN clients : clients[e] = d
        BY <4>1 DEF ClientsSound, NoLeakedClient
      <4>3. e \in KeysKept
        BY <4>1, <4>2 DEF KeysKept, Evicted
      <4>4. QED
        BY <4>2, <4>3, <1>3, <1>4
    <3>3. QED
      BY <3>1, <3>2
  <2>2. ASSUME NEW d \in Clients, NEW u \in Threads
        PROVE  /\ Result(u) \in owners'[d] => client'[u] = d
               /\ Candidate(u) \in owners'[d] => candidate'[u] = d
               /\ Dropped(u) \in owners'[d] => dropped'[u] = d
    <3>1. CASE d = b
      <4>1. owners'[d] = {Entry, Result(t)}
        BY <3>1, <1>7
      <4>2. /\ Candidate(u) \notin owners'[d] /\ Dropped(u) \notin owners'[d]
            /\ Result(u) \in owners'[d] => u = t
        BY <4>1, OwnersDistinct
      <4>3. client'[t] = b
        BY <1>2 DEF ClientsSound, TypeOK
      <4>4. QED
        BY <3>1, <4>2, <4>3
    <3>2. CASE d # b
      <4>1. /\ Result(t) \notin owners[d]
            /\ Dropped(t) \notin owners[d]
            /\ Candidate(t) \notin owners[d]
        BY <3>2, <1>1, NoClientAssumption DEF ClientsSound, NoLeakedClient
      <4>2. CASE u = t
        <5>1. /\ client'[t] = b
              /\ dropped'[t] = Evicted
              /\ candidate'[t] = NoClient
          BY <1>2 DEF ClientsSound, TypeOK
        <5>2. CASE d = Evicted
          BY <3>2, <4>1, <4>2, <5>1, <5>2, <1>7, OwnersDistinct
        <5>3. CASE d # Evicted
          BY <3>2, <4>1, <4>2, <5>3, <1>7
        <5>4. QED
          BY <5>2, <5>3
      <4>3. CASE u # t
        <5>1. /\ client'[u] = client[u]
              /\ dropped'[u] = dropped[u]
              /\ candidate'[u] = candidate[u]
          BY <4>3, <1>2 DEF ClientsSound, TypeOK
        <5>2. /\ Result(u) # Dropped(t)
              /\ Candidate(u) # Dropped(t)
              /\ Dropped(u) # Dropped(t)
          BY <4>3, OwnersDistinct
        <5>3. \A o : o \in owners'[d] => o \in owners[d] \/ o = Dropped(t)
          BY <3>2, <1>7
        <5>4. QED
          BY <5>1, <5>2, <5>3 DEF ClientsSound, NoLeakedClient
      <4>4. QED
        BY <4>2, <4>3
    <3>3. QED
      BY <3>1, <3>2
  <2>3. QED
    BY <2>1, <2>2 DEF NoLeakedClient
<1>16. QED
  BY <1>8, <1>9, <1>10, <1>13, <1>14, <1>15 DEF ClientsSound

\* A client that is not needed any more goes after the unlock.
LEMMA DropStep ==
    ASSUME ClientsSound, NEW t \in Threads, DropUnlocked(t)
    PROVE  ClientsSound'
<1>1. /\ pc[t] = "unlocked"
      /\ pc' = [pc EXCEPT ![t] = "call"]
      /\ dropped' = [dropped EXCEPT ![t] = NoClient]
      /\ UNCHANGED <<clients, lru, key, candidate, client>>
      /\ \A d \in Clients : owners'[d] = owners[d] \ {Dropped(t)}
  BY DEF DropUnlocked
<1>2. \A d \in Clients :
          owners'[d] # {} => builtFor'[d] = builtFor[d]
  BY DEF DropUnlocked, AfterDestruction
<1>3. TypeOK'
  <2>1. /\ owners' \in [Clients -> SUBSET Owner]
        /\ builtFor' \in [Clients -> Keys \cup {NoKey}]
    BY DEF DropUnlocked, AfterDestruction, ClientsSound, TypeOK
  <2>2. QED
    BY <1>1, <2>1 DEF ClientsSound, TypeOK, Location
<1>4. LocalsMatchPc'
  BY <1>1 DEF ClientsSound, TypeOK, LocalsMatchPc
<1>5. NoUseAfterDestroy'
  <2>1. ASSUME NEW u \in Threads
        PROVE  /\ client'[u] # NoClient => Result(u) \in owners'[client'[u]]
               /\ candidate'[u] # NoClient =>
                    Candidate(u) \in owners'[candidate'[u]]
               /\ dropped'[u] # NoClient => Dropped(u) \in owners'[dropped'[u]]
    BY <1>1, OwnersDistinct DEF ClientsSound, TypeOK, NoUseAfterDestroy
  <2>2. ASSUME NEW e \in DOMAIN clients'
        PROVE  Entry \in owners'[clients'[e]]
    BY <1>1, OwnersDistinct DEF ClientsSound, TypeOK, NoUseAfterDestroy
  <2>3. QED
    BY <2>1, <2>2 DEF NoUseAfterDestroy
<1>6. RightClient'
  BY <1>1, <1>3, <1>5, <1>2
     DEF ClientsSound, TypeOK, RightClient, NoUseAfterDestroy
<1>7. CandidatePrivate'
  <2> SUFFICES ASSUME NEW u \in Threads, candidate[u] # NoClient
               PROVE  /\ owners'[candidate[u]] = {Candidate(u)}
                      /\ builtFor'[candidate[u]] = key[u]
    BY <1>1 DEF CandidatePrivate
  <2>1. candidate[u] \in Clients
    BY DEF ClientsSound, TypeOK
  <2>2. /\ owners[candidate[u]] = {Candidate(u)}
        /\ builtFor[candidate[u]] = key[u]
    BY DEF ClientsSound, CandidatePrivate
  <2>3. owners'[candidate[u]] = {Candidate(u)}
    BY <2>1, <2>2, <1>1, OwnersDistinct
  <2>4. QED
    BY <2>1, <2>2, <2>3, <1>2
<1>8. NoLeakedClient'
  <2>1. ASSUME NEW d \in Clients
        PROVE  Entry \in owners'[d] => \E e \in DOMAIN clients' : clients'[e] = d
    BY <1>1 DEF ClientsSound, NoLeakedClient
  <2>2. ASSUME NEW d \in Clients, NEW u \in Threads
        PROVE  /\ Result(u) \in owners'[d] => client'[u] = d
               /\ Candidate(u) \in owners'[d] => candidate'[u] = d
               /\ Dropped(u) \in owners'[d] => dropped'[u] = d
    BY <1>1 DEF ClientsSound, TypeOK, NoLeakedClient
  <2>3. QED
    BY <2>1, <2>2 DEF NoLeakedClient
<1>9. QED
  BY <1>3, <1>4, <1>6, <1>7, <1>5, <1>8 DEF ClientsSound

\* The call ends and gives its client back.
LEMMA FinishStep ==
    ASSUME ClientsSound, NEW t \in Threads, FinishCall(t)
    PROVE  ClientsSound'
<1>1. /\ pc[t] = "call"
      /\ pc' = [pc EXCEPT ![t] = "idle"]
      /\ client' = [client EXCEPT ![t] = NoClient]
      /\ key' = [key EXCEPT ![t] = NoKey]
      /\ UNCHANGED <<clients, lru, candidate, dropped>>
      /\ \A d \in Clients : owners'[d] = owners[d] \ {Result(t)}
  BY DEF FinishCall
<1>2. \A d \in Clients :
          owners'[d] # {} => builtFor'[d] = builtFor[d]
  BY DEF FinishCall, AfterDestruction
<1>3. candidate[t] = NoClient /\ dropped[t] = NoClient
  BY <1>1 DEF ClientsSound, LocalsMatchPc
<1>4. TypeOK'
  <2>1. /\ owners' \in [Clients -> SUBSET Owner]
        /\ builtFor' \in [Clients -> Keys \cup {NoKey}]
    BY DEF FinishCall, AfterDestruction, ClientsSound, TypeOK
  <2>2. QED
    BY <1>1, <2>1 DEF ClientsSound, TypeOK, Location
<1>5. LocalsMatchPc'
  BY <1>1, <1>3 DEF ClientsSound, TypeOK, LocalsMatchPc
<1>6. NoUseAfterDestroy'
  <2>1. ASSUME NEW u \in Threads
        PROVE  /\ client'[u] # NoClient => Result(u) \in owners'[client'[u]]
               /\ candidate'[u] # NoClient =>
                    Candidate(u) \in owners'[candidate'[u]]
               /\ dropped'[u] # NoClient => Dropped(u) \in owners'[dropped'[u]]
    BY <1>1, OwnersDistinct DEF ClientsSound, TypeOK, NoUseAfterDestroy
  <2>2. ASSUME NEW e \in DOMAIN clients'
        PROVE  Entry \in owners'[clients'[e]]
    BY <1>1, OwnersDistinct DEF ClientsSound, TypeOK, NoUseAfterDestroy
  <2>3. QED
    BY <2>1, <2>2 DEF NoUseAfterDestroy
<1>7. RightClient'
  BY <1>1, <1>4, <1>6, <1>2
     DEF ClientsSound, TypeOK, RightClient, NoUseAfterDestroy
<1>8. CandidatePrivate'
  <2> SUFFICES ASSUME NEW u \in Threads, candidate[u] # NoClient
               PROVE  /\ owners'[candidate[u]] = {Candidate(u)}
                      /\ builtFor'[candidate[u]] = key'[u]
    BY <1>1 DEF CandidatePrivate
  <2>1. candidate[u] \in Clients /\ key'[u] = key[u]
    BY <1>1, <1>3 DEF ClientsSound, TypeOK
  <2>2. /\ owners[candidate[u]] = {Candidate(u)}
        /\ builtFor[candidate[u]] = key[u]
    BY DEF ClientsSound, CandidatePrivate
  <2>3. owners'[candidate[u]] = {Candidate(u)}
    BY <2>1, <2>2, <1>1, OwnersDistinct
  <2>4. QED
    BY <2>1, <2>2, <2>3, <1>2
<1>9. NoLeakedClient'
  <2>1. ASSUME NEW d \in Clients
        PROVE  Entry \in owners'[d] => \E e \in DOMAIN clients' : clients'[e] = d
    BY <1>1 DEF ClientsSound, NoLeakedClient
  <2>2. ASSUME NEW d \in Clients, NEW u \in Threads
        PROVE  /\ Result(u) \in owners'[d] => client'[u] = d
               /\ Candidate(u) \in owners'[d] => candidate'[u] = d
               /\ Dropped(u) \in owners'[d] => dropped'[u] = d
    BY <1>1 DEF ClientsSound, TypeOK, NoLeakedClient
  <2>3. QED
    BY <2>1, <2>2 DEF NoLeakedClient
<1>10. QED
  BY <1>4, <1>5, <1>7, <1>8, <1>6, <1>9 DEF ClientsSound

-----------------------------------------------------------------------------

\* A step that changes nothing
LEMMA StutterStep ==
    ASSUME ClientsSound, UNCHANGED vars
    PROVE  ClientsSound'
<1> USE DEF vars
<1>1. TypeOK'
  BY DEF ClientsSound, TypeOK
<1>2. (RightClient /\ NoUseAfterDestroy /\ NoLeakedClient)'
  BY DEF ClientsSound, RightClient, NoUseAfterDestroy, NoLeakedClient, Result,
         Candidate, Dropped
<1>3. (LocalsMatchPc /\ CandidatePrivate)'
  BY DEF ClientsSound, LocalsMatchPc, CandidatePrivate, Candidate
<1>4. QED
  BY <1>1, <1>2, <1>3 DEF ClientsSound

\* Whatever a step does to the list, the clients stay sound.
LEMMA SoundStep ==
    ASSUME ClientsSound, [Next]_vars, lru' \in Seq(Keys)
    PROVE  ClientsSound'
<1>1. CASE UNCHANGED vars
  BY <1>1, StutterStep
<1>2. ASSUME NEW t \in Threads, CacheStep(t) PROVE ClientsSound'
  BY <1>2, HitStep, MissStep, ConstructStep, ThrowStep, FoundStep,
     InsertStep, DropStep, FinishStep DEF CacheStep
<1>3. ASSUME NEW t \in Threads, NEW k \in Keys, Request(t, k)
      PROVE  ClientsSound'
  BY <1>3, RequestStep
<1>4. QED
  BY <1>1, <1>2, <1>3 DEF Next

\* Only the steps of cached_client and publish_client that find or insert a key
\* change the list or the map.
LEMMA OtherStepsKeepCache ==
    ASSUME NEW t \in Threads, CacheStep(t),
           ~ CachedClientHit(t), ~ PublishFound(t), ~ PublishInsert(t)
    PROVE  UNCHANGED <<clients, lru>>
BY DEF CacheStep, CachedClientMiss, Construct, ConstructThrows, DropUnlocked,
       FinishCall

-----------------------------------------------------------------------------

\* What publish_client does to the list and the map when it inserts: the
\* evicted key is the one at the back, and it is always in the map.
LEMMA InsertKeepsCache ==
    ASSUME CacheInv, NEW t \in Threads, PublishInsert(t)
    PROVE  /\ IsFiniteSet(DOMAIN clients)'
           /\ ListMatchesMap'
           /\ CacheBounded'
           /\ lru' \in Seq(Keys)
           /\ DOMAIN clients' = KeysKept \cup {key[t]}
           /\ Full => Back(lru) \in DOMAIN clients
<1> DEFINE k == key[t]
           D == DOMAIN clients
<1>1. /\ lru \in Seq(Keys)
      /\ NoRepeat(lru)
      /\ Listed(lru) = D
      /\ IsFiniteSet(D)
      /\ Cardinality(D) <= MaxClients
      /\ Cardinality(D) \in Nat
  BY FS_CardinalityType
     DEF CacheInv, TypeOK, ListMatchesMap, NoRepeat, Listed, CacheBounded
<1>2. k \in Keys /\ k \notin D
  BY DEF PublishInsert, Present, CacheInv, TypeOK, LocalsMatchPc
<1>3. DOMAIN clients' = KeysKept \cup {k} /\ lru' = <<k>> \o NodesKept
  BY DEF PublishInsert
<1>4. /\ NodesKept \in Seq(Keys)
      /\ NoRepeat(NodesKept)
      /\ Listed(NodesKept) = KeysKept
      /\ Full => Back(lru) \in D
      /\ IsFiniteSet(KeysKept)
      /\ Cardinality(KeysKept) <= MaxClients - 1
  <2>1. CASE Full
    <3>1. Len(lru) > 0
      <4>1. D # {}
        BY <2>1, FS_EmptySet, MaxClientsAssumption DEF Full
      <4>2. PICK i \in 1..Len(lru) : TRUE
        BY <4>1, <1>1 DEF Listed
      <4>3. QED
        BY <1>1
    <3>2. /\ SubSeq(lru, 1, Len(lru) - 1) \in Seq(Keys)
          /\ NoRepeat(SubSeq(lru, 1, Len(lru) - 1))
          /\ Listed(SubSeq(lru, 1, Len(lru) - 1)) = D \ {Back(lru)}
          /\ Back(lru) \in D
      BY <1>1, <3>1, PopRemoves
    <3>3. KeysKept = D \ {Back(lru)}
      BY <2>1, <3>2 DEF KeysKept, Evicts, Present
    <3>4. /\ IsFiniteSet(D \ {Back(lru)})
          /\ Cardinality(D \ {Back(lru)}) = Cardinality(D) - 1
      BY <1>1, <3>2, FS_RemoveElement
    <3>5. NodesKept = SubSeq(lru, 1, Len(lru) - 1)
      BY <2>1 DEF NodesKept
    <3>6. Cardinality(KeysKept) <= MaxClients - 1
      BY <1>1, <3>3, <3>4, MaxClientsAssumption
    <3>7. QED
      BY <3>2, <3>3, <3>4, <3>5, <3>6, Zenon
  <2>2. CASE ~ Full
    <3>1. KeysKept = D
      BY <2>2 DEF KeysKept, Evicts
    <3>2. Cardinality(D) <= MaxClients - 1
      BY <1>1, <2>2, MaxClientsAssumption DEF Full
    <3>3. QED
      BY <1>1, <2>2, <3>1, <3>2 DEF NodesKept
  <2>3. QED
    BY <2>1, <2>2
<1>5. k \notin KeysKept
  BY <1>2 DEF KeysKept
<1>6. /\ lru' \in Seq(Keys)
      /\ NoRepeat(lru')
      /\ Listed(lru') = KeysKept \cup {k}
  BY <1>2, <1>3, <1>4, <1>5, PushAdds
<1>7. ListMatchesMap'
  BY <1>3, <1>6 DEF ListMatchesMap, NoRepeat, Listed
<1>8. IsFiniteSet(KeysKept \cup {k}) /\ Cardinality(KeysKept \cup {k}) <= MaxClients
  <2>1. Cardinality(KeysKept) \in Nat
    BY <1>4, FS_CardinalityType
  <2>2. /\ IsFiniteSet(KeysKept \cup {k})
        /\ Cardinality(KeysKept \cup {k}) = Cardinality(KeysKept) + 1
    BY <1>4, <1>5, FS_AddElement
  <2>3. QED
    BY <1>4, <2>1, <2>2, MaxClientsAssumption
<1>9. QED
  BY <1>3, <1>4, <1>6, <1>7, <1>8 DEF CacheBounded

\* Without a failed allocation every step keeps the list and the map in
\* agreement, and the cache within its bound.
LEMMA ListStep ==
    ASSUME CacheInv, [Next]_vars
    PROVE  /\ lru' \in Seq(Keys)
           /\ IsFiniteSet(DOMAIN clients)'
           /\ ListMatchesMap'
           /\ CacheBounded'
<1> DEFINE Kept == /\ lru' \in Seq(Keys)
                   /\ IsFiniteSet(DOMAIN clients)'
                   /\ ListMatchesMap'
                   /\ CacheBounded'
<1>1. ASSUME UNCHANGED <<clients, lru>> PROVE Kept
  BY <1>1 DEF CacheInv, TypeOK, ListMatchesMap, CacheBounded
<1>2. ASSUME NEW t \in Threads, CachedClientHit(t) \/ PublishFound(t)
      PROVE  Kept
  <2>1. /\ key[t] \in DOMAIN clients
        /\ UNCHANGED clients
        /\ lru' = Touched(lru, key[t])
    BY <1>2 DEF CachedClientHit, PublishFound, Present
  <2>2. /\ lru' \in Seq(Keys)
        /\ NoRepeat(lru')
        /\ Listed(lru') = Listed(lru)
    BY <2>1, TouchKeepsList
  <2>3. QED
    BY <2>1, <2>2, SameCache
<1>3. ASSUME NEW t \in Threads, PublishInsert(t)
      PROVE  Kept
  BY <1>3, InsertKeepsCache
<1> HIDE DEF Kept
<1>4. ASSUME NEW t \in Threads, CacheStep(t) PROVE Kept
  BY <1>1, <1>2, <1>3, <1>4, OtherStepsKeepCache
<1>5. ASSUME NEW t \in Threads, NEW k \in Keys, Request(t, k) PROVE Kept
  BY <1>1, <1>5 DEF Request
<1>6. ASSUME UNCHANGED vars PROVE Kept
  BY <1>1, <1>6 DEF vars
<1>7. Kept
  BY <1>4, <1>5, <1>6 DEF Next
<1>8. QED
  BY <1>7 DEF Kept

\* Every step of client_for keeps the invariant.
LEMMA NextCache == CacheInv /\ [Next]_vars => CacheInv'
<1> SUFFICES ASSUME CacheInv, [Next]_vars PROVE CacheInv'
  OBVIOUS
<1>1. ClientsSound
  BY DEF CacheInv, ClientsSound
<1>2. /\ lru' \in Seq(Keys)
      /\ IsFiniteSet(DOMAIN clients)'
      /\ ListMatchesMap'
      /\ CacheBounded'
  BY ListStep
<1>3. ClientsSound'
  BY <1>1, <1>2, SoundStep
<1>4. QED
  BY <1>2, <1>3 DEF CacheInv, ClientsSound

\* Every step of client_for, by any thread, preserves the whole invariant.
THEOREM CacheInvariant == Spec => []CacheInv
BY InitCache, NextCache, PTL DEF Spec

\* Type correctness of the cache and of every thread inside client_for.
THEOREM TypeCorrect == Spec => []TypeOK
<1>1. CacheInv => TypeOK
  BY DEF CacheInv
<1>2. QED
  BY CacheInvariant, <1>1, PTL

\* The list and the map of publish_client and touch_lru always agree, and the
\* cache never holds more than MaxClients clients, whatever kMaxClients is.
THEOREM CacheConsistent == Spec => [](ListMatchesMap /\ CacheBounded)
<1>1. CacheInv => ListMatchesMap /\ CacheBounded
  BY DEF CacheInv
<1>2. QED
  BY CacheInvariant, <1>1, PTL

\* No thread ever calls through a client built for another key.
THEOREM AlwaysRightClient == Spec => []RightClient
<1>1. CacheInv => RightClient
  BY DEF CacheInv
<1>2. QED
  BY CacheInvariant, <1>1, PTL

\* Eviction and lost races never destroy a client that is still reachable, and
\* leave none behind that is not.
THEOREM OwnershipSound == Spec => []OwnersExact
<1>1. CacheInv => OwnersExact
  BY DEF CacheInv, OwnersExact
<1>2. QED
  BY CacheInvariant, <1>1, PTL

-----------------------------------------------------------------------------
(***************************************************************************)
(* What a step may never do                                                *)
(***************************************************************************)
\* What a thread receives from client_for is what the map has for its key.
LEMMA HandedOverCached ==
    ASSUME CacheInv, [Next]_vars, NEW t \in Threads,
           client'[t] # client[t], client'[t] # NoClient
    PROVE  key[t] \in DOMAIN clients' /\ clients'[key[t]] = client'[t]
<1>1. client \in [Threads -> Clients \cup {NoClient}]
  BY DEF CacheInv, TypeOK
<1>2. ASSUME NEW u \in Threads, CachedClientHit(u) \/ PublishFound(u)
      PROVE  key[t] \in DOMAIN clients' /\ clients'[key[t]] = client'[t]
  <2>1. /\ client' = [client EXCEPT ![u] = clients[key[u]]]
        /\ key[u] \in DOMAIN clients /\ UNCHANGED clients
    BY <1>2 DEF CachedClientHit, PublishFound, Present
  <2>2. t = u
    BY <1>1, <2>1
  <2>3. QED
    BY <1>1, <2>1, <2>2
<1>3. ASSUME NEW u \in Threads, PublishInsert(u)
      PROVE  key[t] \in DOMAIN clients' /\ clients'[key[t]] = client'[t]
  <2>1. /\ client' = [client EXCEPT ![u] = candidate[u]]
        /\ clients' = [k \in KeysKept \cup {key[u]} |->
                          IF k = key[u] THEN candidate[u] ELSE clients[k]]
    BY <1>3 DEF PublishInsert
  <2>2. t = u
    BY <1>1, <2>1
  <2>3. QED
    BY <1>1, <2>1, <2>2
<1>4. ASSUME NEW u \in Threads, FinishCall(u)
      PROVE  FALSE
  BY <1>1, <1>4 DEF FinishCall
<1>5. ASSUME NEW u \in Threads,
             \/ CachedClientMiss(u) \/ Construct(u) \/ ConstructThrows(u)
             \/ DropUnlocked(u) \/ \E k \in Keys : Request(u, k)
      PROVE  FALSE
  BY <1>5 DEF CachedClientMiss, Construct, ConstructThrows, DropUnlocked, Request
<1>6. CASE UNCHANGED vars
  BY <1>6 DEF vars
<1>7. QED
  BY <1>2, <1>3, <1>4, <1>5, <1>6 DEF Next, CacheStep

\* A client that loses its last owner is in no entry, and the lock is not held.
LEMMA DestroyedByLastUser ==
    ASSUME CacheInv, [Next]_vars, NEW c \in Clients, InUse(c), ~ InUse(c)'
    PROVE  (\A k \in DOMAIN clients : clients[k] # c) /\ UNCHANGED <<clients, lru>>
<1>1. owners \in [Clients -> SUBSET Owner] /\ owners[c] # {} /\ owners'[c] = {}
  BY DEF CacheInv, TypeOK, InUse
<1>2. ASSUME NEW t \in Threads, CachedClientHit(t) \/ PublishFound(t) \/ PublishInsert(t)
      PROVE  FALSE
  <2>1. CASE CachedClientHit(t)
    BY <1>1, <2>1 DEF CachedClientHit
  <2>2. CASE PublishFound(t)
    BY <1>1, <2>2 DEF PublishFound
  <2>3. CASE PublishInsert(t)
    BY <1>1, <2>3 DEF PublishInsert
  <2>4. QED
    BY <1>2, <2>1, <2>2, <2>3
<1>3. ASSUME NEW t \in Threads, Construct(t)
      PROVE  FALSE
  BY <1>1, <1>3 DEF Construct
<1>4. ASSUME NEW t \in Threads, DropUnlocked(t) \/ FinishCall(t)
      PROVE  (\A k \in DOMAIN clients : clients[k] # c) /\ UNCHANGED <<clients, lru>>
  <2>1. UNCHANGED <<clients, lru>>
    BY <1>4 DEF DropUnlocked, FinishCall
  <2>2. PICK own \in {Dropped(t), Result(t)} : owners'[c] = owners[c] \ {own}
    BY <1>4 DEF DropUnlocked, FinishCall
  <2>3. Entry \notin owners[c]
    BY <1>1, <2>2, OwnersDistinct
  <2>4. QED
    BY <2>1, <2>3 DEF CacheInv, NoUseAfterDestroy
<1>5. ASSUME NEW t \in Threads,
             \/ CachedClientMiss(t) \/ ConstructThrows(t) \/ \E k \in Keys : Request(t, k)
      PROVE  FALSE
  BY <1>1, <1>5 DEF CachedClientMiss, ConstructThrows, Request
<1>6. CASE UNCHANGED vars
  BY <1>1, <1>6 DEF vars
<1>7. QED
  BY <1>2, <1>3, <1>4, <1>5, <1>6 DEF Next, CacheStep

\* publish_client: a thread leaves client_for with the client that is cached, so
\* those who race to build one share the winner's.
THEOREM AlwaysOneSharedClient == Spec => OneSharedClient
<1>1. CacheInv /\ [Next]_vars =>
        \A t \in Threads :
            client'[t] # client[t] /\ client'[t] # NoClient =>
                /\ key[t] \in DOMAIN clients'
                /\ clients'[key[t]] = client'[t]
  BY HandedOverCached
<1>2. QED
  BY <1>1, CacheInvariant, PTL DEF Spec, OneSharedClient

\* publish_client and the callers of client_for: a client is only destroyed by its
\* last user, not by an eviction, and never under clients_mutex.
THEOREM AlwaysDestroyedUnlocked == Spec => DestroyedUnlocked
<1>1. CacheInv /\ [Next]_vars =>
        \A c \in Clients :
            InUse(c) /\ ~ InUse(c)' =>
                /\ \A k \in DOMAIN clients : clients[k] # c
                /\ UNCHANGED <<clients, lru>>
  BY DestroyedByLastUser
<1>2. QED
  BY <1>1, CacheInvariant, PTL DEF Spec, DestroyedUnlocked

-----------------------------------------------------------------------------
(***************************************************************************)
(* The promise of KmsClientService, but for its fairness                   *)
(***************************************************************************)
\* What a caller of client_for sees of itself: where it is, and the key asked for
Phases == [t \in Threads |-> PhaseOf(t)]
ServedKeys == [t \in Threads |-> ServedKeyOf(t)]

\* A thread that has a client is served through one of its own key.
LEMMA ServedIsOwnKey ==
    ASSUME CacheInv, NEW t \in Threads
    PROVE  ServedKeyOf(t) = key[t]
<1>1. pc[t] \in Location
  BY DEF CacheInv, TypeOK
<1>2. CASE PhaseOf(t) # "using"
  BY <1>2 DEF ServedKeyOf
<1>3. CASE PhaseOf(t) = "using"
  <2>1. pc[t] \in {"unlocked", "call"}
    BY <1>1, <1>3 DEF PhaseOf, Location
  <2>2. client[t] # NoClient
    BY <2>1 DEF CacheInv, LocalsMatchPc
  <2>3. InUse(client[t]) /\ builtFor[client[t]] = key[t]
    BY <2>2 DEF CacheInv, NoUseAfterDestroy, RightClient, InUse
  <2>4. QED
    BY <1>3, <2>3 DEF ServedKeyOf
<1>4. QED
  BY <1>2, <1>3

\* The keys served are those of the threads, before a step and after it.
LEMMA ServedKeysAreKeys ==
    ASSUME CacheInv
    PROVE  ServedKeys = key
<1>1. key \in [Threads -> Keys \cup {NoKey}]
  BY DEF CacheInv, TypeOK
<1>2. \A t \in Threads : ServedKeys[t] = key[t]
  BY ServedIsOwnKey DEF ServedKeys
<1>3. ServedKeys = [t \in Threads |-> ServedKeys[t]]
  BY DEF ServedKeys
<1>4. QED
  BY <1>1, <1>2, <1>3

\* Only the phase of the thread that takes the step changes, as its step says.
LEMMA PhaseMoves ==
    ASSUME CacheInv, NEW t \in Threads, NEW step \in Location,
           pc' = [pc EXCEPT ![t] = step]
    PROVE  Phases' = [Phases EXCEPT ![t] =
                         IF step = "idle" THEN "idle"
                         ELSE IF step \in {"unlocked", "call"} THEN "using"
                         ELSE "waiting"]
<1>1. pc \in [Threads -> Location]
  BY DEF CacheInv, TypeOK
<1>2. \A u \in Threads : u # t => pc'[u] = pc[u]
  BY <1>1
<1>3. pc'[t] = step
  BY <1>1
<1>4. \A u \in Threads : u # t => PhaseOf(u)' = PhaseOf(u)
  BY <1>2 DEF PhaseOf
<1>5. PhaseOf(t)' = IF step = "idle" THEN "idle"
                    ELSE IF step \in {"unlocked", "call"} THEN "using"
                    ELSE "waiting"
  BY <1>3 DEF PhaseOf, Location
<1>6. QED
  BY <1>4, <1>5 DEF Phases

\* The map keeps what it has but for one entry at most, and within its bound.
LEMMA SharedKeysKept ==
    ASSUME CacheInv, CacheInv', NEW k \in Keys,
           DOMAIN clients' \subseteq DOMAIN clients \cup {k},
           DOMAIN clients \ DOMAIN clients' \subseteq {Back(lru)}
    PROVE  /\ (DOMAIN clients)' \in SUBSET (DOMAIN clients \cup {k})
           /\ Cardinality((DOMAIN clients)') <= MaxClients
           /\ Cardinality(DOMAIN clients \ (DOMAIN clients)') <= 1
<1>1. Cardinality((DOMAIN clients)') <= MaxClients
  BY DEF CacheInv, CacheBounded
<1>2. IsFiniteSet({Back(lru)}) /\ Cardinality({Back(lru)}) = 1
  BY FS_Singleton
<1>3. Cardinality(DOMAIN clients \ DOMAIN clients') <= 1
  BY <1>2, FS_Subset
<1>4. QED
  BY <1>1, <1>3

\* The service counts as the cache does.
LEMMA SameCardinality ==
    \A S : Service!Cardinality(S) = Cardinality(S)
BY Zenon DEF Cardinality, Service!Cardinality

\* A step of the cache is one of the service, or is not seen.
LEMMA CacheStepServes ==
    ASSUME CacheInv, CacheInv', [Next]_vars
    PROVE  [Service!ServiceNext]_(Service!serviceVars)
<1> DEFINE shared == DOMAIN clients
<1>1. /\ ServedKeys = key /\ ServedKeys' = key'
      /\ Service!serviceVars = <<Phases, ServedKeys, shared>>
      /\ Service!serviceVars' = <<Phases', ServedKeys', shared'>>
  <2>1. ServedKeys = key
    BY ServedKeysAreKeys
  <2>2. (CacheInv => ServedKeys = key)'
    BY ServedKeysAreKeys, PTL
  <2>3. QED
    BY <2>1, <2>2 DEF Service!serviceVars, Phases, ServedKeys
<1>2. /\ key \in [Threads -> Keys \cup {NoKey}] /\ pc \in [Threads -> Location]
      /\ \A t \in Threads : pc[t] = "idle" <=> key[t] = NoKey
  BY DEF CacheInv, TypeOK, LocalsMatchPc
<1>3. \A t \in Threads : /\ Phases[t] = "idle" <=> pc[t] = "idle"
                         /\ Phases[t] = "using" <=> pc[t] \in {"unlocked", "call"}
                         /\ Phases[t] \in {"idle", "waiting", "using"}
  BY <1>2 DEF Phases, PhaseOf, Location
<1>4. ASSUME NEW t \in Threads, NEW k \in Keys, Request(t, k)
      PROVE  Service!ServiceNext
  <2>1. Phases' = [Phases EXCEPT ![t] = "waiting"]
    BY <1>4, PhaseMoves DEF Request, Location
  <2>2. key' = [key EXCEPT ![t] = k] /\ Phases[t] = "idle" /\ UNCHANGED shared
    BY <1>3, <1>4 DEF Request
  <2>3. Service!Ask(t, k)
    BY <1>1, <2>1, <2>2 DEF Service!Ask, Phases, ServedKeys
  <2>4. QED
    BY <2>3 DEF Service!ServiceNext
<1>5. ASSUME NEW t \in Threads, pc[t] \in {"lookup", "publish"},
             NEW step \in {"unlocked", "call"}, pc' = [pc EXCEPT ![t] = step],
             UNCHANGED key, key[t] \in shared',
             shared' \subseteq shared \cup {key[t]}, shared \ shared' \subseteq {Back(lru)}
      PROVE  Service!ServiceNext
  <2>1. Phases' = [Phases EXCEPT ![t] = "using"] /\ Phases[t] = "waiting"
    BY <1>3, <1>5, PhaseMoves DEF Location
  <2>2. key[t] \in Keys
    BY <1>2, <1>5
  <2>3. /\ shared' \in SUBSET (shared \cup {key[t]})
        /\ Cardinality(shared') <= MaxClients /\ Cardinality(shared \ shared') <= 1
    BY <1>5, <2>2, SharedKeysKept
  <2>4. Service!Serve(t)
    <3>1. /\ key[t] = ServedKeys[t] /\ ServedKeys' = ServedKeys
      BY <1>1, <1>5
    <3>2. QED
      BY <1>5, <2>1, <2>3, <3>1, SameCardinality
         DEF Service!Serve, Phases, ServedKeys
  <2>5. QED
    BY <2>4 DEF Service!ServiceNext
<1>6. ASSUME NEW t \in Threads, CachedClientHit(t) \/ PublishFound(t)
      PROVE  Service!ServiceNext
  BY <1>5, <1>6 DEF CachedClientHit, PublishFound, Present
<1>7. ASSUME NEW t \in Threads, PublishInsert(t)
      PROVE  Service!ServiceNext
  <2>1. DOMAIN clients' = KeysKept \cup {key[t]}
    BY <1>7 DEF PublishInsert
  <2>2. /\ KeysKept \subseteq shared /\ shared \ KeysKept \subseteq {Back(lru)}
    BY DEF KeysKept
  <2>3. /\ pc[t] = "publish" /\ pc' = [pc EXCEPT ![t] = "unlocked"] /\ UNCHANGED key
    BY <1>7 DEF PublishInsert
  <2>4. QED
    BY <1>5, <2>1, <2>2, <2>3
<1>8. ASSUME NEW t \in Threads, ConstructThrows(t)
      PROVE  Service!ServiceNext
  <2>1. Phases' = [Phases EXCEPT ![t] = "idle"]
    BY <1>8, PhaseMoves DEF ConstructThrows, Location
  <2>2. key' = [key EXCEPT ![t] = NoKey] /\ Phases[t] = "waiting" /\ UNCHANGED shared
    BY <1>3, <1>8 DEF ConstructThrows
  <2>3. Service!Refuse(t)
    BY <1>1, <2>1, <2>2 DEF Service!Refuse, Phases, ServedKeys
  <2>4. QED
    BY <2>3 DEF Service!ServiceNext
<1>9. ASSUME NEW t \in Threads, FinishCall(t)
      PROVE  Service!ServiceNext
  <2>1. Phases' = [Phases EXCEPT ![t] = "idle"]
    BY <1>9, PhaseMoves DEF FinishCall, Location
  <2>2. key' = [key EXCEPT ![t] = NoKey] /\ Phases[t] = "using" /\ UNCHANGED shared
    BY <1>3, <1>9 DEF FinishCall
  <2>3. Service!Finish(t)
    BY <1>1, <2>1, <2>2 DEF Service!Finish, Phases, ServedKeys
  <2>4. QED
    BY <2>3 DEF Service!ServiceNext
<1>10. ASSUME NEW t \in Threads, CachedClientMiss(t) \/ Construct(t) \/ DropUnlocked(t)
       PROVE  UNCHANGED Service!serviceVars
  <2>1. UNCHANGED key /\ UNCHANGED shared
    BY <1>10 DEF CachedClientMiss, Construct, DropUnlocked
  <2>2. PICK step \in Location :
          /\ pc' = [pc EXCEPT ![t] = step]
          /\ \/ pc[t] \in {"lookup", "construct"} /\ step \in {"construct", "publish"}
             \/ pc[t] = "unlocked" /\ step = "call"
    BY <1>10 DEF CachedClientMiss, Construct, DropUnlocked, Location
  <2>3. Phases' = [Phases EXCEPT ![t] = Phases[t]]
    BY <1>3, <2>2, PhaseMoves DEF Location
  <2>4. Phases' = Phases
    BY <2>3 DEF Phases
  <2>5. QED
    BY <1>1, <2>1, <2>4
<1>11. CASE UNCHANGED vars
  <2>1. Phases' = Phases /\ UNCHANGED key /\ UNCHANGED shared
    BY <1>11 DEF vars, Phases, PhaseOf
  <2>2. QED
    BY <1>1, <2>1
<1>12. QED
  BY <1>4, <1>6, <1>7, <1>8, <1>9, <1>10, <1>11 DEF Next, CacheStep

\* client_for keeps the safety part of ImplementsService: every request is served
\* through a live client of its own key, or fails, and no more than kMaxClients
\* clients are shared.  (That it is always one or the other is a liveness property.)
THEOREM CacheImplementsService ==
    Spec => Service!ServiceInit /\ [][Service!ServiceNext]_(Service!serviceVars)
<1>1. Init => Service!ServiceInit
  BY DEF Init, Service!ServiceInit, PhaseOf, ServedKeyOf
<1>2. CacheInv /\ CacheInv' /\ [Next]_vars => [Service!ServiceNext]_(Service!serviceVars)
  BY CacheStepServes
<1>3. QED
  BY <1>1, <1>2, CacheInvariant, PTL DEF Spec


-----------------------------------------------------------------------------
(***************************************************************************)
(* The least recently used                                                 *)
(***************************************************************************)
\* What was ever served has no key twice, and the list is its beginning.
LruInv ==
    /\ recency \in Seq(Keys) /\ NoRepeat(recency)
    /\ Len(lru) = IF Len(recency) < MaxClients THEN Len(recency) ELSE MaxClients
    /\ \A n \in 1..Len(lru) : lru[n] = recency[n]

\* The list is as long as the map is large.
LEMMA ListLength ==
    ASSUME CacheInv
    PROVE  Cardinality(DOMAIN clients) = Len(lru)
<1> DEFINE f == [n \in 1..Len(lru) |-> lru[n]]
<1>1. /\ Len(lru) \in Nat
      /\ \A i, j \in 1..Len(lru) : lru[i] = lru[j] => i = j
      /\ DOMAIN clients = {lru[n] : n \in 1..Len(lru)}
  BY DEF CacheInv, TypeOK, ListMatchesMap
<1>2. f \in Bijection(1..Len(lru), DOMAIN clients)
  <2>1. f \in [1..Len(lru) -> DOMAIN clients]
    BY <1>1
  <2>2. \A i, j \in 1..Len(lru) : f[i] = f[j] => i = j
    BY <1>1
  <2>3. \A k \in DOMAIN clients : \E n \in 1..Len(lru) : f[n] = k
    BY <1>1
  <2>4. QED
    BY <2>1, <2>2, <2>3 DEF Bijection, Injection, Surjection, IsInjective
<1>3. IsFiniteSet(1..Len(lru)) /\ Cardinality(1..Len(lru)) = Len(lru)
  <2> DEFINE m == Len(lru)
  <2>1. m \in Int /\ 1 \in Int /\ m >= 0
    BY <1>1
  <2> HIDE DEF m
  <2>2. /\ IsFiniteSet(1..m)
        /\ Cardinality(1..m) = IF 1 > m THEN 0 ELSE m - 1 + 1
    BY <2>1, FS_Interval
  <2>3. (IF 1 > m THEN 0 ELSE m - 1 + 1) = m
    BY <2>1
  <2>4. QED
    BY <2>2, <2>3 DEF m
<1>4. ExistsBijection(1..Len(lru), DOMAIN clients)
  BY <1>2 DEF ExistsBijection
<1>5. QED
  BY <1>3, <1>4, FS_Bijection

\* The place of a key in a list that has none twice
LEMMA PlaceIs ==
    ASSUME NEW S, NEW s \in Seq(S), NoRepeat(s), NEW k
    PROVE  \/ /\ PlaceOf(s, k) \in 1..Len(s) /\ s[PlaceOf(s, k)] = k
           \/ /\ PlaceOf(s, k) = Len(s) + 1 /\ k \notin Listed(s)
<1>1. CASE \E n \in 1..Len(s) : s[n] = k
  BY <1>1 DEF PlaceOf
<1>2. CASE ~ \E n \in 1..Len(s) : s[n] = k
  BY <1>2 DEF PlaceOf, Listed
<1>3. QED
  BY <1>1, <1>2

\* The key that is served comes to the front of what was served, from wherever.
LEMMA UsedIs ==
    ASSUME NEW S, NEW s \in Seq(S), NoRepeat(s), NEW k \in S
    PROVE  /\ Used(s, k) \in Seq(S) /\ NoRepeat(Used(s, k))
           /\ Len(Used(s, k)) =
                 IF PlaceOf(s, k) > Len(s) THEN PlaceOf(s, k) ELSE Len(s)
           /\ \A n \in 1..Len(Used(s, k)) :
                 Used(s, k)[n] = IF n = 1 THEN k
                                 ELSE IF n <= PlaceOf(s, k) THEN s[n - 1] ELSE s[n]
<1> DEFINE at  == PlaceOf(s, k)
           len == IF at > Len(s) THEN at ELSE Len(s)
           u   == Used(s, k)
<1>1. \/ at \in 1..Len(s) /\ s[at] = k
      \/ at = Len(s) + 1 /\ k \notin Listed(s)
  BY PlaceIs
<1>2. u = [n \in 1..len |-> IF n = 1 THEN k ELSE IF n <= at THEN s[n - 1] ELSE s[n]]
  BY DEF Used
<1> HIDE DEF at, u
<1>3. /\ at \in Nat /\ len \in Nat /\ at <= len /\ at >= 1
      /\ len = Len(s) \/ len = Len(s) + 1
      /\ len > Len(s) => at = len
  BY <1>1
<1> HIDE DEF len
<1>4. \A n \in 1..len :
        (IF n = 1 THEN k ELSE IF n <= at THEN s[n - 1] ELSE s[n]) \in S
  <2> SUFFICES ASSUME NEW n \in 1..len, n # 1
               PROVE  (IF n <= at THEN s[n - 1] ELSE s[n]) \in S
    OBVIOUS
  <2>1. CASE n <= at
    <3>1. n - 1 \in 1..Len(s)
      BY <1>3, <2>1
    <3>2. QED
      BY <2>1, <3>1
  <2>2. CASE ~ (n <= at)
    <3>1. n \in 1..Len(s)
      BY <1>3, <2>2
    <3>2. QED
      BY <2>2, <3>1
  <2>3. QED
    BY <2>1, <2>2
<1>5. u \in [1..len -> S]
  BY <1>2, <1>4
<1>6. u \in Seq(S) /\ Len(u) = len
  BY <1>2, <1>3, <1>5
<1>7. \A n \in 1..len :
        u[n] = IF n = 1 THEN k ELSE IF n <= at THEN s[n - 1] ELSE s[n]
  BY <1>2
<1>8. NoRepeat(u)
  <2>1. \A n \in 1..Len(s) : s[n] = k => n = at
    BY <1>1 DEF NoRepeat, Listed
  <2> DEFINE from(n) == IF n = 1 THEN at ELSE IF n <= at THEN n - 1 ELSE n
  <2>2. \A n \in 1..len : n # 1 => from(n) \in 1..Len(s) /\ u[n] = s[from(n)]
    BY <1>3, <1>7
  <2>3. \A n \in 1..len : n # 1 => from(n) # at
    BY <1>3
  <2>4. \A m, n \in 1..len : m # 1 /\ n # 1 /\ from(m) = from(n) => m = n
    BY <1>3
  <2>5. \A n \in 1..len : n # 1 => u[n] # k
    BY <2>1, <2>2, <2>3
  <2>6. u[1] = k
    BY <1>3, <1>7
  <2> HIDE DEF from
  <2>7. \A m, n \in 1..len : m # 1 /\ n # 1 /\ u[m] = u[n] => m = n
    BY <2>2, <2>4 DEF NoRepeat
  <2>8. QED
    BY <1>6, <2>5, <2>6, <2>7 DEF NoRepeat
<1>9. QED
  BY <1>6, <1>7, <1>8 DEF at, len, u

\* A key that is cached has one place, in the list and in what was served.
LEMMA TouchKeepsRecent ==
    ASSUME CacheInv, LruInv, NEW k \in DOMAIN clients,
           lru' = Touched(lru, k), recency' = Used(recency, k)
    PROVE  LruInv'
<1> DEFINE p == NodeOf(lru, k)  at == PlaceOf(recency, k)
<1>1. /\ lru \in Seq(Keys) /\ NoRepeat(lru) /\ k \in Listed(lru) /\ k \in Keys
      /\ recency \in Seq(Keys) /\ NoRepeat(recency)
  BY DEF CacheInv, TypeOK, ListMatchesMap, NoRepeat, Listed, LruInv
<1>2. /\ p \in 1..Len(lru) /\ lru[p] = k
      /\ lru' \in Seq(Keys) /\ Len(lru') = Len(lru)
      /\ \A n \in 1..Len(lru) :
            lru'[n] = IF n = 1 THEN k ELSE IF n <= p THEN lru[n - 1] ELSE lru[n]
  <2>1. HasFirst(lru, k)
    BY <1>1, OnlyIsFirst
  <2>2. QED
    BY <1>1, <2>1, TouchedIs
<1>3. /\ recency' \in Seq(Keys) /\ NoRepeat(recency')
      /\ Len(recency') = IF at > Len(recency) THEN at ELSE Len(recency)
      /\ \A n \in 1..Len(recency') :
            recency'[n] = IF n = 1 THEN k
                          ELSE IF n <= at THEN recency[n - 1] ELSE recency[n]
  <2> DEFINE u == Used(recency, k)
  <2>0. k \in Keys /\ recency \in Seq(Keys) /\ NoRepeat(recency)
    BY <1>1
  <2>1. /\ u \in Seq(Keys) /\ NoRepeat(u)
        /\ Len(u) = IF at > Len(recency) THEN at ELSE Len(recency)
        /\ \A n \in 1..Len(u) :
              u[n] = IF n = 1 THEN k
                     ELSE IF n <= at THEN recency[n - 1] ELSE recency[n]
    BY ONLY <2>0, UsedIs, SMTT(40)
  <2> HIDE DEF u
  <2>2. recency' = u
    BY DEF u
  <2>3. QED
    BY <2>1, <2>2 DEF NoRepeat
<1>4. \/ at \in 1..Len(recency) /\ recency[at] = k
      \/ at = Len(recency) + 1 /\ k \notin Listed(recency)
  BY <1>1, PlaceIs
<1> HIDE DEF p, at
<1>5. /\ Len(lru) \in Nat /\ Len(recency) \in Nat /\ Len(lru) <= Len(recency)
      /\ \A n \in 1..Len(lru) : lru[n] = recency[n]
  BY <1>1, MaxClientsAssumption DEF LruInv
<1>6. p \in 1..Len(recency) /\ recency[p] = k
  BY <1>2, <1>5
<1>7. at = p
  BY <1>1, <1>4, <1>6 DEF Listed, NoRepeat
<1>8. Len(recency') = Len(recency)
  BY <1>3, <1>5, <1>6, <1>7
<1>9. \A n \in 1..Len(lru) : lru'[n] = recency'[n]
  <2> SUFFICES ASSUME NEW n \in 1..Len(lru)
               PROVE  lru'[n] = recency'[n]
    OBVIOUS
  <2>1. n \in 1..Len(recency')
    BY <1>5, <1>8
  <2>2. n # 1 => n - 1 \in 1..Len(lru)
    BY <1>5
  <2>3. /\ lru'[n] = IF n = 1 THEN k ELSE IF n <= p THEN lru[n - 1] ELSE lru[n]
        /\ recency'[n] = IF n = 1 THEN k ELSE IF n <= p THEN recency[n - 1] ELSE recency[n]
    BY <1>2, <1>3, <1>7, <2>1
  <2>4. QED
    BY <1>5, <2>2, <2>3
<1>10. QED
  BY <1>2, <1>3, <1>8, <1>9 DEF LruInv

\* A key that is not cached was served after all that are, and the last of these
\* makes room.
LEMMA InsertKeepsRecent ==
    ASSUME CacheInv, LruInv, NEW k \in Keys, k \notin DOMAIN clients,
           lru' = <<k>> \o NodesKept, recency' = Used(recency, k)
    PROVE  LruInv'
<1> DEFINE at == PlaceOf(recency, k)
<1>1. /\ lru \in Seq(Keys) /\ NoRepeat(lru) /\ k \notin Listed(lru)
      /\ recency \in Seq(Keys) /\ NoRepeat(recency)
  BY DEF CacheInv, TypeOK, ListMatchesMap, NoRepeat, Listed, LruInv
<1>2. /\ recency' \in Seq(Keys) /\ NoRepeat(recency')
      /\ Len(recency') = IF at > Len(recency) THEN at ELSE Len(recency)
      /\ \A n \in 1..Len(recency') :
            recency'[n] = IF n = 1 THEN k
                          ELSE IF n <= at THEN recency[n - 1] ELSE recency[n]
  <2> DEFINE u == Used(recency, k)
  <2>0. k \in Keys /\ recency \in Seq(Keys) /\ NoRepeat(recency)
    BY <1>1
  <2>1. /\ u \in Seq(Keys) /\ NoRepeat(u)
        /\ Len(u) = IF at > Len(recency) THEN at ELSE Len(recency)
        /\ \A n \in 1..Len(u) :
              u[n] = IF n = 1 THEN k
                     ELSE IF n <= at THEN recency[n - 1] ELSE recency[n]
    BY ONLY <2>0, UsedIs, SMTT(40)
  <2> HIDE DEF u
  <2>2. recency' = u
    BY DEF u
  <2>3. QED
    BY <2>1, <2>2 DEF NoRepeat
<1>3. \/ at \in 1..Len(recency) /\ recency[at] = k
      \/ at = Len(recency) + 1 /\ k \notin Listed(recency)
  BY <1>1, PlaceIs
<1> HIDE DEF at
<1>4. /\ Len(lru) \in Nat /\ Len(recency) \in Nat /\ MaxClients \in Nat /\ MaxClients >= 1
      /\ Len(lru) = IF Len(recency) < MaxClients THEN Len(recency) ELSE MaxClients
      /\ \A n \in 1..Len(lru) : lru[n] = recency[n]
  BY <1>1, MaxClientsAssumption DEF LruInv
<1>5. at > Len(lru) /\ at \in Nat
  <2>1. at \in 1..Len(lru) => recency[at] # k
    BY <1>1, <1>4 DEF Listed
  <2>2. QED
    BY <1>3, <1>4, <2>1
<1>6. Full <=> Len(lru) = MaxClients
  BY ListLength DEF Full
<1>7. /\ NodesKept \in Seq(Keys)
      /\ Len(NodesKept) = IF Full THEN Len(lru) - 1 ELSE Len(lru)
      /\ \A n \in 1..Len(NodesKept) : NodesKept[n] = lru[n]
  <2>1. CASE Full
    <3>1. Len(lru) - 1 \in Nat /\ \A n \in 1..(Len(lru) - 1) : lru[n] \in Keys
      BY <1>1, <1>4, <1>6, <2>1
    <3>2. /\ SubSeq(lru, 1, Len(lru) - 1) \in Seq(Keys)
          /\ Len(SubSeq(lru, 1, Len(lru) - 1)) = Len(lru) - 1
          /\ \A n \in 1..(Len(lru) - 1) : SubSeq(lru, 1, Len(lru) - 1)[n] = lru[n]
      <4> DEFINE m == Len(lru) - 1
      <4>1. m \in Nat /\ m \in Int /\ 1 \in Int /\ \A n \in 1..m : lru[n] \in Keys
        BY <3>1
      <4> HIDE DEF m
      <4>2. /\ SubSeq(lru, 1, m) \in Seq(Keys)
            /\ Len(SubSeq(lru, 1, m)) = IF 1 <= m THEN m - 1 + 1 ELSE 0
            /\ \A n \in 1..(m - 1 + 1) : SubSeq(lru, 1, m)[n] = lru[1 + n - 1]
        BY <4>1, SubSeqProperties
      <4>3. Len(SubSeq(lru, 1, m)) = m
        BY <4>1, <4>2
      <4>4. m - 1 + 1 = m /\ \A n \in 1..m : 1 + n - 1 = n
        BY <4>1
      <4>5. \A n \in 1..m : SubSeq(lru, 1, m)[n] = lru[n]
        BY <4>2, <4>4, Zenon
      <4>6. QED
        BY <4>2, <4>3, <4>5 DEF m
    <3>3. QED
      BY <2>1, <3>2 DEF NodesKept
  <2>2. CASE ~ Full
    BY <1>1, <2>2 DEF NodesKept
  <2>3. QED
    BY <2>1, <2>2
<1>8. /\ Len(lru') = Len(NodesKept) + 1 /\ lru'[1] = k
      /\ \A n \in 1..Len(NodesKept) : lru'[n + 1] = NodesKept[n]
  <2> DEFINE kept == NodesKept
  <2>1. kept \in Seq(Keys)
    BY <1>7
  <2> HIDE DEF kept
  <2>2. /\ Len(<<k>> \o kept) = Len(kept) + 1 /\ (<<k>> \o kept)[1] = k
        /\ \A n \in 1..Len(kept) : (<<k>> \o kept)[n + 1] = kept[n]
    BY <2>1
  <2>3. QED
    BY <2>2 DEF kept
<1>9. Len(NodesKept) \in Nat /\ Len(NodesKept) <= Len(lru) /\ Len(recency') \in Nat
  BY <1>2, <1>4, <1>6, <1>7
<1>10. Len(lru') = IF Len(recency') < MaxClients THEN Len(recency') ELSE MaxClients
  <2>1. CASE Full
    BY <1>2, <1>4, <1>5, <1>6, <1>7, <1>8, <2>1
  <2>2. CASE ~ Full
    <3>1. Len(lru) = Len(recency) /\ Len(lru) < MaxClients
      BY <1>4, <1>6, <2>2
    <3>2. at = Len(recency) + 1
      BY <1>3, <1>4, <1>5, <3>1
    <3>3. QED
      BY <1>2, <1>4, <1>7, <1>8, <2>2, <3>1, <3>2
  <2>3. QED
    BY <2>1, <2>2
<1>11. \A n \in 1..Len(lru') : lru'[n] = recency'[n]
  <2> SUFFICES ASSUME NEW n \in 1..Len(lru')
               PROVE  lru'[n] = recency'[n]
    OBVIOUS
  <2>1. Len(lru') <= Len(recency')
    BY <1>4, <1>9, <1>10
  <2>2. n \in 1..Len(recency')
    BY <1>8, <1>9, <2>1
  <2>3. CASE n = 1
    BY <1>2, <1>8, <2>2, <2>3
  <2>4. CASE n # 1
    <3>1. n - 1 \in 1..Len(NodesKept) /\ n - 1 \in 1..Len(lru) /\ n <= at
      BY <1>4, <1>5, <1>8, <1>9, <2>4
    <3>2. lru'[(n - 1) + 1] = lru[n - 1]
      BY <1>7, <1>8, <3>1
    <3>3. lru'[n] = lru[n - 1]
      BY <3>1, <3>2
    <3>4. recency'[n] = recency[n - 1]
      BY <1>2, <2>2, <2>4, <3>1
    <3>5. QED
      BY <1>4, <3>1, <3>3, <3>4
  <2>5. QED
    BY <2>3, <2>4
<1>12. QED
  BY <1>2, <1>10, <1>11 DEF LruInv

\* One thread at most is served in a step.
LEMMA RecencyOf ==
    ASSUME CacheInv, NEW t \in Threads, NEW c \in Clients,
           client[t] = NoClient, client' = [client EXCEPT ![t] = c],
           recency' = IF \E u \in Threads : HandedOver(u)
                      THEN Used(recency, key[CHOOSE u \in Threads : HandedOver(u)])
                      ELSE recency
    PROVE  recency' = Used(recency, key[t])
<1>1. client \in [Threads -> Clients \cup {NoClient}] /\ c # NoClient
  BY NoClientAssumption DEF CacheInv, TypeOK
<1>2. \A u \in Threads : HandedOver(u) <=> u = t
  BY <1>1 DEF HandedOver
<1>3. (CHOOSE u \in Threads : HandedOver(u)) = t
  BY <1>2
<1>4. QED
  BY <1>2, <1>3

\* A step of client_for serves from the front, or leaves the list as it is.
LEMMA LruStep ==
    ASSUME CacheInv, LruInv, [LruNext]_<<vars, recency>>
    PROVE  LruInv'
<1>1. CASE UNCHANGED <<lru, recency>>
  BY <1>1 DEF LruInv
<1>2. CASE LruNext
  <2>1. /\ recency' = IF \E u \in Threads : HandedOver(u)
                      THEN Used(recency, key[CHOOSE u \in Threads : HandedOver(u)])
                      ELSE recency
        /\ client \in [Threads -> Clients \cup {NoClient}]
    BY <1>2 DEF LruNext, CacheInv, TypeOK
  <2>2. ASSUME NEW t \in Threads, CachedClientHit(t) \/ PublishFound(t)
        PROVE  LruInv'
    <3>1. /\ key[t] \in DOMAIN clients /\ clients[key[t]] \in Clients
          /\ client[t] = NoClient /\ lru' = Touched(lru, key[t])
          /\ client' = [client EXCEPT ![t] = clients[key[t]]]
      BY <2>2 DEF CachedClientHit, PublishFound, Present, CacheInv, TypeOK, LocalsMatchPc
    <3>2. recency' = Used(recency, key[t])
      BY <2>1, <3>1, RecencyOf
    <3>3. QED
      BY <3>1, <3>2, TouchKeepsRecent
  <2>3. ASSUME NEW t \in Threads, PublishInsert(t)
        PROVE  LruInv'
    <3>1. /\ key[t] \notin DOMAIN clients /\ key[t] \in Keys /\ candidate[t] \in Clients
          /\ client[t] = NoClient /\ lru' = <<key[t]>> \o NodesKept
          /\ client' = [client EXCEPT ![t] = candidate[t]]
      BY <2>3 DEF PublishInsert, Present, CacheInv, TypeOK, LocalsMatchPc
    <3>2. recency' = Used(recency, key[t])
      BY <2>1, <3>1, RecencyOf
    <3>3. QED
      BY <3>1, <3>2, InsertKeepsRecent
  <2>4. ASSUME NEW t \in Threads,
               \/ CachedClientMiss(t) \/ Construct(t) \/ ConstructThrows(t)
               \/ DropUnlocked(t) \/ FinishCall(t) \/ \E k \in Keys : Request(t, k)
        PROVE  LruInv'
    <3>1. /\ lru' = lru
          /\ client' = client \/ client' = [client EXCEPT ![t] = NoClient]
      BY <2>4 DEF CachedClientMiss, Construct, ConstructThrows, DropUnlocked, FinishCall,
         Request
    <3>2. \A u \in Threads : ~ HandedOver(u)
      BY <2>1, <3>1 DEF HandedOver
    <3>3. recency' = recency
      BY <2>1, <3>2
    <3>4. QED
      BY <3>1, <3>3 DEF LruInv
  <2>5. QED
    BY <1>2, <2>2, <2>3, <2>4 DEF LruNext, Next, CacheStep
<1>3. QED
  BY <1>1, <1>2 DEF vars

\* The invariant: what the list has is the beginning of what was served.
THEOREM LruInvariant == LruSpec => [](CacheInv /\ LruInv)
<1>1. LruInit => CacheInv /\ LruInv
  <2> SUFFICES ASSUME LruInit PROVE CacheInv /\ LruInv
    OBVIOUS
  <2>1. CacheInv
    BY InitCache DEF LruInit
  <2>2. LruInv
    BY MaxClientsAssumption DEF LruInit, Init, LruInv, NoRepeat
  <2>3. QED
    BY <2>1, <2>2
<1>2. CacheInv /\ [LruNext]_<<vars, recency>> => CacheInv'
  BY NextCache DEF LruNext, vars
<1>3. QED
  BY <1>1, <1>2, LruStep, PTL DEF LruSpec

\* touch_lru and publish_client: whatever the order of the threads' lookups and
\* insertions, what is cached is the MaxClients most recently served keys, in the
\* order of their last use, so that an eviction takes the least recently used.
THEOREM AlwaysLeastRecentlyUsed == LruSpec => []LeastRecentlyUsed
<1>1. ASSUME CacheInv, LruInv
      PROVE  LeastRecentlyUsed
  <2> DEFINE kept == IF Len(recency) < MaxClients THEN Len(recency) ELSE MaxClients
             begin == SubSeq(recency, 1, kept)
  <2>1. /\ lru \in Seq(Keys) /\ recency \in Seq(Keys) /\ Len(lru) = kept
        /\ kept \in Nat /\ kept <= Len(recency)
        /\ \A n \in 1..kept : lru[n] = recency[n]
    BY <1>1, MaxClientsAssumption DEF CacheInv, TypeOK, LruInv
  <2> HIDE DEF kept
  <2>2. lru = begin
    <3>1. kept \in Int /\ 1 \in Int /\ \A n \in 1..kept : recency[n] \in Keys
      BY <2>1
    <3>2. /\ begin \in Seq(Keys)
          /\ Len(begin) = IF 1 <= kept THEN kept - 1 + 1 ELSE 0
          /\ \A n \in 1..(kept - 1 + 1) : begin[n] = recency[1 + n - 1]
      BY <3>1, SubSeqProperties
    <3> HIDE DEF begin
    <3>3. Len(begin) = kept
      BY <2>1, <3>2
    <3>4. kept - 1 + 1 = kept /\ \A n \in 1..kept : 1 + n - 1 = n
      BY <2>1
    <3>5. \A n \in 1..kept : begin[n] = recency[n]
      BY <3>2, <3>4, Zenon
    <3>6. QED
      BY <2>1, <3>2, <3>3, <3>5, SeqEqual
  <2>3. DOMAIN clients = {recency[n] : n \in 1..kept}
    <3> HIDE DEF begin
    <3>1. {lru[n] : n \in 1..Len(lru)} = DOMAIN clients
      BY <1>1 DEF CacheInv, ListMatchesMap
    <3>2. {lru[n] : n \in 1..kept} = DOMAIN clients
      BY <2>1, <3>1
    <3>3. {lru[n] : n \in 1..kept} = {recency[n] : n \in 1..kept}
      <4>1. \A n \in 1..kept : lru[n] = recency[n]
        BY <2>1
      <4>2. QED
        BY ONLY <4>1, Zenon
    <3>4. QED
      BY <3>2, <3>3
  <2>4. QED
    BY <2>2, <2>3 DEF LeastRecentlyUsed, kept
<1>2. QED
  BY <1>1, LruInvariant, PTL

-----------------------------------------------------------------------------
(***************************************************************************)
(* What survives when memory runs out                                      *)
(***************************************************************************)
\* What publish_client has left of the map and the list when it comes to insert:
\* the entry at the back goes with its node, which may as well be a stale one.
LEMMA NodesKeptFirst ==
    ASSUME MemoryInv
    PROVE  /\ NodesKept \in Seq(Keys)
           /\ \A e \in KeysKept : e \in DOMAIN clients /\ HasFirst(NodesKept, e)
<1>1. /\ lru \in Seq(Keys)
      /\ \A e \in DOMAIN clients : HasFirst(lru, e)
  BY DEF MemoryInv, ClientsSound, TypeOK, FirstNodes, HasFirst
<1>2. CASE Full
  <2>1. NodesKept = SubSeq(lru, 1, Len(lru) - 1)
    BY <1>2 DEF NodesKept
  <2>2. DOMAIN clients # {}
    BY <1>2, FS_EmptySet, MaxClientsAssumption DEF Full
  <2>3. Len(lru) > 0
    <3>1. PICK e \in DOMAIN clients : TRUE
      BY <2>2
    <3>2. PICK i \in 1..Len(lru) : TRUE
      BY <1>1, <3>1 DEF HasFirst
    <3>3. QED
      BY <1>1, <3>2
  <2>4. \A e \in KeysKept : e \in DOMAIN clients /\ e # Back(lru)
    BY <1>2 DEF KeysKept, Evicts, Present
  <2>5. SubSeq(lru, 1, Len(lru) - 1) \in Seq(Keys)
    BY <1>1, <2>3, PopIs
  <2>6. ASSUME NEW e \in KeysKept
        PROVE  HasFirst(SubSeq(lru, 1, Len(lru) - 1), e)
    <3>1. HasFirst(lru, e) /\ e # Back(lru)
      BY <1>1, <2>4
    <3>2. QED
      BY <1>1, <2>3, <3>1, PopKeepsFirst
  <2>7. QED
    BY <2>1, <2>4, <2>5, <2>6, Zenon
<1>3. CASE ~ Full
  <2>1. NodesKept = lru /\ KeysKept \subseteq DOMAIN clients
    BY <1>3 DEF NodesKept, KeysKept
  <2>2. QED
    BY <1>1, <2>1
<1>4. QED
  BY <1>2, <1>3

\* With the key pushed in front, as publish_client has it from there on.
LEMMA PushedFirst ==
    ASSUME MemoryInv, NEW k \in Keys
    PROVE  /\ <<k>> \o NodesKept \in Seq(Keys)
           /\ \A e \in KeysKept \cup {k} : HasFirst(<<k>> \o NodesKept, e)
<1>1. /\ NodesKept \in Seq(Keys)
      /\ \A e \in KeysKept : HasFirst(NodesKept, e)
  BY NodesKeptFirst
<1>2. <<k>> \o NodesKept \in Seq(Keys)
  BY <1>1
<1>3. ASSUME NEW e \in KeysKept \cup {k}
      PROVE  HasFirst(<<k>> \o NodesKept, e)
  <2>1. e = k \/ HasFirst(NodesKept, e)
    BY <1>1
  <2>2. QED
    BY <1>1, <2>1, PushKeepsFirst
<1>4. QED
  BY <1>2, <1>3

\* Every step of client_for keeps the entries' nodes, whatever stale ones there
\* are between them.
LEMMA FirstStep ==
    ASSUME MemoryInv, [Next]_vars
    PROVE  lru' \in Seq(Keys) /\ FirstNodes'
<1> DEFINE Kept == lru' \in Seq(Keys) /\ \A e \in DOMAIN clients' : HasFirst(lru', e)
<1>1. /\ lru \in Seq(Keys)
      /\ \A e \in DOMAIN clients : HasFirst(lru, e)
  BY DEF MemoryInv, ClientsSound, TypeOK, FirstNodes, HasFirst
<1>2. ASSUME UNCHANGED <<clients, lru>> PROVE Kept
  BY <1>1, <1>2
<1>3. ASSUME NEW t \in Threads, CachedClientHit(t) \/ PublishFound(t)
      PROVE  Kept
  <2>1. /\ key[t] \in DOMAIN clients
        /\ UNCHANGED clients
        /\ lru' = Touched(lru, key[t])
    BY <1>3 DEF CachedClientHit, PublishFound, Present
  <2>2. HasFirst(lru, key[t])
    BY <1>1, <2>1
  <2>3. Touched(lru, key[t]) \in Seq(Keys)
    BY <1>1, <2>2, TouchedIs
  <2>4. ASSUME NEW e \in DOMAIN clients
        PROVE  HasFirst(Touched(lru, key[t]), e)
    <3>1. HasFirst(lru, e)
      BY <1>1
    <3>2. QED
      BY <1>1, <2>2, <3>1, TouchedKeepsFirst
  <2>5. QED
    BY <2>1, <2>3, <2>4
<1>4. ASSUME NEW t \in Threads, PublishInsert(t)
      PROVE  Kept
  <2>1. /\ DOMAIN clients' = KeysKept \cup {key[t]}
        /\ lru' = <<key[t]>> \o NodesKept
    BY <1>4 DEF PublishInsert
  <2>2. key[t] \in Keys
    BY <1>4 DEF PublishInsert, MemoryInv, ClientsSound, TypeOK, LocalsMatchPc
  <2>3. /\ <<key[t]>> \o NodesKept \in Seq(Keys)
        /\ \A e \in KeysKept \cup {key[t]} : HasFirst(<<key[t]>> \o NodesKept, e)
    BY <2>2, PushedFirst
  <2>4. QED
    BY <2>1, <2>3
<1> HIDE DEF Kept
<1>5. ASSUME NEW t \in Threads, CacheStep(t) PROVE Kept
  BY <1>2, <1>3, <1>4, <1>5, OtherStepsKeepCache
<1>6. ASSUME NEW t \in Threads, NEW k \in Keys, Request(t, k) PROVE Kept
  BY <1>2, <1>6 DEF Request
<1>7. ASSUME UNCHANGED vars PROVE Kept
  BY <1>2, <1>7 DEF vars
<1>8. Kept
  BY <1>5, <1>6, <1>7 DEF Next
<1>9. QED
  BY <1>8 DEF Kept, FirstNodes, HasFirst

\* An exception on the way in releases the candidate and the evicted client, and
\* nobody else's.
LEMMA ThrowsKeepsClients ==
    ASSUME ClientsSound, NEW t \in Threads, PublishThrows(t), lru' \in Seq(Keys)
    PROVE  ClientsSound'
<1> DEFINE k == key[t]
           b == candidate[t]
<1>1. /\ pc[t] = "publish"
      /\ client[t] = NoClient
      /\ dropped[t] = NoClient
      /\ k \in Keys
      /\ b \in Clients
      /\ owners[b] = {Candidate(t)}
  BY DEF PublishThrows, ClientsSound, TypeOK, LocalsMatchPc, CandidatePrivate
<1>2. /\ pc' = [pc EXCEPT ![t] = "idle"]
      /\ key' = [key EXCEPT ![t] = NoKey]
      /\ candidate' = [candidate EXCEPT ![t] = NoClient]
      /\ UNCHANGED <<client, dropped>>
  BY DEF PublishThrows, Unwind
<1>3. /\ DOMAIN clients' = KeysKept
      /\ KeysKept \subseteq DOMAIN clients
      /\ \A e \in KeysKept : clients'[e] = clients[e]
  BY DEF PublishThrows, KeysKept
<1>4. \A d \in Clients :
        owners'[d] = IF d = b THEN {}
                     ELSE IF d = Evicted THEN owners[d] \ {Entry} ELSE owners[d]
  BY DEF PublishThrows
<1>5. \A d \in Clients : owners'[d] # {} => builtFor'[d] = builtFor[d]
  BY DEF PublishThrows, Unwind, AfterDestruction
<1>6. Evicted # NoClient =>
        /\ Back(lru) \in DOMAIN clients
        /\ clients[Back(lru)] = Evicted
        /\ KeysKept = DOMAIN clients \ {Back(lru)}
  BY DEF Evicted, Evicts, KeysKept, Present
<1>7. \A e \in DOMAIN clients : clients[e] \in Clients /\ clients[e] # b
  BY <1>1, OwnersDistinct DEF ClientsSound, TypeOK, NoUseAfterDestroy
<1>8. \A e \in KeysKept : clients[e] # Evicted
  BY <1>3, <1>6, <1>7, NoClientAssumption DEF ClientsSound, RightClient
<1>9. TypeOK'
  <2>1. owners' \in [Clients -> SUBSET Owner]
    BY DEF PublishThrows, ClientsSound, TypeOK
  <2>2. builtFor' \in [Clients -> Keys \cup {NoKey}]
    BY DEF PublishThrows, Unwind, AfterDestruction, ClientsSound, TypeOK
  <2>3. DOMAIN clients' \subseteq Keys
    BY <1>3 DEF ClientsSound, TypeOK
  <2>4. \A e \in DOMAIN clients' : clients'[e] \in Clients
    BY <1>3, <1>7
  <2>5. /\ pc' \in [Threads -> Location]
        /\ key' \in [Threads -> Keys \cup {NoKey}]
        /\ candidate' \in [Threads -> Clients \cup {NoClient}]
        /\ client' \in [Threads -> Clients \cup {NoClient}]
        /\ dropped' \in [Threads -> Clients \cup {NoClient}]
    BY <1>2 DEF ClientsSound, TypeOK, Location
  <2>6. QED
    BY <2>1, <2>2, <2>3, <2>4, <2>5 DEF TypeOK
<1>10. LocalsMatchPc'
  BY <1>1, <1>2 DEF ClientsSound, TypeOK, LocalsMatchPc
<1>11. \A u \in Threads : client[u] # b /\ dropped[u] # b
                            /\ (u # t => candidate[u] # b)
  BY <1>1, OwnersDistinct, NoClientAssumption
     DEF ClientsSound, NoUseAfterDestroy
<1>12. \A d \in Clients : \A o :
         d # b /\ o \in owners[d] /\ o # Entry => o \in owners'[d]
  BY <1>4
<1>13. NoUseAfterDestroy'
  <2>1. ASSUME NEW u \in Threads
        PROVE  /\ client'[u] # NoClient => Result(u) \in owners'[client'[u]]
               /\ candidate'[u] # NoClient =>
                    Candidate(u) \in owners'[candidate'[u]]
               /\ dropped'[u] # NoClient => Dropped(u) \in owners'[dropped'[u]]
    <3>1. /\ client'[u] = client[u] /\ client[u] \in Clients \cup {NoClient}
          /\ candidate'[u] = IF u = t THEN NoClient ELSE candidate[u]
          /\ candidate[u] \in Clients \cup {NoClient}
          /\ dropped'[u] = dropped[u]
          /\ dropped[u] \in Clients \cup {NoClient}
      BY <1>2 DEF ClientsSound, TypeOK
    <3>2. /\ client[u] # NoClient => Result(u) \in owners[client[u]]
          /\ candidate[u] # NoClient => Candidate(u) \in owners[candidate[u]]
          /\ dropped[u] # NoClient => Dropped(u) \in owners[dropped[u]]
      BY DEF ClientsSound, NoUseAfterDestroy
    <3>3. Result(u) # Entry /\ Candidate(u) # Entry /\ Dropped(u) # Entry
      BY OwnersDistinct
    <3>4. /\ client[u] # b
          /\ dropped[u] # b
          /\ u # t => candidate[u] # b
      BY <1>11
    <3>5. client'[u] # NoClient => Result(u) \in owners'[client'[u]]
      BY ONLY <3>1, <3>2, <3>3, <3>4, <1>12
    <3>6. candidate'[u] # NoClient => Candidate(u) \in owners'[candidate'[u]]
      BY ONLY <3>1, <3>2, <3>3, <3>4, <1>12
    <3>7. dropped'[u] # NoClient => Dropped(u) \in owners'[dropped'[u]]
      BY ONLY <3>1, <3>2, <3>3, <3>4, <1>12
    <3>8. QED
      BY <3>5, <3>6, <3>7
  <2>2. ASSUME NEW e \in DOMAIN clients'
        PROVE  Entry \in owners'[clients'[e]]
    <3>1. e \in KeysKept /\ e \in DOMAIN clients /\ clients'[e] = clients[e]
      BY <1>3
    <3>2. clients[e] \in Clients /\ clients[e] # b /\ clients[e] # Evicted
      BY <3>1, <1>7, <1>8
    <3>3. Entry \in owners[clients[e]]
      BY <3>1 DEF ClientsSound, NoUseAfterDestroy
    <3>4. QED
      BY <3>1, <3>2, <3>3, <1>4
  <2>3. QED
    BY <2>1, <2>2 DEF NoUseAfterDestroy
<1>14. RightClient'
  <2>1. ASSUME NEW u \in Threads, client'[u] # NoClient
        PROVE  builtFor'[client'[u]] = key'[u]
    <3>1. client'[u] = client[u] /\ client[u] \in Clients
      BY <2>1, <1>2 DEF ClientsSound, TypeOK
    <3>2. u # t /\ key'[u] = key[u]
      BY <2>1, <3>1, <1>1, <1>2 DEF ClientsSound, TypeOK
    <3>3. owners'[client[u]] # {}
      BY <2>1, <3>1, <1>13 DEF NoUseAfterDestroy
    <3>4. builtFor[client[u]] = key[u]
      BY <2>1, <3>1 DEF ClientsSound, RightClient
    <3>5. QED
      BY <3>1, <3>2, <3>3, <3>4, <1>5
  <2>2. ASSUME NEW e \in DOMAIN clients'
        PROVE  builtFor'[clients'[e]] = e
    <3>1. e \in DOMAIN clients /\ clients'[e] = clients[e]
      BY <1>3
    <3>2. owners'[clients[e]] # {}
      BY <3>1, <1>13 DEF NoUseAfterDestroy
    <3>3. builtFor[clients[e]] = e
      BY <3>1 DEF ClientsSound, RightClient
    <3>4. QED
      BY <3>1, <3>2, <3>3, <1>5, <1>7
  <2>3. QED
    BY <2>1, <2>2 DEF RightClient
<1>15. CandidatePrivate'
  <2> SUFFICES ASSUME NEW u \in Threads, candidate'[u] # NoClient
               PROVE  /\ owners'[candidate'[u]] = {Candidate(u)}
                      /\ builtFor'[candidate'[u]] = key'[u]
    BY DEF CandidatePrivate
  <2>1. /\ u # t
        /\ candidate'[u] = candidate[u]
        /\ candidate[u] \in Clients
        /\ key'[u] = key[u]
    BY <1>2 DEF ClientsSound, TypeOK
  <2>2. /\ owners[candidate[u]] = {Candidate(u)}
        /\ builtFor[candidate[u]] = key[u]
        /\ candidate[u] # b
    BY <2>1, <1>11 DEF ClientsSound, CandidatePrivate
  <2>3. Candidate(u) # Entry
    BY OwnersDistinct
  <2>4. owners'[candidate[u]] = {Candidate(u)}
    BY <2>1, <2>2, <2>3, <1>4
  <2>5. QED
    BY <2>1, <2>2, <2>4, <1>5
<1>16. NoLeakedClient'
  <2>1. \A d \in Clients : owners'[d] \subseteq owners[d]
    BY <1>4
  <2>2. ASSUME NEW d \in Clients, Entry \in owners'[d]
        PROVE  \E e \in DOMAIN clients' : clients'[e] = d
    <3>1. d # b /\ d # Evicted
      BY <2>2, <1>4
    <3>2. PICK e \in DOMAIN clients : clients[e] = d
      BY <2>1, <2>2 DEF ClientsSound, NoLeakedClient
    <3>3. e \in KeysKept
      BY <3>1, <3>2 DEF KeysKept, Evicted
    <3>4. QED
      BY <3>2, <3>3, <1>3
  <2>3. ASSUME NEW d \in Clients, NEW u \in Threads
        PROVE  /\ Result(u) \in owners'[d] => client'[u] = d
               /\ Candidate(u) \in owners'[d] => candidate'[u] = d
               /\ Dropped(u) \in owners'[d] => dropped'[u] = d
    <3>1. /\ Result(u) \in owners'[d] => client[u] = d
          /\ Candidate(u) \in owners'[d] => candidate[u] = d
          /\ Dropped(u) \in owners'[d] => dropped[u] = d
      BY <2>1 DEF ClientsSound, NoLeakedClient
    <3>2. Candidate(u) \in owners'[d] => u # t
      BY <3>1, <1>4
    <3>3. u # t => candidate'[u] = candidate[u]
      BY <1>2 DEF ClientsSound, TypeOK
    <3>4. QED
      BY <3>1, <3>2, <3>3, <1>2
  <2>4. QED
    BY <2>2, <2>3 DEF NoLeakedClient
<1>17. QED
  BY <1>9, <1>10, <1>13, <1>14, <1>15, <1>16 DEF ClientsSound

\* An exception on the way in leaves the entries that stay with their nodes,
\* whether or not it leaves a stale node in front of them.
LEMMA ThrowsKeepsFirst ==
    ASSUME MemoryInv, NEW t \in Threads, PublishThrows(t)
    PROVE  lru' \in Seq(Keys) /\ FirstNodes'
<1>1. /\ DOMAIN clients' = KeysKept
      /\ lru' \in {NodesKept, <<key[t]>> \o NodesKept}
  BY DEF PublishThrows
<1>2. key[t] \in Keys
  BY DEF PublishThrows, MemoryInv, ClientsSound, TypeOK, LocalsMatchPc
<1>3. lru' \in Seq(Keys) /\ \A e \in KeysKept : HasFirst(lru', e)
  <2>1. CASE lru' = NodesKept
    BY <2>1, NodesKeptFirst
  <2>2. CASE lru' = <<key[t]>> \o NodesKept
    BY <2>2, <1>2, PushedFirst
  <2>3. QED
    BY <1>1, <2>1, <2>2
<1>4. QED
  BY <1>1, <1>3 DEF FirstNodes, HasFirst

\* The invariant that outlives failed allocations.
THEOREM MemoryInvariant == SpecOutOfMemory => []MemoryInv
<1>1. Init => MemoryInv
  <2>1. Init => ClientsSound
    BY InitCache DEF CacheInv, ClientsSound
  <2>2. Init => FirstNodes
    BY DEF Init, FirstNodes
  <2>3. QED
    BY <2>1, <2>2 DEF MemoryInv
<1>2. MemoryInv /\ [Next \/ \E t \in Threads : PublishThrows(t)]_vars => MemoryInv'
  <2> SUFFICES ASSUME MemoryInv,
                      [Next \/ \E t \in Threads : PublishThrows(t)]_vars
               PROVE  MemoryInv'
    OBVIOUS
  <2>1. ClientsSound
    BY DEF MemoryInv
  <2>2. CASE [Next]_vars
    BY <2>1, <2>2, FirstStep, SoundStep DEF MemoryInv
  <2>3. ASSUME NEW t \in Threads, PublishThrows(t)
        PROVE  MemoryInv'
    BY <2>1, <2>3, ThrowsKeepsFirst, ThrowsKeepsClients DEF MemoryInv
  <2>4. QED
    BY <2>2, <2>3
<1>3. QED
  BY <1>1, <1>2, PTL DEF SpecOutOfMemory

\* However often memory runs out half-way through an insertion, clients stay
\* owned exactly, calls go through clients of their own key, and the map's
\* iterators point into the list: what may be lost is the bound and the order.
THEOREM SurvivesExhaustion ==
    SpecOutOfMemory => [](RightClient /\ OwnersExact /\ EntriesListed)
<1>1. MemoryInv => RightClient /\ OwnersExact
  BY DEF MemoryInv, ClientsSound, OwnersExact
<1>2. MemoryInv => EntriesListed
  BY DEF MemoryInv, FirstNodes, EntriesListed
<1>3. QED
  BY MemoryInvariant, <1>1, <1>2, PTL

=============================================================================
