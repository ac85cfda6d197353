---------------------------- MODULE ClientCacheLru ----------------------------
(***************************************************************************)
(* Which client an eviction picks.  A history variable remembers every key *)
(* ever handed out, most recent first, whatever the cache does with it.    *)
(***************************************************************************)
EXTENDS ClientCache

VARIABLE recency \* history: every key served, most recently served first

\* Where k is in s, or the place after its last
PlaceOf(s, k) ==
    IF \E n \in 1..Len(s) : s[n] = k THEN CHOOSE n \in 1..Len(s) : s[n] = k
    ELSE Len(s) + 1

\* k becomes the most recent, whether it is new or not.
Used(s, k) ==
    LET at == PlaceOf(s, k)
    IN  [n \in 1..(IF at > Len(s) THEN at ELSE Len(s)) |->
            IF n = 1 THEN k ELSE IF n <= at THEN s[n - 1] ELSE s[n]]

HandedOver(t) == client'[t] # client[t] /\ client'[t] # NoClient

LruInit == Init /\ recency = <<>>

LruNext ==
    /\ Next
    /\ recency' = IF \E t \in Threads : HandedOver(t)
                  THEN Used(recency, key[CHOOSE t \in Threads : HandedOver(t)])
                  ELSE recency

LruSpec == LruInit /\ [][LruNext]_<<vars, recency>> /\ Fairness

\* Replacement is exactly least-recently-used, with lookups of several threads
\* between the misses: what is cached is the MaxClients most recently served
\* keys, in the order of their last use (touch_lru, publish_client).
LeastRecentlyUsed ==
    LET kept == IF Len(recency) < MaxClients THEN Len(recency) ELSE MaxClients
    IN  /\ lru = SubSeq(recency, 1, kept)
        /\ DOMAIN clients = {recency[n] : n \in 1..kept}
=============================================================================
