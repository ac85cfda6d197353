--------------------------- MODULE KmsClientService ---------------------------
(***************************************************************************)
(* What the client cache promises the backend, with no list, no addresses  *)
(* and no ownership: a thread that asks for a key is served through a      *)
(* client configured for that key, or its call fails; serving makes the    *)
(* key's client shared; at most Capacity clients are shared at a time.     *)
(***************************************************************************)
EXTENDS Naturals, FiniteSets

CONSTANTS Threads, Keys, Capacity, NoKey

VARIABLES
    phase,     \* idle, waiting for a client, or using one
    servedKey, \* the key asked for; once served, the key of the client used
    shared     \* keys whose client is kept for the next caller

serviceVars == <<phase, servedKey, shared>>

ServiceInit ==
    /\ phase     = [t \in Threads |-> "idle"]
    /\ servedKey = [t \in Threads |-> NoKey]
    /\ shared    = {}

Ask(t, k) ==
    /\ phase[t] = "idle"
    /\ phase'     = [phase EXCEPT ![t] = "waiting"]
    /\ servedKey' = [servedKey EXCEPT ![t] = k]
    /\ UNCHANGED shared

Serve(t) ==
    /\ phase[t] = "waiting"
    /\ phase' = [phase EXCEPT ![t] = "using"]
    /\ shared' \in SUBSET (shared \cup {servedKey[t]})
    /\ servedKey[t] \in shared'
    /\ Cardinality(shared') <= Capacity
    /\ Cardinality(shared \ shared') <= 1
    /\ UNCHANGED servedKey

Refuse(t) ==
    /\ phase[t] = "waiting"
    /\ phase'     = [phase EXCEPT ![t] = "idle"]
    /\ servedKey' = [servedKey EXCEPT ![t] = NoKey]
    /\ UNCHANGED shared

Finish(t) ==
    /\ phase[t] = "using"
    /\ phase'     = [phase EXCEPT ![t] = "idle"]
    /\ servedKey' = [servedKey EXCEPT ![t] = NoKey]
    /\ UNCHANGED shared

ServiceNext ==
    \E t \in Threads :
        \/ \E k \in Keys : Ask(t, k)
        \/ Serve(t) \/ Refuse(t) \/ Finish(t)

ServiceFairness ==
    \A t \in Threads :
        WF_serviceVars(Serve(t) \/ Refuse(t)) /\ WF_serviceVars(Finish(t))

ServiceSpec == ServiceInit /\ [][ServiceNext]_serviceVars /\ ServiceFairness
=============================================================================
