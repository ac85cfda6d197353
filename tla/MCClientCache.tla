---------------------------- MODULE MCClientCache ----------------------------
(***************************************************************************)
(* Instance of ClientCache for TLC in which allocations may fail while a   *)
(* client is published.  Every failure may leave one node more in the      *)
(* list, so none happens once the list holds MaxNodes.                     *)
(***************************************************************************)
EXTENDS ClientCache, TLC

CONSTANT MaxNodes

ThrowBounded == Len(lru) < MaxNodes /\ \E t \in Threads : PublishThrows(t)

MemorySpec == Init /\ [][Next \/ ThrowBounded]_vars

ThreadsAndClients == Permutations(Threads) \cup Permutations(Clients)
=============================================================================
