------------------------- MODULE MCProxyController -------------------------
(* Concurrent requests, and process IDs, are interchangeable.              *)
EXTENDS ProxyController, TLC

ProxySymmetry == Permutations(Requests) \cup Permutations(Children)
=============================================================================
