---------------------------- MODULE MCHandshake -----------------------------
(* Clients, sessions and challenges are interchangeable.                   *)
EXTENDS Handshake, TLC

HandshakeSymmetry ==
    Permutations(Clients) \cup Permutations(Sessions) \cup Permutations(Challenges)
=============================================================================
