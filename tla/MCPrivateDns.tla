---------------------------- MODULE MCPrivateDns ----------------------------
(* Keys, refreshers and resolvers are interchangeable.                     *)
EXTENDS PrivateDns, TLC

DnsSymmetry ==
    Permutations(Keys) \cup Permutations(Refreshers) \cup Permutations(Resolvers)
=============================================================================
