--------------------------- MODULE MCReplayWindow ---------------------------
(* The replay window on a small instance: three words of two bits, so that *)
(* advances of zero, one, two and three or more words, with and without    *)
(* bits carried between words, all occur below MaxPN.                      *)
EXTENDS ReplayWindow, TLC

\* Receivers are interchangeable: no definition names one.
ReceiverSymmetry == Permutations(Receivers)
=============================================================================
