------------------------------ MODULE MCBridge ------------------------------
(* One chunk of request, a reply of two.                                   *)
EXTENDS Bridge
MCRequestData == <<"u1">>
MCReplyData == <<"d1", "d2">>
=============================================================================
