--------------------------- MODULE Establishment ----------------------------
(***************************************************************************)
(* What the WG-HS/1 handshake promises its two users, without datagrams:   *)
(* a server session is established for the client attempt it answers, at   *)
(* most one session for each attempt, and a client is established only     *)
(* with the session that was established for it.                           *)
(***************************************************************************)
CONSTANTS Clients, Sessions, None

VARIABLES
    confirmedFor,       \* session -> the client it was established for, or None
    establishedWith     \* client -> the session it is established with, or None

EInit ==
    /\ confirmedFor = [s \in Sessions |-> None]
    /\ establishedWith = [c \in Clients |-> None]

ServerEstablishes(s, c) ==
    /\ confirmedFor[s] = None
    /\ \A other \in Sessions : confirmedFor[other] # c
    /\ confirmedFor' = [confirmedFor EXCEPT ![s] = c]
    /\ UNCHANGED establishedWith

ClientEstablishes(c, s) ==
    /\ establishedWith[c] = None
    /\ confirmedFor[s] = c
    /\ establishedWith' = [establishedWith EXCEPT ![c] = s]
    /\ UNCHANGED confirmedFor

ENext ==
    \E c \in Clients, s \in Sessions :
        ServerEstablishes(s, c) \/ ClientEstablishes(c, s)

ESpec == EInit /\ [][ENext]_<<confirmedFor, establishedWith>>
=============================================================================
