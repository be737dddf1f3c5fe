----------------------------- MODULE Handshake ------------------------------
(***************************************************************************)
(* The WG-HS/1 handshake and the transport that follows it, end to end:    *)
(* client attempts (internal/handshake/client.go), the sessions of one     *)
(* server (server.go), the datagrams both seal and open (transport.go) and *)
(* an unreliable network between them.  Every method holds the mutex of    *)
(* its client or session and is one step.                                  *)
(*                                                                         *)
(* net is the set of all datagrams ever sent: a datagram may be delivered  *)
(* late, in any order, many times or never.  A client is one attempt, with *)
(* its own CID and ephemeral key, so it stands for its INITIAL and th1; a  *)
(* session, with its CID and ephemeral key, stands for its HANDSHAKE, th2  *)
(* and the two traffic keys derived from them.  A transport datagram names *)
(* the session whose CIDs and key it carries, and only the holder of that  *)
(* session's key can open it.                                              *)
(*                                                                         *)
(* The attempt cache appears here through what it promises the protocol    *)
(* (attempt); AttemptCache models its concurrency.  A CONFIRM that opens   *)
(* under the key of a session carries its th2: the refusal of another th2  *)
(* belongs to AttemptCache, where the peer is arbitrary.  The replay       *)
(* window is the abstract one that ReplayWindow is shown to implement.     *)
(***************************************************************************)
EXTENDS Integers

CONSTANTS
    Clients,                    \* handshake attempts of clients
    Sessions,                   \* bound: sessions the server creates
    Challenges,                 \* PING challenges the random source yields
    rehandshakePacketNumber,    \* bound on packet numbers (2^32 in the code)
    ReplayWindowSize,           \* 2048 in the code
    None,                       \* nil
    Tombstone                   \* an attempt that ended and is remembered

ASSUME LimitAssumption ==
    /\ rehandshakePacketNumber \in Nat \ {0}
    /\ ReplayWindowSize \in Nat \ {0}
ASSUME NamesAssumption ==
    /\ None \notin Clients \cup Sessions \cup Challenges
    /\ Tombstone \notin Sessions /\ Tombstone # None

VARIABLES
    cstate, peer, csendPN, creceived, pendingChallenge,           \* Client
    sstate, owner, ssendPN, sreceived, confirmChallenge,          \* ServerSession
    attempt,            \* server.attempts by INITIAL: session, Tombstone or None
    net,                \* datagrams sent
    promoted,           \* sessions that became Established (entry.confirmed)
    opened              \* clients that became Established

clientVars == <<cstate, peer, csendPN, creceived, pendingChallenge>>
sessionVars == <<sstate, owner, ssendPN, sreceived, confirmChallenge>>
vars == <<clientVars, sessionVars, attempt, net, promoted, opened>>

ClientStates == {"Idle", "InitialSent", "PendingConfirm", "PendingPong",
                 "Established", "Rejected", "Closed"}
SessionStates == {"none", "PendingConfirm", "Established", "Closed"}
PacketNumber == 0..(rehandshakePacketNumber - 1)

-----------------------------------------------------------------------------
(* Datagrams.                                                              *)

InitialOf(c) == [kind |-> "INITIAL", client |-> c]
HandshakeOf(c, s) == [kind |-> "HANDSHAKE", client |-> c, session |-> s]
Transport(dir, s, pn, frame, challenge) ==
    [kind |-> "TRANSPORT", dir |-> dir, session |-> s, pn |-> pn,
     frame |-> frame, challenge |-> challenge]

InitialDatagram == [kind : {"INITIAL"}, client : Clients]
HandshakeDatagram == [kind : {"HANDSHAKE"}, client : Clients, session : Sessions]
TransportDatagram ==
    [kind : {"TRANSPORT"}, dir : {"c2s", "s2c"}, session : Sessions,
     pn : PacketNumber, frame : {"CONFIRM", "PONG", "DATA"},
     challenge : Challenges \cup {None}]

\* The replay window: pn was not accepted before and is not too old.
Fresh(received, pn) ==
    /\ pn \notin received
    /\ \A p \in received : p - pn < ReplayWindowSize

-----------------------------------------------------------------------------
(* The client's seal, open and close.                                      *)

\* Mutant: a sealed datagram does not use up its packet number.
ClientSealsSamePN(c, frame, challenge) ==
    /\ csendPN[c] < rehandshakePacketNumber
    /\ net' = net \cup {Transport("c2s", peer[c], csendPN[c], frame, challenge)}
    /\ UNCHANGED csendPN

\* sealLocked below the packet-number limit.  When the frames turn out too
\* large the allocated number is lost: a datagram nobody will deliver.
ClientSeals(c, frame, challenge) ==
    /\ csendPN[c] < rehandshakePacketNumber
    /\ net' = net \cup {Transport("c2s", peer[c], csendPN[c], frame, challenge)}
    /\ csendPN' = [csendPN EXCEPT ![c] = @ + 1]

\* closeLocked.
CloseClient(c, next) ==
    /\ cstate' = [cstate EXCEPT ![c] = next]
    /\ pendingChallenge' = [pendingChallenge EXCEPT ![c] = None]

\* openLocked: the datagram is for this client and its packet number is
\* claimed, whatever frames it turns out to hold.
ClientOpens(c, m) ==
    /\ m \in net /\ m.kind = "TRANSPORT"
    /\ m.dir = "s2c" /\ m.session = peer[c]
    /\ Fresh(creceived[c], m.pn)
    /\ creceived' = [creceived EXCEPT ![c] = @ \cup {m.pn}]

-----------------------------------------------------------------------------
(* The client.                                                             *)

Start(c) ==
    /\ cstate[c] = "Idle"
    /\ cstate' = [cstate EXCEPT ![c] = "InitialSent"]
    /\ net' = net \cup {InitialOf(c)}
    /\ UNCHANGED <<peer, csendPN, creceived, pendingChallenge, sessionVars,
                   attempt, promoted, opened>>

\* Mutant: the HANDSHAKE of another attempt is taken for one's own.
FinishAnyHandshake(c, m) ==
    /\ cstate[c] = "InitialSent"
    /\ m \in net /\ m.kind = "HANDSHAKE"
    /\ cstate' = [cstate EXCEPT ![c] = "PendingConfirm"]
    /\ peer' = [peer EXCEPT ![c] = m.session]
    /\ UNCHANGED <<csendPN, creceived, pendingChallenge, sessionVars, attempt,
                   net, promoted, opened>>

\* Finish with a HANDSHAKE for this attempt.
Finish(c, m) ==
    /\ cstate[c] = "InitialSent"
    /\ m \in net /\ m.kind = "HANDSHAKE"
    /\ m.client = c
    /\ cstate' = [cstate EXCEPT ![c] = "PendingConfirm"]
    /\ peer' = [peer EXCEPT ![c] = m.session]
    /\ UNCHANGED <<csendPN, creceived, pendingChallenge, sessionVars, attempt,
                   net, promoted, opened>>

\* Finish with anything else - a damaged datagram, a HANDSHAKE of another
\* attempt, parameters it refuses - rejects the attempt.
FinishRejects(c) ==
    /\ cstate[c] = "InitialSent"
    /\ CloseClient(c, "Rejected")
    /\ UNCHANGED <<peer, csendPN, creceived, sessionVars, attempt, net,
                   promoted, opened>>

BuildConfirm(c, challenge) ==
    /\ cstate[c] = "PendingConfirm"
    /\ ClientSeals(c, "CONFIRM", challenge)
    /\ pendingChallenge' = [pendingChallenge EXCEPT ![c] = challenge]
    /\ cstate' = [cstate EXCEPT ![c] = "PendingPong"]
    /\ UNCHANGED <<peer, creceived, sessionVars, attempt, promoted, opened>>

\* Mutant: a retransmission draws a new challenge.
RetransmitWithNewChallenge(c) ==
    /\ cstate[c] = "PendingPong"
    /\ \E challenge \in Challenges :
          /\ ClientSeals(c, "CONFIRM", challenge)
          /\ pendingChallenge' = [pendingChallenge EXCEPT ![c] = challenge]
    /\ UNCHANGED <<cstate, peer, creceived, sessionVars, attempt, promoted, opened>>

\* The same challenge under a new packet number.
RetransmitConfirm(c) ==
    /\ cstate[c] = "PendingPong"
    /\ ClientSeals(c, "CONFIRM", pendingChallenge[c])
    /\ UNCHANGED <<cstate, peer, creceived, pendingChallenge, sessionVars,
                   attempt, promoted, opened>>

\* HandlePong consumes the packet number of whatever it opens; only the
\* matching PONG establishes.
HandlePong(c, m) ==
    /\ cstate[c] = "PendingPong"
    /\ ClientOpens(c, m)
    /\ \/ /\ m.frame = "PONG" /\ m.challenge = pendingChallenge[c]
          /\ cstate' = [cstate EXCEPT ![c] = "Established"]
          /\ pendingChallenge' = [pendingChallenge EXCEPT ![c] = None]
          /\ opened' = opened \cup {c}
       \/ /\ ~(m.frame = "PONG" /\ m.challenge = pendingChallenge[c])
          /\ UNCHANGED <<cstate, pendingChallenge, opened>>
    /\ UNCHANGED <<peer, csendPN, sessionVars, attempt, net, promoted>>

ClientSealData(c) ==
    /\ cstate[c] = "Established"
    /\ ClientSeals(c, "DATA", None)
    /\ UNCHANGED <<cstate, peer, creceived, pendingChallenge, sessionVars,
                   attempt, promoted, opened>>

\* sealLocked at the packet-number limit, in RetransmitConfirm or Seal.
ClientAtLimit(c) ==
    /\ cstate[c] \in {"PendingPong", "Established"}
    /\ csendPN[c] >= rehandshakePacketNumber
    /\ CloseClient(c, "Closed")
    /\ UNCHANGED <<peer, csendPN, creceived, sessionVars, attempt, net,
                   promoted, opened>>

ClientOpen(c, m) ==
    /\ cstate[c] = "Established"
    /\ ClientOpens(c, m)
    /\ UNCHANGED <<cstate, peer, csendPN, pendingChallenge, sessionVars, attempt,
                   net, promoted, opened>>

ClientClose(c) ==
    /\ cstate[c] # "Closed"
    /\ CloseClient(c, "Closed")
    /\ UNCHANGED <<peer, csendPN, creceived, sessionVars, attempt, net,
                   promoted, opened>>

-----------------------------------------------------------------------------
(* The session's seal, open and close.                                     *)

SessionSeals(s, frame, challenge) ==
    /\ ssendPN[s] < rehandshakePacketNumber
    /\ net' = net \cup {Transport("s2c", s, ssendPN[s], frame, challenge)}
    /\ ssendPN' = [ssendPN EXCEPT ![s] = @ + 1]

SessionOpens(s, m) ==
    /\ m \in net /\ m.kind = "TRANSPORT"
    /\ m.dir = "c2s" /\ m.session = s
    /\ Fresh(sreceived[s], m.pn)
    /\ sreceived' = [sreceived EXCEPT ![s] = @ \cup {m.pn}]

\* closeLocked: the attempt, if it is still this session's, is remembered
\* as ended.
CloseSession(s) ==
    /\ sstate' = [sstate EXCEPT ![s] = "Closed"]
    /\ confirmChallenge' = [confirmChallenge EXCEPT ![s] = None]
    /\ attempt' = IF attempt[owner[s]] = s
                  THEN [attempt EXCEPT ![owner[s]] = Tombstone] ELSE attempt

-----------------------------------------------------------------------------
(* The server.                                                             *)

\* HandleInitial for an INITIAL the cache does not know.  A repeated INITIAL
\* gets the cached HANDSHAKE again, or an error once the attempt has ended:
\* neither changes anything.
HandleInitial(c, s) ==
    /\ InitialOf(c) \in net
    /\ attempt[c] = None
    /\ sstate[s] = "none"
    /\ sstate' = [sstate EXCEPT ![s] = "PendingConfirm"]
    /\ owner' = [owner EXCEPT ![s] = c]
    /\ attempt' = [attempt EXCEPT ![c] = s]
    /\ net' = net \cup {HandshakeOf(c, s)}
    /\ UNCHANGED <<clientVars, ssendPN, sreceived, confirmChallenge, promoted, opened>>

\* HandleConfirm while PendingConfirm: promoteAttempt succeeds, the session
\* is Established and answers.
ConfirmFirst(s, m) ==
    /\ sstate[s] = "PendingConfirm" /\ m.frame = "CONFIRM"
    /\ attempt[owner[s]] = s
    /\ confirmChallenge' = [confirmChallenge EXCEPT ![s] = m.challenge]
    /\ sstate' = [sstate EXCEPT ![s] = "Established"]
    /\ promoted' = promoted \cup {s}
    /\ SessionSeals(s, "PONG", m.challenge)
    /\ UNCHANGED <<owner, attempt>>

\* promoteAttempt fails: the attempt has expired.
ConfirmExpired(s, m) ==
    /\ sstate[s] = "PendingConfirm" /\ m.frame = "CONFIRM"
    /\ attempt[owner[s]] # s
    /\ CloseSession(s)
    /\ UNCHANGED <<owner, ssendPN, net, promoted>>

\* A retransmission inside the grace period is answered again ...
ConfirmGraceActive(s, m) ==
    /\ m.frame = "CONFIRM"
    /\ m.challenge = confirmChallenge[s]
    /\ attempt[owner[s]] = s

ConfirmAgain(s, m) ==
    /\ sstate[s] = "Established" /\ ConfirmGraceActive(s, m)
    /\ \/ /\ SessionSeals(s, "PONG", m.challenge)
          /\ UNCHANGED <<sstate, confirmChallenge, attempt>>
       \/ /\ ssendPN[s] >= rehandshakePacketNumber
          /\ CloseSession(s)
          /\ UNCHANGED <<ssendPN, net>>
    /\ UNCHANGED <<owner, promoted>>

\* ... and anything else is refused, its packet number being used up.
ConfirmRefused(s, m) ==
    /\ \/ sstate[s] = "Established" /\ ~ConfirmGraceActive(s, m)
       \/ sstate[s] = "PendingConfirm" /\ m.frame # "CONFIRM"
    /\ UNCHANGED <<sstate, owner, ssendPN, confirmChallenge, attempt, net, promoted>>

HandleConfirm(s, m) ==
    /\ SessionOpens(s, m)
    /\ \/ ConfirmFirst(s, m)
       \/ ConfirmExpired(s, m)
       \/ ConfirmAgain(s, m)
       \/ ConfirmRefused(s, m)
    /\ UNCHANGED <<clientVars, opened>>

\* Mutant: a session forwards data before it is confirmed.
SessionSealUnconfirmed(s) ==
    /\ sstate[s] \in {"PendingConfirm", "Established"}
    /\ SessionSeals(s, "DATA", None)
    /\ UNCHANGED <<clientVars, sstate, owner, sreceived, confirmChallenge, attempt,
                   promoted, opened>>

SessionSealData(s) ==
    /\ sstate[s] = "Established"
    /\ SessionSeals(s, "DATA", None)
    /\ UNCHANGED <<clientVars, sstate, owner, sreceived, confirmChallenge, attempt,
                   promoted, opened>>

\* Open and Seal need an Established session.
SessionOpen(s, m) ==
    /\ sstate[s] = "Established"
    /\ SessionOpens(s, m)
    /\ UNCHANGED <<clientVars, sstate, owner, ssendPN, confirmChallenge, attempt,
                   net, promoted, opened>>

\* Close, or sealLocked at the packet-number limit.
SessionClose(s) ==
    /\ sstate[s] \in {"PendingConfirm", "Established"}
    /\ CloseSession(s)
    /\ UNCHANGED <<clientVars, owner, ssendPN, sreceived, net, promoted, opened>>

\* The attempt's time is up, before the confirmation or after its grace
\* period; only an unconfirmed session is closed with it, later.
ExpireAttempt(c) ==
    /\ attempt[c] \in Sessions
    /\ attempt' = [attempt EXCEPT ![c] = Tombstone]
    /\ UNCHANGED <<clientVars, sessionVars, net, promoted, opened>>

\* The tombstone's time is up: the INITIAL would be taken for a new one.
ForgetAttempt(c) ==
    /\ attempt[c] = Tombstone
    /\ attempt' = [attempt EXCEPT ![c] = None]
    /\ UNCHANGED <<clientVars, sessionVars, net, promoted, opened>>

-----------------------------------------------------------------------------

Init ==
    /\ cstate = [c \in Clients |-> "Idle"]
    /\ peer = [c \in Clients |-> None]
    /\ csendPN = [c \in Clients |-> 0]
    /\ creceived = [c \in Clients |-> {}]
    /\ pendingChallenge = [c \in Clients |-> None]
    /\ sstate = [s \in Sessions |-> "none"]
    /\ owner = [s \in Sessions |-> None]
    /\ ssendPN = [s \in Sessions |-> 0]
    /\ sreceived = [s \in Sessions |-> {}]
    /\ confirmChallenge = [s \in Sessions |-> None]
    /\ attempt = [c \in Clients |-> None]
    /\ net = {} /\ promoted = {} /\ opened = {}

ClientNext(c) ==
    \/ Start(c)
    \/ FinishRejects(c)
    \/ \E challenge \in Challenges : BuildConfirm(c, challenge)
    \/ RetransmitConfirm(c)
    \/ ClientSealData(c)
    \/ ClientAtLimit(c)
    \/ ClientClose(c)
    \/ \E m \in net : Finish(c, m) \/ HandlePong(c, m) \/ ClientOpen(c, m)

ServerNext ==
    \/ \E c \in Clients :
          \/ \E s \in Sessions : HandleInitial(c, s)
          \/ ExpireAttempt(c)
          \/ ForgetAttempt(c)
    \/ \E s \in Sessions :
          \/ SessionSealData(s)
          \/ SessionClose(s)
          \/ \E m \in net : HandleConfirm(s, m) \/ SessionOpen(s, m)

Next == ServerNext \/ \E c \in Clients : ClientNext(c)

Spec == Init /\ [][Next]_vars

-----------------------------------------------------------------------------
(* Properties.                                                             *)

TypeOK ==
    /\ cstate \in [Clients -> ClientStates]
    /\ peer \in [Clients -> Sessions \cup {None}]
    /\ csendPN \in [Clients -> 0..rehandshakePacketNumber]
    /\ creceived \in [Clients -> SUBSET PacketNumber]
    /\ pendingChallenge \in [Clients -> Challenges \cup {None}]
    /\ sstate \in [Sessions -> SessionStates]
    /\ owner \in [Sessions -> Clients \cup {None}]
    /\ ssendPN \in [Sessions -> 0..rehandshakePacketNumber]
    /\ sreceived \in [Sessions -> SUBSET PacketNumber]
    /\ confirmChallenge \in [Sessions -> Challenges \cup {None}]
    /\ attempt \in [Clients -> Sessions \cup {None, Tombstone}]
    /\ net \subseteq InitialDatagram \cup HandshakeDatagram \cup TransportDatagram
    /\ promoted \subseteq Sessions
    /\ opened \subseteq Clients

\* "Allocated packet numbers are never rolled back or reused" (sealLocked):
\* two datagrams sealed with the same key under the same packet number are
\* the same datagram, across retransmissions, answers and data of the
\* session.  (And every variable has its type.)
SamePN(m, n) == m.session = n.session /\ m.dir = n.dir /\ m.pn = n.pn
NoncesUnique ==
    /\ TypeOK
    /\ \A m, n \in {d \in net : d.kind = "TRANSPORT"} : SamePN(m, n) => m = n

\* Data flows only in sessions whose CONFIRM the server accepted: a client
\* that sends data has seen a PONG that only a confirmed session seals.
DataOnlyConfirmed ==
    \A m \in net : m.kind = "TRANSPORT" /\ m.frame = "DATA" => m.session \in promoted

\* While a client waits for its PONG and its session is Established, the next
\* retransmission of the CONFIRM cannot be refused as a replay, as too old or
\* for its challenge ("reuses the original th2 and PING challenge while
\* allocating a fresh TRANSPORT PN"), however many datagrams were lost.
RetransmissionAnswerable ==
    \A c \in Clients :
        cstate[c] = "PendingPong" /\ sstate[peer[c]] = "Established" =>
            /\ confirmChallenge[peer[c]] = pendingChallenge[c]
            /\ Fresh(sreceived[peer[c]], csendPN[c])

\* Client and server agree: each INITIAL gets at most one established
\* session, even when the attempt is forgotten and the INITIAL is delivered
\* again, and a client is established only with the session that was
\* established for it.
Agreement == INSTANCE Establishment WITH
    confirmedFor <- [s \in Sessions |-> IF s \in promoted THEN owner[s] ELSE None],
    establishedWith <- [c \in Clients |-> IF c \in opened THEN peer[c] ELSE None]
RefinesEstablishment == Agreement!ESpec
=============================================================================
