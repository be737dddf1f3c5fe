-------------------------- MODULE Handshake_proofs --------------------------
(***************************************************************************)
(* Proofs about Handshake, for every number of clients and sessions, every *)
(* set of challenges, packet-number limit and window size, and whatever    *)
(* the network does.                                                       *)
(*                                                                         *)
(* Nothing the code checks says directly that a session has one peer: an   *)
(* INITIAL can be answered by several sessions, one after the other, once  *)
(* its attempt was forgotten.  What makes the handshake safe is that a     *)
(* client finishes with one HANDSHAKE only, so all transport datagrams to  *)
(* the sessions of a client carry the key of one session, its peer.  The   *)
(* invariant Inv says this (SentNumbers, Promoted) and the rest follows.   *)
(*                                                                         *)
(* The step lemmas come first: Monotone, NewDatagram, ClientMoves and      *)
(* SessionMoves say, one action at a time, what a step may do; the parts   *)
(* of the invariant are then proved from them alone.                       *)
(***************************************************************************)
EXTENDS Handshake, TLAPS

-----------------------------------------------------------------------------
(* The invariant.                                                          *)

\* A session without an owner has not been created.
Owners == \A s \in Sessions : sstate[s] = "none" <=> owner[s] = None

\* A HANDSHAKE names the client that owns its session.
HandshakesOwned ==
    \A m \in net : m.kind = "HANDSHAKE" => owner[m.session] = m.client

\* A client that finished has a peer, which it owns; before that it has none
\* and has sent no transport datagram.
Peers ==
    \A c \in Clients :
        /\ peer[c] # None => owner[peer[c]] = c
        /\ cstate[c] \in {"PendingConfirm", "PendingPong", "Established"} =>
              peer[c] # None
        /\ cstate[c] \in {"Idle", "InitialSent"} => peer[c] = None
        /\ cstate[c] \in {"Idle", "InitialSent", "PendingConfirm"} => csendPN[c] = 0

\* Session s is the peer of its owner, who has used packet number pn.
Used(s, pn) ==
    /\ owner[s] \in Clients
    /\ peer[owner[s]] = s
    /\ pn < csendPN[owner[s]]

\* The number of a datagram was used by its sender; a session that sends
\* was confirmed.
SentNumbers ==
    \A m \in net : m.kind = "TRANSPORT" =>
        /\ m.dir = "c2s" => Used(m.session, m.pn)
        /\ m.dir = "s2c" => /\ m.pn < ssendPN[m.session]
                            /\ m.session \in promoted

\* What a session received was sent by its peer.
Received == \A s \in Sessions : \A pn \in sreceived[s] : Used(s, pn)

\* A session that was confirmed is the peer of its owner.
Promoted ==
    \A s \in Sessions :
        /\ sstate[s] = "Established" => s \in promoted
        /\ s \in promoted =>
              sstate[s] \in {"Established", "Closed"} /\ Used(s, 0)

\* A client that was established has a confirmed peer.
Opened ==
    \A c \in Clients :
        /\ cstate[c] = "Established" => c \in opened
        /\ c \in opened =>
              cstate[c] \in {"Established", "Closed"} /\ peer[c] \in promoted

\* The owner of s, if it waits for a PONG, waits for this challenge.
Awaited(s, challenge) ==
    cstate[owner[s]] = "PendingPong" => pendingChallenge[owner[s]] = challenge

\* Every CONFIRM of a client carries the challenge it waits for, and so does
\* the confirmation its session accepted.
ChallengesAgree ==
    /\ \A m \in net :
          m.kind = "TRANSPORT" /\ m.dir = "c2s" /\ m.frame = "CONFIRM" =>
              Awaited(m.session, m.challenge)
    /\ \A s \in Sessions :
          sstate[s] = "Established" => Awaited(s, confirmChallenge[s])

\* Numbers are unique (NoncesUnique without the types).
Unique ==
    \A m, n \in {d \in net : d.kind = "TRANSPORT"} : SamePN(m, n) => m = n

Inv ==
    /\ TypeOK /\ Owners /\ HandshakesOwned /\ Peers
    /\ SentNumbers /\ Received /\ Promoted /\ Opened /\ ChallengesAgree
    /\ Unique /\ DataOnlyConfirmed
-----------------------------------------------------------------------------
(* What a step may do.                                                     *)

\* Owners and peers are given once, numbers only grow, and nobody's
\* establishment is taken back.
Monotone ==
    /\ \A s \in Sessions : owner[s] # None => owner'[s] = owner[s]
    /\ \A c \in Clients : peer[c] # None => peer'[c] = peer[c]
    /\ \A c \in Clients : csendPN'[c] \in {csendPN[c], csendPN[c] + 1}
    /\ \A s \in Sessions : ssendPN'[s] \in {ssendPN[s], ssendPN[s] + 1}
    /\ promoted \subseteq promoted'
    /\ opened \subseteq opened'

\* The datagrams a step can add to the network.
NewHandshake(m) ==
    \E c \in Clients, s \in Sessions : m = HandshakeOf(c, s) /\ owner'[s] = c

NewFromClient(m) ==
    \E c \in Clients, frame \in {"CONFIRM", "DATA"},
          challenge \in Challenges \cup {None} :
        /\ m = Transport("c2s", peer[c], csendPN[c], frame, challenge)
        /\ cstate[c] \in {"PendingConfirm", "PendingPong", "Established"}
        /\ csendPN[c] < rehandshakePacketNumber
        /\ csendPN'[c] = csendPN[c] + 1
        /\ frame = "DATA" => cstate[c] = "Established"
        /\ frame = "CONFIRM" => pendingChallenge'[c] = challenge

NewFromSession(m) ==
    \E s \in Sessions, frame \in {"PONG", "DATA"},
          challenge \in Challenges \cup {None} :
        /\ m = Transport("s2c", s, ssendPN[s], frame, challenge)
        /\ ssendPN[s] < rehandshakePacketNumber
        /\ ssendPN'[s] = ssendPN[s] + 1
        /\ sstate'[s] = "Established"

NewDatagram ==
    \/ net' = net
    \/ \E m : /\ net' = net \cup {m}
              /\ \/ \E c \in Clients : m = InitialOf(c)
                 \/ NewHandshake(m)
                 \/ NewFromClient(m)
                 \/ NewFromSession(m)

\* How a client changes.
Finishes(c) ==
    /\ cstate[c] = "InitialSent" /\ cstate'[c] = "PendingConfirm"
    /\ csendPN'[c] = csendPN[c]
    /\ \E m \in net : m.kind = "HANDSHAKE" /\ m.client = c /\ peer'[c] = m.session

ClientMoves(c) ==
    /\ peer'[c] = peer[c] \/ Finishes(c)
    /\ csendPN'[c] # csendPN[c] => cstate'[c] \in {"PendingPong", "Established"}
    /\ cstate'[c] = "Idle" => cstate[c] = "Idle"
    /\ cstate'[c] = "InitialSent" => cstate[c] \in {"Idle", "InitialSent"}
    /\ cstate'[c] = "PendingConfirm" => cstate[c] = "PendingConfirm" \/ Finishes(c)
    /\ cstate'[c] = "PendingPong" =>
          \/ cstate[c] = "PendingConfirm"
          \/ cstate[c] = "PendingPong" /\ pendingChallenge'[c] = pendingChallenge[c]
    /\ cstate'[c] = "Established" => cstate[c] \in {"PendingPong", "Established"}
    /\ cstate'[c] = "Established" /\ cstate[c] # "Established" =>
          /\ c \in opened'
          /\ \E m \in net : /\ m.kind = "TRANSPORT"
                            /\ m.dir = "s2c" /\ m.session = peer[c]
    /\ c \in opened' /\ c \notin opened =>
          cstate[c] = "PendingPong" /\ cstate'[c] = "Established"
    /\ cstate[c] \in {"Established", "Closed"} => cstate'[c] \in {"Established", "Closed"}

\* How a session changes.
FromPeer(s, m) ==
    m \in net /\ m.kind = "TRANSPORT" /\ m.dir = "c2s" /\ m.session = s

Confirmed(s) ==
    \E m : /\ FromPeer(s, m) /\ m.frame = "CONFIRM"
           /\ confirmChallenge'[s] = m.challenge
           /\ sstate[s] = "PendingConfirm" /\ sstate'[s] = "Established"
           /\ s \in promoted'

SessionMoves(s) ==
    /\ \/ owner'[s] = owner[s]
       \/ sstate[s] = "none" /\ sstate'[s] = "PendingConfirm" /\ owner'[s] \in Clients
    /\ owner'[s] = owner[s] => (sstate'[s] = "none" <=> sstate[s] = "none")
    /\ sstate'[s] = "Established" =>
          \/ sstate[s] = "Established" /\ confirmChallenge'[s] = confirmChallenge[s]
          \/ Confirmed(s)
    /\ s \in promoted' /\ s \notin promoted => Confirmed(s)
    /\ sstate[s] \in {"Established", "Closed"} => sstate'[s] \in {"Established", "Closed"}
    /\ \A pn \in sreceived'[s] :
          pn \in sreceived[s] \/ \E m : FromPeer(s, m) /\ m.pn = pn

\* A new datagram has the fields it was sealed with.
LEMMA DatagramFields ==
    /\ \A c : InitialOf(c).kind = "INITIAL"
    /\ \A c, s : /\ HandshakeOf(c, s).kind = "HANDSHAKE"
                 /\ HandshakeOf(c, s).client = c
                 /\ HandshakeOf(c, s).session = s
    /\ \A dir, s, pn, frame, challenge :
          LET m == Transport(dir, s, pn, frame, challenge)
          IN  /\ m.kind = "TRANSPORT" /\ m.dir = dir /\ m.session = s
              /\ m.pn = pn /\ m.frame = frame /\ m.challenge = challenge
  BY DEF InitialOf, HandshakeOf, Transport

\* A datagram of a kind has the type of that kind.
LEMMA DatagramTypes ==
    ASSUME TypeOK, NEW m \in net
    PROVE  /\ m.kind = "HANDSHAKE" => m.client \in Clients /\ m.session \in Sessions
           /\ m.kind = "TRANSPORT" =>
                 /\ m.session \in Sessions /\ m.pn \in PacketNumber
                 /\ m.dir \in {"c2s", "s2c"}
                 /\ m.challenge \in Challenges \cup {None}
  BY DEF TypeOK, InitialDatagram, HandshakeDatagram, TransportDatagram

\* Every step is monotone.
LEMMA MonotoneStep ==
    ASSUME TypeOK, Owners, Peers, [Next]_vars
    PROVE  Monotone
  <1>0. CASE UNCHANGED vars
    BY <1>0 DEF vars, clientVars, sessionVars, Monotone
  <1>1. ASSUME NEW c \in Clients, ClientNext(c) PROVE Monotone
    <2>1. CASE \/ Start(c) \/ FinishRejects(c) \/ ClientAtLimit(c) \/ ClientClose(c)
      BY <2>1 DEF Start, FinishRejects, ClientAtLimit, ClientClose, CloseClient,
                  sessionVars, Monotone
    <2>2. ASSUME NEW challenge \in Challenges, BuildConfirm(c, challenge)
          PROVE  Monotone
      BY <2>2 DEF BuildConfirm, ClientSeals, sessionVars, Monotone, TypeOK
    <2>3. CASE RetransmitConfirm(c)
      BY <2>3 DEF RetransmitConfirm, ClientSeals, sessionVars, Monotone, TypeOK
    <2>4. CASE ClientSealData(c)
      BY <2>4 DEF ClientSealData, ClientSeals, sessionVars, Monotone, TypeOK
    <2>5. ASSUME NEW m \in net, Finish(c, m) PROVE Monotone
      <3>1. peer[c] = None
        BY <2>5 DEF Finish, Peers
      <3> QED
        BY <2>5, <3>1 DEF Finish, sessionVars, Monotone, TypeOK
    <2>6. ASSUME NEW m \in net, HandlePong(c, m) PROVE Monotone
      BY <2>6 DEF HandlePong, sessionVars, Monotone
    <2>7. ASSUME NEW m \in net, ClientOpen(c, m) PROVE Monotone
      BY <2>7 DEF ClientOpen, sessionVars, Monotone
    <2> QED
      BY <1>1, <2>1, <2>2, <2>3, <2>4, <2>5, <2>6, <2>7 DEF ClientNext
  <1>2. ASSUME NEW c \in Clients, NEW s \in Sessions, HandleInitial(c, s)
        PROVE  Monotone
    <2>1. owner[s] = None
      BY <1>2 DEF HandleInitial, Owners
    <2> QED
      BY <1>2, <2>1 DEF HandleInitial, clientVars, Monotone, TypeOK
  <1>3. ASSUME NEW c \in Clients, ExpireAttempt(c) \/ ForgetAttempt(c)
        PROVE  Monotone
    BY <1>3 DEF ExpireAttempt, ForgetAttempt, clientVars, sessionVars, Monotone
  <1>4. ASSUME NEW s \in Sessions, SessionSealData(s) PROVE Monotone
    BY <1>4 DEF SessionSealData, SessionSeals, clientVars, Monotone, TypeOK
  <1>5. ASSUME NEW s \in Sessions, SessionClose(s) PROVE Monotone
    BY <1>5 DEF SessionClose, clientVars, Monotone
  <1>6. ASSUME NEW s \in Sessions, NEW m \in net, HandleConfirm(s, m)
        PROVE  Monotone
    <2>1. UNCHANGED <<peer, csendPN, owner, opened>>
      BY <1>6 DEF HandleConfirm, ConfirmFirst, ConfirmExpired, ConfirmAgain,
                  ConfirmRefused, clientVars
    <2>2. promoted \subseteq promoted'
      BY <1>6 DEF HandleConfirm, ConfirmFirst, ConfirmExpired, ConfirmAgain,
                  ConfirmRefused
    <2>3. \A t \in Sessions : ssendPN'[t] \in {ssendPN[t], ssendPN[t] + 1}
      BY <1>6 DEF HandleConfirm, ConfirmFirst, ConfirmExpired, ConfirmAgain,
                  ConfirmRefused, SessionSeals, TypeOK
    <2> QED
      BY <2>1, <2>2, <2>3 DEF Monotone
  <1>7. ASSUME NEW s \in Sessions, NEW m \in net, SessionOpen(s, m)
        PROVE  Monotone
    BY <1>7 DEF SessionOpen, clientVars, Monotone
  <1> QED
    BY <1>0, <1>1, <1>2, <1>3, <1>4, <1>5, <1>6, <1>7 DEF Next, ServerNext

\* Every step sends one datagram at most, of one of these kinds.
LEMMA NewDatagramStep ==
    ASSUME TypeOK, [Next]_vars
    PROVE  NewDatagram
  <1>0. ASSUME net' = net PROVE NewDatagram
    BY <1>0 DEF NewDatagram
  <1>1. ASSUME NEW c \in Clients, ClientNext(c) PROVE NewDatagram
    <2>1. CASE Start(c)
      BY <2>1 DEF Start, NewDatagram
    <2>2. ASSUME NEW challenge \in Challenges, BuildConfirm(c, challenge)
          PROVE  NewDatagram
      <3>1. NewFromClient(Transport("c2s", peer[c], csendPN[c], "CONFIRM", challenge))
        <4>1. csendPN'[c] = csendPN[c] + 1 /\ pendingChallenge'[c] = challenge
          BY <2>2 DEF BuildConfirm, ClientSeals, TypeOK
        <4> QED
          BY <2>2, <4>1 DEF NewFromClient, BuildConfirm, ClientSeals
      <3> QED
        BY <2>2, <3>1 DEF BuildConfirm, ClientSeals, NewDatagram
    <2>3. CASE RetransmitConfirm(c)
      <3>1. NewFromClient(Transport("c2s", peer[c], csendPN[c], "CONFIRM",
                                    pendingChallenge[c]))
        <4>1. /\ csendPN'[c] = csendPN[c] + 1
              /\ pendingChallenge'[c] = pendingChallenge[c]
              /\ pendingChallenge[c] \in Challenges \cup {None}
          BY <2>3 DEF RetransmitConfirm, ClientSeals, TypeOK
        <4> QED
          BY <2>3, <4>1 DEF NewFromClient, RetransmitConfirm, ClientSeals
      <3> QED
        BY <2>3, <3>1 DEF RetransmitConfirm, ClientSeals, NewDatagram
    <2>4. CASE ClientSealData(c)
      <3>1. NewFromClient(Transport("c2s", peer[c], csendPN[c], "DATA", None))
        <4>1. csendPN'[c] = csendPN[c] + 1
          BY <2>4 DEF ClientSealData, ClientSeals, TypeOK
        <4> QED
          BY <2>4, <4>1 DEF NewFromClient, ClientSealData, ClientSeals
      <3> QED
        BY <2>4, <3>1 DEF ClientSealData, ClientSeals, NewDatagram
    <2> QED
      BY <1>0, <1>1, <2>1, <2>2, <2>3, <2>4
         DEF ClientNext, FinishRejects, ClientAtLimit, ClientClose, Finish,
             HandlePong, ClientOpen
  <1>2. ASSUME NEW c \in Clients, NEW s \in Sessions, HandleInitial(c, s)
        PROVE  NewDatagram
    <2>1. NewHandshake(HandshakeOf(c, s))
      BY <1>2 DEF HandleInitial, NewHandshake, TypeOK
    <2> QED
      BY <1>2, <2>1 DEF HandleInitial, NewDatagram
  <1>3. ASSUME NEW s \in Sessions, NEW frame \in {"PONG", "DATA"},
               NEW challenge \in Challenges \cup {None},
               SessionSeals(s, frame, challenge), sstate'[s] = "Established"
        PROVE  NewDatagram
    <2>1. ssendPN'[s] = ssendPN[s] + 1
      BY <1>3 DEF SessionSeals, TypeOK
    <2>2. NewFromSession(Transport("s2c", s, ssendPN[s], frame, challenge))
      BY <1>3, <2>1 DEF SessionSeals, NewFromSession
    <2> QED
      BY <1>3, <2>2 DEF SessionSeals, NewDatagram
  <1>4. ASSUME NEW s \in Sessions, SessionSealData(s) PROVE NewDatagram
    <2>1. SessionSeals(s, "DATA", None) /\ sstate'[s] = "Established"
      BY <1>4 DEF SessionSealData
    <2> QED
      BY <1>3, <2>1
  <1>5. ASSUME NEW s \in Sessions, NEW m \in net, HandleConfirm(s, m)
        PROVE  NewDatagram
    <2>1. m.challenge \in Challenges \cup {None}
      BY <1>5, DatagramTypes DEF HandleConfirm, SessionOpens
    <2>2. CASE ConfirmFirst(s, m)
      <3>1. SessionSeals(s, "PONG", m.challenge) /\ sstate'[s] = "Established"
        BY <2>2 DEF ConfirmFirst, TypeOK
      <3> QED
        BY <1>3, <2>1, <3>1
    <2>3. CASE ConfirmAgain(s, m)
      <3>1. CASE SessionSeals(s, "PONG", m.challenge) /\ UNCHANGED sstate
        <4>1. sstate'[s] = "Established"
          BY <2>3, <3>1 DEF ConfirmAgain
        <4> QED
          BY <1>3, <2>1, <3>1, <4>1
      <3>2. CASE UNCHANGED net
        BY <1>0, <3>2
      <3> QED
        BY <2>3, <3>1, <3>2 DEF ConfirmAgain
    <2> QED
      BY <1>0, <1>5, <2>2, <2>3 DEF HandleConfirm, ConfirmExpired, ConfirmRefused
  <1> QED
    BY <1>0, <1>1, <1>2, <1>4, <1>5
       DEF Next, ServerNext, ExpireAttempt, ForgetAttempt, SessionClose,
           SessionOpen, vars

\* Nothing a client move is about changes for c.
SameClient(c) ==
    /\ cstate'[c] = cstate[c] /\ peer'[c] = peer[c]
    /\ csendPN'[c] = csendPN[c] /\ pendingChallenge'[c] = pendingChallenge[c]
    /\ c \in opened' <=> c \in opened

\* Staying the same is a move.
LEMMA SameClientMoves ==
    ASSUME NEW c \in Clients, SameClient(c)
    PROVE  ClientMoves(c)
  BY DEF SameClient, ClientMoves

\* A step of one client leaves the others alone.
LEMMA OtherClients ==
    ASSUME TypeOK, NEW c \in Clients, ClientNext(c), NEW d \in Clients, d # c
    PROVE  SameClient(d)
  <1>1. CASE \/ Start(c) \/ FinishRejects(c) \/ ClientAtLimit(c) \/ ClientClose(c)
    BY <1>1 DEF Start, FinishRejects, ClientAtLimit, ClientClose, CloseClient,
                TypeOK, SameClient
  <1>2. ASSUME NEW challenge \in Challenges, BuildConfirm(c, challenge)
        PROVE  SameClient(d)
    BY <1>2 DEF BuildConfirm, ClientSeals, TypeOK, SameClient
  <1>3. CASE RetransmitConfirm(c) \/ ClientSealData(c)
    BY <1>3 DEF RetransmitConfirm, ClientSealData, ClientSeals, TypeOK, SameClient
  <1>4. ASSUME NEW m \in net, Finish(c, m) \/ HandlePong(c, m) \/ ClientOpen(c, m)
        PROVE  SameClient(d)
    BY <1>4 DEF Finish, HandlePong, ClientOpen, TypeOK, SameClient
  <1> QED
    BY <1>1, <1>2, <1>3, <1>4 DEF ClientNext

\* A step of a client moves it in one of these ways.
LEMMA OwnMove ==
    ASSUME TypeOK, Peers, Opened, NEW c \in Clients, ClientNext(c)
    PROVE  ClientMoves(c)
  <1>1. CASE Start(c)
    BY <1>1 DEF Start, TypeOK, ClientMoves
  <1>2. CASE FinishRejects(c) \/ ClientAtLimit(c) \/ ClientClose(c)
    <2>1. cstate'[c] \in {"Closed", "Rejected"}
      BY <1>2 DEF FinishRejects, ClientAtLimit, ClientClose, CloseClient, TypeOK
    <2>2. cstate[c] \in {"Established", "Closed"} => cstate'[c] = "Closed"
      BY <1>2 DEF FinishRejects, ClientAtLimit, ClientClose, CloseClient, TypeOK
    <2>3. UNCHANGED <<peer, csendPN, opened>>
      BY <1>2 DEF FinishRejects, ClientAtLimit, ClientClose
    <2> QED
      BY <2>1, <2>2, <2>3 DEF ClientMoves
  <1>3. ASSUME NEW challenge \in Challenges, BuildConfirm(c, challenge)
        PROVE  ClientMoves(c)
    BY <1>3 DEF BuildConfirm, TypeOK, ClientMoves
  <1>4. CASE RetransmitConfirm(c) \/ ClientSealData(c)
    BY <1>4 DEF RetransmitConfirm, ClientSealData, TypeOK, ClientMoves
  <1>5. ASSUME NEW m \in net, Finish(c, m)
        PROVE  ClientMoves(c)
    <2>1. Finishes(c)
      BY <1>5 DEF Finish, Finishes, TypeOK
    <2> QED
      BY <1>5, <2>1 DEF Finish, Finishes, ClientMoves
  <1>6. ASSUME NEW m \in net, HandlePong(c, m)
        PROVE  ClientMoves(c)
    <2>1. /\ m.kind = "TRANSPORT" /\ m.dir = "s2c" /\ m.session = peer[c]
          /\ cstate[c] = "PendingPong" /\ UNCHANGED <<peer, csendPN>>
      BY <1>6 DEF HandlePong, ClientOpens
    <2>2. CASE cstate' = [cstate EXCEPT ![c] = "Established"]
               /\ opened' = opened \cup {c}
      <3>1. cstate'[c] = "Established" /\ c \in opened'
        BY <2>2 DEF TypeOK
      <3> QED
        BY <2>1, <3>1 DEF ClientMoves
    <2>3. CASE UNCHANGED <<cstate, pendingChallenge, opened>>
      BY <2>1, <2>3 DEF ClientMoves
    <2> QED
      BY <1>6, <2>2, <2>3 DEF HandlePong
  <1>7. ASSUME NEW m \in net, ClientOpen(c, m)
        PROVE  ClientMoves(c)
    BY <1>7, SameClientMoves DEF ClientOpen, SameClient
  <1> QED
    BY <1>1, <1>2, <1>3, <1>4, <1>5, <1>6, <1>7 DEF ClientNext

\* Every step moves every client in one of these ways, or not at all.
LEMMA ClientMovesStep ==
    ASSUME TypeOK, Peers, Opened, [Next]_vars, NEW c \in Clients
    PROVE  ClientMoves(c)
  <1>1. ASSUME NEW d \in Clients, ClientNext(d) PROVE ClientMoves(c)
    BY <1>1, OwnMove, OtherClients, SameClientMoves
  <1>2. ASSUME ServerNext \/ UNCHANGED vars PROVE ClientMoves(c)
    <2>1. UNCHANGED <<clientVars, opened>>
      BY <1>2 DEF ServerNext, HandleInitial, ExpireAttempt, ForgetAttempt,
                  SessionSealData, SessionClose, HandleConfirm, SessionOpen, vars
    <2> QED
      BY <2>1, SameClientMoves DEF SameClient, clientVars
  <1> QED
    BY <1>1, <1>2 DEF Next

\* Nothing a session move is about changes for s.
SameSession(s) ==
    /\ sstate'[s] = sstate[s] /\ owner'[s] = owner[s]
    /\ confirmChallenge'[s] = confirmChallenge[s]
    /\ sreceived'[s] = sreceived[s]
    /\ s \in promoted' <=> s \in promoted

\* Staying the same is a move.
LEMMA SameSessionMoves ==
    ASSUME NEW s \in Sessions, SameSession(s)
    PROVE  SessionMoves(s)
  BY DEF SameSession, SessionMoves

\* A datagram that is opened adds its number and nothing else.
LEMMA OpenedNumbers ==
    ASSUME TypeOK, NEW s \in Sessions, NEW m, SessionOpens(s, m)
    PROVE  /\ FromPeer(s, m)
           /\ sreceived'[s] = sreceived[s] \cup {m.pn}
           /\ \A t \in Sessions : t # s => sreceived'[t] = sreceived[t]
  BY DEF SessionOpens, FromPeer, TypeOK

\* HandleConfirm moves a session in one of these ways.
LEMMA ConfirmMove ==
    ASSUME TypeOK, NEW s \in Sessions, NEW m \in net, HandleConfirm(s, m)
    PROVE  SessionMoves(s)
  <1>1. /\ FromPeer(s, m)
        /\ \A pn \in sreceived'[s] : pn \in sreceived[s] \/ m.pn = pn
    BY OpenedNumbers DEF HandleConfirm
  <1>2. owner' = owner
    BY DEF HandleConfirm, ConfirmFirst, ConfirmExpired, ConfirmAgain, ConfirmRefused
  <1>3. CASE ConfirmFirst(s, m)
    <2>1. Confirmed(s)
      BY <1>1, <1>3 DEF ConfirmFirst, Confirmed, TypeOK
    <2>2. sstate[s] = "PendingConfirm" /\ sstate'[s] = "Established"
      BY <1>3 DEF ConfirmFirst, TypeOK
    <2> QED
      BY <1>1, <1>2, <2>1, <2>2 DEF SessionMoves
  <1>4. CASE \/ ConfirmExpired(s, m)
             \/ ConfirmAgain(s, m) /\ CloseSession(s)
    <2>1. /\ sstate'[s] = "Closed" /\ promoted' = promoted
          /\ sstate[s] \in {"PendingConfirm", "Established"}
      BY <1>4 DEF ConfirmExpired, ConfirmAgain, CloseSession, TypeOK
    <2> QED
      BY <1>1, <1>2, <2>1 DEF SessionMoves
  <1>5. CASE /\ ConfirmAgain(s, m) \/ ConfirmRefused(s, m)
             /\ UNCHANGED <<sstate, confirmChallenge>>
    <2>1. promoted' = promoted
      BY <1>5 DEF ConfirmAgain, ConfirmRefused
    <2> QED
      BY <1>1, <1>2, <1>5, <2>1 DEF SessionMoves
  <1> QED
    BY <1>3, <1>4, <1>5 DEF HandleConfirm, ConfirmAgain, ConfirmRefused

\* Every step moves every session in one of these ways, or not at all.
LEMMA SessionMovesStep ==
    ASSUME TypeOK, Owners, [Next]_vars, NEW t \in Sessions
    PROVE  SessionMoves(t)
  <1>0. ASSUME UNCHANGED <<sstate, owner, confirmChallenge, sreceived, promoted>>
        PROVE  SessionMoves(t)
    BY <1>0, SameSessionMoves DEF SameSession
  <1>1. ASSUME NEW c \in Clients, NEW s \in Sessions, HandleInitial(c, s)
        PROVE  SessionMoves(t)
    <2>1. CASE t = s
      <3>1. /\ sstate[s] = "none" /\ sstate'[s] = "PendingConfirm"
            /\ owner'[s] \in Clients
            /\ UNCHANGED <<sreceived, promoted>>
        BY <1>1 DEF HandleInitial, TypeOK
      <3>2. owner'[s] # owner[s]
        BY <3>1, NamesAssumption DEF Owners
      <3> QED
        BY <2>1, <3>1, <3>2 DEF SessionMoves
    <2>2. CASE t # s
      BY <1>1, <2>2, SameSessionMoves DEF HandleInitial, SameSession, TypeOK
    <2> QED
      BY <2>1, <2>2
  <1>2. ASSUME NEW s \in Sessions, NEW m \in net, HandleConfirm(s, m)
        PROVE  SessionMoves(t)
    <2>1. CASE t # s
      <3>1. sreceived'[t] = sreceived[t]
        BY <1>2, <2>1, OpenedNumbers DEF HandleConfirm
      <3>2. /\ sstate'[t] = sstate[t] /\ owner' = owner
            /\ confirmChallenge'[t] = confirmChallenge[t]
            /\ t \in promoted' <=> t \in promoted
        BY <1>2, <2>1
           DEF HandleConfirm, ConfirmFirst, ConfirmExpired, ConfirmAgain,
               ConfirmRefused, CloseSession, TypeOK
      <3> QED
        BY <3>1, <3>2, SameSessionMoves DEF SameSession
    <2> QED
      BY <1>2, <2>1, ConfirmMove
  <1>3. ASSUME NEW s \in Sessions, NEW m \in net, SessionOpen(s, m)
        PROVE  SessionMoves(t)
    <2>1. /\ FromPeer(s, m)
          /\ sreceived'[s] = sreceived[s] \cup {m.pn}
          /\ \A u \in Sessions : u # s => sreceived'[u] = sreceived[u]
      BY <1>3, OpenedNumbers DEF SessionOpen
    <2>2. UNCHANGED <<sstate, owner, confirmChallenge, promoted>>
      BY <1>3 DEF SessionOpen
    <2> QED
      BY <2>1, <2>2 DEF SessionMoves
  <1>4. ASSUME NEW s \in Sessions, SessionClose(s) PROVE SessionMoves(t)
    <2>1. CASE t = s
      <3>1. /\ sstate'[s] = "Closed" /\ UNCHANGED <<owner, sreceived, promoted>>
            /\ sstate[s] \in {"PendingConfirm", "Established"}
        BY <1>4 DEF SessionClose, CloseSession, TypeOK
      <3> QED
        BY <2>1, <3>1 DEF SessionMoves
    <2>2. CASE t # s
      BY <1>4, <2>2, SameSessionMoves DEF SessionClose, CloseSession, SameSession, TypeOK
    <2> QED
      BY <2>1, <2>2
  <1>5. ASSUME NEW s \in Sessions, SessionSealData(s) PROVE SessionMoves(t)
    BY <1>0, <1>5 DEF SessionSealData
  <1>6. ASSUME NEW c \in Clients, ClientNext(c) PROVE SessionMoves(t)
    <2>1. UNCHANGED <<sessionVars, promoted>>
      BY <1>6 DEF ClientNext, Start, FinishRejects, BuildConfirm, RetransmitConfirm,
                  ClientSealData, ClientAtLimit, ClientClose, Finish, HandlePong,
                  ClientOpen
    <2> QED
      BY <1>0, <2>1 DEF sessionVars
  <1>7. ASSUME NEW c \in Clients, ExpireAttempt(c) \/ ForgetAttempt(c)
        PROVE  SessionMoves(t)
    BY <1>0, <1>7 DEF ExpireAttempt, ForgetAttempt, sessionVars
  <1> QED
    BY <1>0, <1>1, <1>2, <1>3, <1>4, <1>5, <1>6, <1>7
       DEF Next, ServerNext, vars, sessionVars
-----------------------------------------------------------------------------
(* Types.                                                                  *)

\* A client that seals has a session for a peer, and the datagram it seals is
\* a datagram.
LEMMA ClientSealTypes ==
    ASSUME TypeOK, Peers, NEW c \in Clients, NEW frame \in {"CONFIRM", "DATA"},
           NEW challenge \in Challenges \cup {None},
           cstate[c] \in {"PendingConfirm", "PendingPong", "Established"},
           ClientSeals(c, frame, challenge)
    PROVE  /\ csendPN' \in [Clients -> 0..rehandshakePacketNumber]
           /\ net' \subseteq InitialDatagram \cup HandshakeDatagram \cup TransportDatagram
  <1>1. peer[c] \in Sessions
    BY DEF Peers, TypeOK
  <1>2. csendPN[c] \in PacketNumber /\ csendPN[c] + 1 \in 0..rehandshakePacketNumber
    BY LimitAssumption DEF ClientSeals, TypeOK, PacketNumber
  <1>3. Transport("c2s", peer[c], csendPN[c], frame, challenge) \in TransportDatagram
    BY <1>1, <1>2 DEF Transport, TransportDatagram
  <1>4. csendPN' \in [Clients -> 0..rehandshakePacketNumber]
    BY <1>2 DEF ClientSeals, TypeOK
  <1> QED
    BY <1>3, <1>4 DEF ClientSeals, TypeOK

\* Likewise for a session.
LEMMA SessionSealTypes ==
    ASSUME TypeOK, NEW s \in Sessions, NEW frame \in {"PONG", "DATA"},
           NEW challenge \in Challenges \cup {None},
           SessionSeals(s, frame, challenge)
    PROVE  /\ ssendPN' \in [Sessions -> 0..rehandshakePacketNumber]
           /\ net' \subseteq InitialDatagram \cup HandshakeDatagram \cup TransportDatagram
  <1>1. ssendPN[s] \in PacketNumber /\ ssendPN[s] + 1 \in 0..rehandshakePacketNumber
    BY LimitAssumption DEF SessionSeals, TypeOK, PacketNumber
  <1>2. Transport("s2c", s, ssendPN[s], frame, challenge) \in TransportDatagram
    BY <1>1 DEF Transport, TransportDatagram
  <1>3. ssendPN' \in [Sessions -> 0..rehandshakePacketNumber]
    BY <1>1 DEF SessionSeals, TypeOK
  <1> QED
    BY <1>2, <1>3 DEF SessionSeals, TypeOK

\* A client's step keeps the types.
LEMMA ClientTypes ==
    ASSUME TypeOK, Peers, NEW c \in Clients, ClientNext(c)
    PROVE  TypeOK'
  <1>1. CASE Start(c)
    <2>1. InitialOf(c) \in InitialDatagram
      BY DEF InitialOf, InitialDatagram
    <2>2. cstate' \in [Clients -> ClientStates]
      BY <1>1 DEF Start, TypeOK, ClientStates
    <2> QED
      BY <1>1, <2>1, <2>2 DEF Start, TypeOK, sessionVars
  <1>2. CASE FinishRejects(c) \/ ClientAtLimit(c) \/ ClientClose(c)
    BY <1>2 DEF FinishRejects, ClientAtLimit, ClientClose, CloseClient, TypeOK,
                ClientStates, sessionVars
  <1>3. ASSUME NEW challenge \in Challenges, BuildConfirm(c, challenge)
        PROVE  TypeOK'
    <2>1. /\ csendPN' \in [Clients -> 0..rehandshakePacketNumber]
          /\ net' \subseteq InitialDatagram \cup HandshakeDatagram \cup TransportDatagram
      BY <1>3, ClientSealTypes DEF BuildConfirm
    <2> QED
      BY <1>3, <2>1 DEF BuildConfirm, TypeOK, ClientStates, sessionVars
  <1>4. CASE RetransmitConfirm(c)
    <2>1. pendingChallenge[c] \in Challenges \cup {None}
      BY DEF TypeOK
    <2>2. /\ csendPN' \in [Clients -> 0..rehandshakePacketNumber]
          /\ net' \subseteq InitialDatagram \cup HandshakeDatagram \cup TransportDatagram
      BY <1>4, <2>1, ClientSealTypes DEF RetransmitConfirm
    <2> QED
      BY <1>4, <2>2 DEF RetransmitConfirm, TypeOK, sessionVars
  <1>5. CASE ClientSealData(c)
    <2>1. /\ csendPN' \in [Clients -> 0..rehandshakePacketNumber]
          /\ net' \subseteq InitialDatagram \cup HandshakeDatagram \cup TransportDatagram
      BY <1>5, ClientSealTypes DEF ClientSealData
    <2> QED
      BY <1>5, <2>1 DEF ClientSealData, TypeOK, sessionVars
  <1>6. ASSUME NEW m \in net, Finish(c, m) PROVE TypeOK'
    <2>1. m.session \in Sessions
      BY <1>6, DatagramTypes DEF Finish
    <2> QED
      BY <1>6, <2>1 DEF Finish, TypeOK, ClientStates, sessionVars
  <1>7. ASSUME NEW m \in net, ClientOpens(c, m)
        PROVE  creceived' \in [Clients -> SUBSET PacketNumber]
    <2>1. m.pn \in PacketNumber
      BY <1>7, DatagramTypes DEF ClientOpens
    <2> QED
      BY <1>7, <2>1 DEF ClientOpens, TypeOK
  <1>8. ASSUME NEW m \in net, HandlePong(c, m) PROVE TypeOK'
    <2>1. creceived' \in [Clients -> SUBSET PacketNumber]
      BY <1>7, <1>8 DEF HandlePong
    <2>2. /\ cstate' \in [Clients -> ClientStates]
          /\ pendingChallenge' \in [Clients -> Challenges \cup {None}]
          /\ opened' \subseteq Clients
      BY <1>8 DEF HandlePong, TypeOK, ClientStates
    <2> QED
      BY <1>8, <2>1, <2>2 DEF HandlePong, TypeOK, sessionVars
  <1>9. ASSUME NEW m \in net, ClientOpen(c, m) PROVE TypeOK'
    <2>1. creceived' \in [Clients -> SUBSET PacketNumber]
      BY <1>7, <1>9 DEF ClientOpen
    <2> QED
      BY <1>9, <2>1 DEF ClientOpen, TypeOK, sessionVars
  <1> QED
    BY <1>1, <1>2, <1>3, <1>4, <1>5, <1>6, <1>8, <1>9 DEF ClientNext

\* Closing a session keeps the types.
LEMMA CloseSessionTypes ==
    ASSUME TypeOK, NEW s \in Sessions, CloseSession(s)
    PROVE  /\ sstate' \in [Sessions -> SessionStates]
           /\ confirmChallenge' \in [Sessions -> Challenges \cup {None}]
           /\ attempt' \in [Clients -> Sessions \cup {None, Tombstone}]
  BY DEF CloseSession, TypeOK, SessionStates

\* HandleConfirm keeps the types.
LEMMA ConfirmTypes ==
    ASSUME TypeOK, NEW s \in Sessions, NEW m \in net, HandleConfirm(s, m)
    PROVE  TypeOK'
  <1>1. m.challenge \in Challenges \cup {None} /\ m.pn \in PacketNumber
    BY DatagramTypes DEF HandleConfirm, SessionOpens
  <1>2. sreceived' \in [Sessions -> SUBSET PacketNumber]
    BY <1>1 DEF HandleConfirm, SessionOpens, TypeOK
  <1>3. /\ sstate' \in [Sessions -> SessionStates]
        /\ confirmChallenge' \in [Sessions -> Challenges \cup {None}]
        /\ attempt' \in [Clients -> Sessions \cup {None, Tombstone}]
    <2>1. CASE ConfirmFirst(s, m)
      BY <1>1, <2>1 DEF ConfirmFirst, TypeOK, SessionStates
    <2>2. CASE CloseSession(s)
      BY <2>2, CloseSessionTypes
    <2>3. CASE UNCHANGED <<sstate, confirmChallenge, attempt>>
      BY <2>3 DEF TypeOK
    <2> QED
      BY <2>1, <2>2, <2>3
         DEF HandleConfirm, ConfirmExpired, ConfirmAgain, ConfirmRefused
  <1>4. /\ ssendPN' \in [Sessions -> 0..rehandshakePacketNumber]
        /\ net' \subseteq InitialDatagram \cup HandshakeDatagram \cup TransportDatagram
    <2>1. CASE SessionSeals(s, "PONG", m.challenge)
      BY <1>1, <2>1, SessionSealTypes
    <2>2. CASE UNCHANGED <<ssendPN, net>>
      BY <2>2 DEF TypeOK
    <2> QED
      BY <2>1, <2>2
         DEF HandleConfirm, ConfirmFirst, ConfirmExpired, ConfirmAgain, ConfirmRefused
  <1>5. owner' = owner /\ promoted' \subseteq Sessions
    BY DEF HandleConfirm, ConfirmFirst, ConfirmExpired, ConfirmAgain,
           ConfirmRefused, TypeOK
  <1> QED
    BY <1>2, <1>3, <1>4, <1>5 DEF HandleConfirm, TypeOK, clientVars

\* Every step keeps the types.
LEMMA TypeStep ==
    ASSUME TypeOK, Peers, [Next]_vars
    PROVE  TypeOK'
  <1>1. ASSUME NEW c \in Clients, NEW s \in Sessions, HandleInitial(c, s)
        PROVE  TypeOK'
    <2>1. HandshakeOf(c, s) \in HandshakeDatagram
      BY DEF HandshakeOf, HandshakeDatagram
    <2>2. /\ sstate' \in [Sessions -> SessionStates]
          /\ owner' \in [Sessions -> Clients \cup {None}]
          /\ attempt' \in [Clients -> Sessions \cup {None, Tombstone}]
      BY <1>1 DEF HandleInitial, TypeOK, SessionStates
    <2> QED
      BY <1>1, <2>1, <2>2 DEF HandleInitial, TypeOK, clientVars
  <1>2. ASSUME NEW c \in Clients, ExpireAttempt(c) \/ ForgetAttempt(c) PROVE TypeOK'
    <2>1. attempt' \in [Clients -> Sessions \cup {None, Tombstone}]
      BY <1>2 DEF ExpireAttempt, ForgetAttempt, TypeOK
    <2> QED
      BY <1>2, <2>1 DEF ExpireAttempt, ForgetAttempt, TypeOK, clientVars, sessionVars
  <1>3. ASSUME NEW s \in Sessions, SessionSealData(s) PROVE TypeOK'
    <2>1. /\ ssendPN' \in [Sessions -> 0..rehandshakePacketNumber]
          /\ net' \subseteq InitialDatagram \cup HandshakeDatagram \cup TransportDatagram
      BY <1>3, SessionSealTypes DEF SessionSealData
    <2> QED
      BY <1>3, <2>1 DEF SessionSealData, TypeOK, clientVars
  <1>4. ASSUME NEW s \in Sessions, SessionClose(s) PROVE TypeOK'
    BY <1>4, CloseSessionTypes DEF SessionClose, TypeOK, clientVars
  <1>5. ASSUME NEW s \in Sessions, NEW m \in net, SessionOpen(s, m) PROVE TypeOK'
    <2>1. m.pn \in PacketNumber
      BY <1>5, DatagramTypes DEF SessionOpen, SessionOpens
    <2>2. sreceived' \in [Sessions -> SUBSET PacketNumber]
      BY <1>5, <2>1 DEF SessionOpen, SessionOpens, TypeOK
    <2> QED
      BY <1>5, <2>2 DEF SessionOpen, TypeOK, clientVars
  <1>6. CASE UNCHANGED vars
    BY <1>6 DEF vars, clientVars, sessionVars, TypeOK
  <1> QED
    BY <1>1, <1>2, <1>3, <1>4, <1>5, <1>6, ClientTypes, ConfirmTypes
       DEF Next, ServerNext
-----------------------------------------------------------------------------
(* The parts of the invariant, from what a step may do.                    *)

Step ==
    /\ TypeOK /\ TypeOK' /\ Monotone /\ NewDatagram
    /\ \A c \in Clients : ClientMoves(c)
    /\ \A s \in Sessions : SessionMoves(s)

\* The step lemmas together.
LEMMA StepFacts ==
    ASSUME Inv, [Next]_vars
    PROVE  Step
  BY TypeStep, MonotoneStep, NewDatagramStep, ClientMovesStep, SessionMovesStep
     DEF Inv, Step

\* Used, after the step.
UsedAfter(s, pn) ==
    /\ owner'[s] \in Clients
    /\ peer'[owner'[s]] = s
    /\ pn < csendPN'[owner'[s]]

\* A number that was used stays used.
LEMMA UsedStable ==
    ASSUME Step, NEW s \in Sessions, NEW pn \in Nat, Used(s, pn)
    PROVE  /\ UsedAfter(s, pn)
           /\ owner'[s] = owner[s] /\ peer'[owner[s]] = s
  <1>1. owner[s] \in Clients /\ peer[owner[s]] = s /\ pn < csendPN[owner[s]]
    BY DEF Used
  <1>2. owner'[s] = owner[s] /\ peer'[owner[s]] = s
    BY <1>1, NamesAssumption DEF Step, Monotone
  <1>3. csendPN[owner[s]] \in Nat /\ csendPN'[owner[s]] >= csendPN[owner[s]]
    <2>1. csendPN[owner[s]] \in 0..rehandshakePacketNumber
      BY <1>1 DEF Step, TypeOK
    <2> QED
      BY <1>1, <2>1 DEF Step, Monotone
  <1>4. csendPN'[owner[s]] \in Nat
    BY <1>1 DEF Step, TypeOK
  <1> QED
    BY <1>1, <1>2, <1>3, <1>4 DEF UsedAfter

\* Owners.
LEMMA OwnersStep ==
    ASSUME Step, Owners
    PROVE  Owners'
  BY NamesAssumption DEF Step, Owners, SessionMoves

\* A datagram that names an owned session.
LEMMA HandshakesStep ==
    ASSUME Step, HandshakesOwned
    PROVE  HandshakesOwned'
  <1> SUFFICES ASSUME NEW m \in net', m.kind = "HANDSHAKE"
               PROVE  owner'[m.session] = m.client
    BY DEF HandshakesOwned
  <1>1. CASE m \in net
    <2>1. m.client \in Clients /\ m.session \in Sessions
      BY <1>1, DatagramTypes DEF Step
    <2>2. owner[m.session] # None
      BY <1>1, <2>1, NamesAssumption DEF HandshakesOwned
    <2> QED
      BY <1>1, <2>1, <2>2 DEF HandshakesOwned, Step, Monotone
  <1>2. CASE m \notin net
    BY <1>2, DatagramFields
       DEF Step, NewDatagram, NewHandshake, NewFromClient, NewFromSession
  <1> QED
    BY <1>1, <1>2

\* Peers.
LEMMA PeersStep ==
    ASSUME Step, Peers, HandshakesOwned
    PROVE  Peers'
  <1> SUFFICES ASSUME NEW c \in Clients
               PROVE  /\ peer'[c] # None => owner'[peer'[c]] = c
                      /\ cstate'[c] \in {"PendingConfirm", "PendingPong", "Established"} =>
                            peer'[c] # None
                      /\ cstate'[c] \in {"Idle", "InitialSent"} => peer'[c] = None
                      /\ cstate'[c] \in {"Idle", "InitialSent", "PendingConfirm"} =>
                            csendPN'[c] = 0
    BY DEF Peers
  <1>0. ClientMoves(c)
    BY DEF Step
  <1>1. CASE Finishes(c)
    <2>1. PICK m \in net : m.kind = "HANDSHAKE" /\ m.client = c /\ peer'[c] = m.session
      BY <1>1 DEF Finishes
    <2>2. m.session \in Sessions /\ owner[m.session] = c
      BY <2>1, DatagramTypes DEF Step, HandshakesOwned
    <2>3. owner'[m.session] = c
      BY <2>2, NamesAssumption DEF Step, Monotone
    <2>4. cstate'[c] = "PendingConfirm" /\ csendPN'[c] = 0
      BY <1>1 DEF Finishes, Peers
    <2> QED
      BY <2>1, <2>2, <2>3, <2>4, NamesAssumption
  <1>2. CASE ~Finishes(c)
    <2>1. peer'[c] = peer[c]
      BY <1>0, <1>2 DEF ClientMoves
    <2>2. peer[c] # None => owner'[peer[c]] = c
      <3> SUFFICES ASSUME peer[c] # None PROVE owner'[peer[c]] = c
        OBVIOUS
      <3>1. peer[c] \in Sessions /\ owner[peer[c]] = c
        BY DEF Step, TypeOK, Peers
      <3> QED
        BY <3>1, NamesAssumption DEF Step, Monotone
    <2>3. cstate'[c] \in {"PendingConfirm", "PendingPong", "Established"} =>
             cstate[c] \in {"PendingConfirm", "PendingPong", "Established"}
      BY <1>0, <1>2 DEF ClientMoves
    <2>4. cstate'[c] \in {"Idle", "InitialSent"} => cstate[c] \in {"Idle", "InitialSent"}
      BY <1>0 DEF ClientMoves
    <2>5. cstate'[c] \in {"Idle", "InitialSent", "PendingConfirm"} =>
            /\ csendPN'[c] = csendPN[c]
            /\ cstate[c] \in {"Idle", "InitialSent", "PendingConfirm"}
      BY <1>0, <1>2 DEF ClientMoves
    <2> QED
      BY <2>1, <2>2, <2>3, <2>4, <2>5 DEF Peers
  <1> QED
    BY <1>1, <1>2

\* A client that seals uses its number.
LEMMA NewNumberUsed ==
    ASSUME Step, Peers, NEW c \in Clients,
           cstate[c] \in {"PendingConfirm", "PendingPong", "Established"},
           csendPN'[c] = csendPN[c] + 1
    PROVE  /\ peer[c] \in Sessions /\ owner[peer[c]] = c
           /\ UsedAfter(peer[c], csendPN[c])
  <1>1. peer[c] \in Sessions /\ owner[peer[c]] = c
    BY DEF Step, TypeOK, Peers
  <1>2. owner'[peer[c]] = c /\ peer'[c] = peer[c]
    BY <1>1, NamesAssumption DEF Step, Monotone
  <1>3. csendPN[c] \in Nat
    BY DEF Step, TypeOK
  <1>4. csendPN[c] < csendPN'[c]
    BY <1>3
  <1> QED
    BY <1>1, <1>2, <1>4 DEF UsedAfter

\* What was sent was numbered by its sender.
LEMMA SentStep ==
    ASSUME Step, Peers, Promoted, Promoted', SentNumbers
    PROVE  SentNumbers'
  <1> SUFFICES ASSUME NEW m \in net', m.kind = "TRANSPORT"
               PROVE  /\ m.dir = "c2s" => UsedAfter(m.session, m.pn)
                      /\ m.dir = "s2c" => /\ m.pn < ssendPN'[m.session]
                                          /\ m.session \in promoted'
    BY DEF SentNumbers, Used, UsedAfter
  <1>1. CASE m \in net
    <2>1. m.session \in Sessions /\ m.pn \in Nat
      BY <1>1, DatagramTypes DEF Step, PacketNumber
    <2>2. CASE m.dir = "c2s"
      BY <1>1, <2>1, <2>2, UsedStable DEF SentNumbers
    <2>3. CASE m.dir = "s2c"
      <3>1. m.pn < ssendPN[m.session] /\ m.session \in promoted
        BY <1>1, <2>3 DEF SentNumbers
      <3>2. ssendPN[m.session] \in Nat
        BY <2>1 DEF Step, TypeOK
      <3>3. ssendPN'[m.session] \in {ssendPN[m.session], ssendPN[m.session] + 1}
        BY <2>1 DEF Step, Monotone
      <3>4. m.pn < ssendPN'[m.session]
        BY <2>1, <3>1, <3>2, <3>3
      <3> QED
        BY <2>3, <3>1, <3>4 DEF Step, Monotone
    <2> QED
      BY <2>2, <2>3
  <1>2. CASE NewFromClient(m)
    <2>1. PICK c \in Clients, frame \in {"CONFIRM", "DATA"},
               challenge \in Challenges \cup {None} :
            /\ m = Transport("c2s", peer[c], csendPN[c], frame, challenge)
            /\ cstate[c] \in {"PendingConfirm", "PendingPong", "Established"}
            /\ csendPN'[c] = csendPN[c] + 1
      BY <1>2 DEF NewFromClient
    <2>2. m.dir = "c2s" /\ m.session = peer[c] /\ m.pn = csendPN[c]
      BY <2>1, DatagramFields
    <2>3. UsedAfter(peer[c], csendPN[c])
      BY <2>1, NewNumberUsed
    <2> QED
      BY <2>2, <2>3
  <1>3. CASE NewFromSession(m)
    <2>1. PICK s \in Sessions, frame \in {"PONG", "DATA"},
               challenge \in Challenges \cup {None} :
            /\ m = Transport("s2c", s, ssendPN[s], frame, challenge)
            /\ ssendPN'[s] = ssendPN[s] + 1
            /\ sstate'[s] = "Established"
      BY <1>3 DEF NewFromSession
    <2>2. m.dir = "s2c" /\ m.session = s /\ m.pn = ssendPN[s]
      BY <2>1, DatagramFields
    <2>3. s \in promoted'
      BY <2>1 DEF Promoted
    <2>4. ssendPN[s] \in Nat
      BY DEF Step, TypeOK
    <2> QED
      BY <2>1, <2>2, <2>3, <2>4
  <1>4. CASE m \notin net /\ ~NewFromClient(m) /\ ~NewFromSession(m)
    BY <1>4, DatagramFields DEF Step, NewDatagram, NewHandshake
  <1> QED
    BY <1>1, <1>2, <1>3, <1>4

\* What a session opened was sent by its peer.
LEMMA FromPeerUsed ==
    ASSUME TypeOK, SentNumbers, NEW s \in Sessions, NEW m, FromPeer(s, m)
    PROVE  m \in net /\ m.pn \in Nat /\ Used(s, m.pn)
  <1>1. m \in net /\ m.pn \in Nat
    BY DatagramTypes DEF FromPeer, PacketNumber
  <1> QED
    BY <1>1 DEF FromPeer, SentNumbers

\* Numbers received.
LEMMA ReceivedStep ==
    ASSUME Step, SentNumbers, Received
    PROVE  Received'
  <1> SUFFICES ASSUME NEW s \in Sessions, NEW pn \in sreceived'[s]
               PROVE  UsedAfter(s, pn)
    BY DEF Received, Used, UsedAfter
  <1>1. Used(s, pn) /\ pn \in Nat
    <2>1. CASE pn \in sreceived[s]
      BY <2>1 DEF Received, Step, TypeOK, PacketNumber
    <2>2. ASSUME NEW m, FromPeer(s, m), m.pn = pn PROVE Used(s, pn) /\ pn \in Nat
      BY <2>2, FromPeerUsed DEF Step
    <2> QED
      BY <2>1, <2>2 DEF Step, SessionMoves
  <1> QED
    BY <1>1, UsedStable

\* Confirmed sessions.
LEMMA PromotedStep ==
    ASSUME Step, SentNumbers, Promoted
    PROVE  Promoted'
  <1> SUFFICES ASSUME NEW s \in Sessions
               PROVE  /\ sstate'[s] = "Established" => s \in promoted'
                      /\ s \in promoted' =>
                            /\ sstate'[s] \in {"Established", "Closed"}
                            /\ UsedAfter(s, 0)
    BY DEF Promoted, Used, UsedAfter
  <1>0. SessionMoves(s)
    BY DEF Step
  <1>1. ASSUME Confirmed(s)
        PROVE  /\ sstate'[s] = "Established" /\ s \in promoted' /\ UsedAfter(s, 0)
    <2>1. PICK m : FromPeer(s, m)
      BY <1>1 DEF Confirmed
    <2>2. Used(s, m.pn) /\ m.pn \in Nat
      BY <2>1, FromPeerUsed DEF Step
    <2>3. csendPN[owner[s]] \in Nat
      BY <2>2 DEF Used, Step, TypeOK
    <2>4. Used(s, 0)
      BY <2>2, <2>3 DEF Used
    <2> QED
      BY <1>1, <2>4, UsedStable DEF Confirmed
  <1>2. ASSUME s \in promoted
        PROVE  sstate'[s] \in {"Established", "Closed"} /\ UsedAfter(s, 0)
    BY <1>0, <1>2, UsedStable DEF Promoted, SessionMoves
  <1>3. ASSUME sstate[s] = "Established" PROVE s \in promoted'
    BY <1>3 DEF Promoted, Step, Monotone
  <1> QED
    BY <1>0, <1>1, <1>2, <1>3 DEF SessionMoves

\* Established clients.
LEMMA OpenedStep ==
    ASSUME Step, Peers, SentNumbers, Opened
    PROVE  Opened'
  <1> SUFFICES ASSUME NEW c \in Clients
               PROVE  /\ cstate'[c] = "Established" => c \in opened'
                      /\ c \in opened' =>
                            /\ cstate'[c] \in {"Established", "Closed"}
                            /\ peer'[c] \in promoted'
    BY DEF Opened
  <1>0. ClientMoves(c)
    BY DEF Step
  <1>1. cstate'[c] = "Established" => c \in opened'
    BY <1>0 DEF ClientMoves, Opened, Step, Monotone
  <1>2. ASSUME c \in opened
        PROVE  cstate'[c] \in {"Established", "Closed"} /\ peer'[c] \in promoted'
    <2>1. cstate[c] \in {"Established", "Closed"} /\ peer[c] \in promoted
      BY <1>2 DEF Opened
    <2>2. peer'[c] = peer[c]
      BY <1>0, <2>1 DEF ClientMoves, Finishes
    <2> QED
      BY <1>0, <2>1, <2>2 DEF ClientMoves, Step, Monotone
  <1>3. ASSUME c \in opened', c \notin opened
        PROVE  cstate'[c] \in {"Established", "Closed"} /\ peer'[c] \in promoted'
    <2>1. cstate[c] = "PendingPong" /\ cstate'[c] = "Established"
      BY <1>0, <1>3 DEF ClientMoves
    <2>2. PICK m \in net : /\ m.kind = "TRANSPORT"
                           /\ m.dir = "s2c" /\ m.session = peer[c]
      BY <1>0, <2>1 DEF ClientMoves
    <2>3. peer[c] \in promoted
      BY <2>2 DEF SentNumbers
    <2>4. peer'[c] = peer[c]
      BY <1>0, <2>1 DEF ClientMoves, Finishes
    <2> QED
      BY <2>1, <2>3, <2>4 DEF Step, Monotone
  <1> QED
    BY <1>1, <1>2, <1>3

\* Awaited, after the step.
AwaitedAfter(s, challenge) ==
    cstate'[owner'[s]] = "PendingPong" => pendingChallenge'[owner'[s]] = challenge

\* Once a client has sent a CONFIRM the challenge it waits for is fixed.
LEMMA AwaitedStable ==
    ASSUME Step, Peers, NEW s \in Sessions, NEW pn \in Nat, Used(s, pn),
           NEW challenge, Awaited(s, challenge)
    PROVE  AwaitedAfter(s, challenge)
  <1>1. owner[s] \in Clients /\ pn < csendPN[owner[s]] /\ owner'[s] = owner[s]
    BY UsedStable DEF Used
  <1>2. csendPN[owner[s]] # 0
    <2>1. csendPN[owner[s]] \in Nat
      BY <1>1 DEF Step, TypeOK
    <2> QED
      BY <1>1, <2>1
  <1>3. cstate[owner[s]] # "PendingConfirm"
    BY <1>1, <1>2 DEF Peers
  <1>4. ClientMoves(owner[s])
    BY <1>1 DEF Step
  <1> QED
    BY <1>1, <1>3, <1>4 DEF ClientMoves, Awaited, AwaitedAfter

\* Challenges.
LEMMA ChallengesStep ==
    ASSUME Step, Peers, SentNumbers, Promoted, ChallengesAgree
    PROVE  ChallengesAgree'
  <1>1. ASSUME NEW m \in net', m.kind = "TRANSPORT", m.dir = "c2s", m.frame = "CONFIRM"
        PROVE  AwaitedAfter(m.session, m.challenge)
    <2>1. CASE m \in net
      <3>1. m.session \in Sessions /\ FromPeer(m.session, m)
        BY <1>1, <2>1, DatagramTypes DEF Step, FromPeer
      <3>2. m.pn \in Nat /\ Used(m.session, m.pn)
        BY <3>1, FromPeerUsed DEF Step
      <3>3. Awaited(m.session, m.challenge)
        BY <1>1, <2>1 DEF ChallengesAgree
      <3> QED
        BY <3>1, <3>2, <3>3, AwaitedStable
    <2>2. CASE NewFromClient(m)
      <3>1. PICK c \in Clients, frame \in {"CONFIRM", "DATA"},
                 challenge \in Challenges \cup {None} :
              /\ m = Transport("c2s", peer[c], csendPN[c], frame, challenge)
              /\ cstate[c] \in {"PendingConfirm", "PendingPong", "Established"}
              /\ csendPN'[c] = csendPN[c] + 1
              /\ frame = "CONFIRM" => pendingChallenge'[c] = challenge
        BY <2>2 DEF NewFromClient
      <3>2. m.session = peer[c] /\ m.frame = frame /\ m.challenge = challenge
        BY <3>1, DatagramFields
      <3>3. peer[c] \in Sessions /\ owner[peer[c]] = c
        BY <3>1, NewNumberUsed
      <3>4. owner'[peer[c]] = c
        BY <3>3, NamesAssumption DEF Step, Monotone
      <3> QED
        BY <1>1, <3>1, <3>2, <3>4 DEF AwaitedAfter
    <2>3. CASE m \notin net /\ ~NewFromClient(m)
      BY <1>1, <2>3, DatagramFields DEF Step, NewDatagram, NewHandshake, NewFromSession
    <2> QED
      BY <2>1, <2>2, <2>3
  <1>2. ASSUME NEW s \in Sessions, sstate'[s] = "Established"
        PROVE  AwaitedAfter(s, confirmChallenge'[s])
    <2>1. CASE sstate[s] = "Established" /\ confirmChallenge'[s] = confirmChallenge[s]
      <3>1. Used(s, 0) /\ Awaited(s, confirmChallenge[s])
        BY <2>1 DEF Promoted, ChallengesAgree
      <3> QED
        BY <2>1, <3>1, AwaitedStable
    <2>2. CASE Confirmed(s)
      <3>1. PICK m : /\ FromPeer(s, m) /\ m.frame = "CONFIRM"
                     /\ confirmChallenge'[s] = m.challenge
        BY <2>2 DEF Confirmed
      <3>2. m.pn \in Nat /\ Used(s, m.pn)
        BY <3>1, FromPeerUsed DEF Step
      <3>3. Awaited(s, m.challenge)
        BY <3>1 DEF ChallengesAgree, FromPeer
      <3> QED
        BY <3>1, <3>2, <3>3, AwaitedStable
    <2> QED
      BY <1>2, <2>1, <2>2 DEF Step, SessionMoves
  <1> QED
    BY <1>1, <1>2 DEF ChallengesAgree, Awaited, AwaitedAfter

\* A new transport datagram has a number no datagram had before.
LEMMA NewNumberFresh ==
    ASSUME Step, Peers, SentNumbers, NEW m, NewFromClient(m) \/ NewFromSession(m),
           NEW n \in net, n.kind = "TRANSPORT"
    PROVE  ~SamePN(m, n) /\ ~SamePN(n, m)
  <1>1. CASE NewFromClient(m)
    <2>1. PICK c \in Clients, frame \in {"CONFIRM", "DATA"},
               challenge \in Challenges \cup {None} :
            /\ m = Transport("c2s", peer[c], csendPN[c], frame, challenge)
            /\ cstate[c] \in {"PendingConfirm", "PendingPong", "Established"}
            /\ csendPN'[c] = csendPN[c] + 1
      BY <1>1 DEF NewFromClient
    <2>2. m.dir = "c2s" /\ m.session = peer[c] /\ m.pn = csendPN[c]
      BY <2>1, DatagramFields
    <2>3. owner[peer[c]] = c /\ csendPN[c] \in Nat
      BY <2>1, NewNumberUsed DEF Step, TypeOK
    <2>4. ASSUME n.dir = "c2s", n.session = peer[c] PROVE n.pn < csendPN[c]
      BY <2>3, <2>4 DEF SentNumbers, Used
    <2>5. n.pn \in Nat
      BY DatagramTypes DEF Step, PacketNumber
    <2> QED
      BY <2>2, <2>3, <2>4, <2>5 DEF SamePN
  <1>2. CASE NewFromSession(m)
    <2>1. PICK s \in Sessions, frame \in {"PONG", "DATA"},
               challenge \in Challenges \cup {None} :
            m = Transport("s2c", s, ssendPN[s], frame, challenge)
      BY <1>2 DEF NewFromSession
    <2>2. m.dir = "s2c" /\ m.session = s /\ m.pn = ssendPN[s]
      BY <2>1, DatagramFields
    <2>3. ASSUME n.dir = "s2c", n.session = s PROVE n.pn < ssendPN[s]
      BY <2>3 DEF SentNumbers
    <2>4. n.pn \in Nat /\ ssendPN[s] \in Nat
      BY DatagramTypes DEF Step, PacketNumber, TypeOK
    <2> QED
      BY <2>2, <2>3, <2>4 DEF SamePN
  <1> QED
    BY <1>1, <1>2

\* Unique numbers.
LEMMA UniqueStep ==
    ASSUME Step, Peers, SentNumbers, Unique
    PROVE  Unique'
  <1> SUFFICES ASSUME NEW m \in net', NEW n \in net',
                      m.kind = "TRANSPORT", n.kind = "TRANSPORT", SamePN(m, n)
               PROVE  m = n
    BY DEF Unique, SamePN
  <1>1. CASE m \in net /\ n \in net
    BY <1>1 DEF Unique
  <1>2. CASE m \notin net \/ n \notin net
    <2>1. PICK d : /\ net' = net \cup {d}
                   /\ \/ \E c \in Clients : d = InitialOf(c)
                      \/ NewHandshake(d)
                      \/ NewFromClient(d)
                      \/ NewFromSession(d)
      BY <1>2 DEF Step, NewDatagram
    <2>2. d.kind = "TRANSPORT"
      BY <1>2, <2>1
    <2>3. NewFromClient(d) \/ NewFromSession(d)
      BY <2>1, <2>2, DatagramFields DEF NewHandshake
    <2>4. CASE m \in net
      BY <1>2, <2>1, <2>3, <2>4, NewNumberFresh
    <2>5. CASE n \in net
      BY <1>2, <2>1, <2>3, <2>5, NewNumberFresh
    <2>6. CASE m \notin net /\ n \notin net
      BY <2>1, <2>6
    <2> QED
      BY <2>4, <2>5, <2>6
  <1> QED
    BY <1>1, <1>2

\* Data only in confirmed sessions.
LEMMA DataStep ==
    ASSUME Step, Opened, Promoted', DataOnlyConfirmed
    PROVE  DataOnlyConfirmed'
  <1> SUFFICES ASSUME NEW m \in net', m.kind = "TRANSPORT", m.frame = "DATA"
               PROVE  m.session \in promoted'
    BY DEF DataOnlyConfirmed
  <1>1. CASE m \in net
    BY <1>1 DEF DataOnlyConfirmed, Step, Monotone
  <1>2. CASE NewFromClient(m)
    <2>1. PICK c \in Clients, frame \in {"CONFIRM", "DATA"},
               challenge \in Challenges \cup {None} :
            /\ m = Transport("c2s", peer[c], csendPN[c], frame, challenge)
            /\ frame = "DATA" => cstate[c] = "Established"
      BY <1>2 DEF NewFromClient
    <2>2. m.session = peer[c] /\ m.frame = frame
      BY <2>1, DatagramFields
    <2>3. peer[c] \in promoted
      BY <2>1, <2>2 DEF Opened
    <2> QED
      BY <2>2, <2>3 DEF Step, Monotone
  <1>3. CASE NewFromSession(m)
    <2>1. PICK s \in Sessions, frame \in {"PONG", "DATA"},
               challenge \in Challenges \cup {None} :
            /\ m = Transport("s2c", s, ssendPN[s], frame, challenge)
            /\ sstate'[s] = "Established"
      BY <1>3 DEF NewFromSession
    <2>2. m.session = s
      BY <2>1, DatagramFields
    <2> QED
      BY <2>1, <2>2 DEF Promoted
  <1>4. CASE m \notin net /\ ~NewFromClient(m) /\ ~NewFromSession(m)
    BY <1>4, DatagramFields DEF Step, NewDatagram, NewHandshake
  <1> QED
    BY <1>1, <1>2, <1>3, <1>4

-----------------------------------------------------------------------------
(* The theorems.                                                           *)

\* The invariant holds initially.
LEMMA InitInv ==
    ASSUME Init
    PROVE  Inv
  <1>1. TypeOK
    BY LimitAssumption DEF Init, TypeOK, ClientStates, SessionStates
  <1>2. Owners /\ HandshakesOwned /\ Peers
    BY DEF Init, Owners, HandshakesOwned, Peers
  <1>3. SentNumbers /\ Received /\ Promoted /\ Opened
    BY DEF Init, SentNumbers, Received, Promoted, Opened
  <1>4. ChallengesAgree /\ Unique /\ DataOnlyConfirmed
    BY DEF Init, ChallengesAgree, Unique, DataOnlyConfirmed
  <1> QED
    BY <1>1, <1>2, <1>3, <1>4 DEF Inv

\* Every step keeps the invariant.
LEMMA InvStep ==
    ASSUME Inv, [Next]_vars
    PROVE  Inv'
  <1>1. Step /\ TypeOK'
    BY StepFacts DEF Step
  <1>2. Owners' /\ HandshakesOwned' /\ Peers'
    BY <1>1, OwnersStep, HandshakesStep, PeersStep DEF Inv
  <1>3. Promoted'
    BY <1>1, PromotedStep DEF Inv
  <1>4. SentNumbers' /\ Received' /\ Opened'
    BY <1>1, <1>3, SentStep, ReceivedStep, OpenedStep DEF Inv
  <1>5. ChallengesAgree' /\ Unique'
    BY <1>1, ChallengesStep, UniqueStep DEF Inv
  <1>6. DataOnlyConfirmed'
    BY <1>1, <1>3, DataStep DEF Inv
  <1> QED
    BY <1>1, <1>2, <1>3, <1>4, <1>5, <1>6 DEF Inv

\* The invariant holds of every behaviour.
THEOREM Invariance == Spec => []Inv
  <1>1. Init => Inv
    BY InitInv
  <1>2. Inv /\ [Next]_vars => Inv'
    BY InvStep
  <1> QED
    BY <1>1, <1>2, PTL DEF Spec

\* No key is used twice with one packet number, whatever is lost, repeated,
\* retransmitted or answered again (client.go and server.go, sealLocked).
THEOREM NoncesAreUnique == Spec => []NoncesUnique
  <1>1. Inv => NoncesUnique
    BY DEF Inv, Unique, NoncesUnique
  <1> QED
    BY <1>1, Invariance, PTL

\* Data is sent, by either side, only in a session whose CONFIRM the server
\* accepted (client.go, HandlePong and Seal; server.go, HandleConfirm and Seal).
THEOREM DataIsConfirmed == Spec => []DataOnlyConfirmed
  <1>1. Inv => DataOnlyConfirmed
    BY DEF Inv
  <1> QED
    BY <1>1, Invariance, PTL

\* The retransmission of a CONFIRM is never refused as a replay, as too old or
\* for its challenge while its session is established (client.go,
\* RetransmitConfirm; server.go, HandleConfirm).
THEOREM RetransmissionsAnswerable == Spec => []RetransmissionAnswerable
  <1>1. Inv => RetransmissionAnswerable
    <2> SUFFICES ASSUME Inv, NEW c \in Clients, cstate[c] = "PendingPong",
                        sstate[peer[c]] = "Established"
                 PROVE  /\ confirmChallenge[peer[c]] = pendingChallenge[c]
                        /\ Fresh(sreceived[peer[c]], csendPN[c])
      BY DEF RetransmissionAnswerable
    <2>1. peer[c] \in Sessions /\ owner[peer[c]] = c
      BY DEF Inv, TypeOK, Peers
    <2>2. confirmChallenge[peer[c]] = pendingChallenge[c]
      BY <2>1 DEF Inv, ChallengesAgree, Awaited
    <2>3. \A pn \in sreceived[peer[c]] : pn < csendPN[c]
      BY <2>1 DEF Inv, Received, Used
    <2>4. sreceived[peer[c]] \subseteq Nat /\ csendPN[c] \in Nat
      BY <2>1 DEF Inv, TypeOK, PacketNumber
    <2>5. Fresh(sreceived[peer[c]], csendPN[c])
      BY <2>3, <2>4, LimitAssumption DEF Fresh
    <2> QED
      BY <2>2, <2>5
  <1> QED
    BY <1>1, Invariance, PTL
-----------------------------------------------------------------------------
(* The refinement.                                                         *)

\* The abstract state, now and after the step.
ConfirmedFor == [s \in Sessions |-> IF s \in promoted THEN owner[s] ELSE None]
EstablishedWith == [c \in Clients |-> IF c \in opened THEN peer[c] ELSE None]

\* Whom a confirmed session was established for, and with whom an established
\* client was, never changes.
LEMMA MappingStable ==
    ASSUME Inv, Step
    PROVE  /\ \A s \in promoted : owner'[s] = owner[s]
           /\ \A c \in opened : peer'[c] = peer[c]
           /\ promoted' = promoted => ConfirmedFor' = ConfirmedFor
           /\ opened' = opened => EstablishedWith' = EstablishedWith
  <1>1. ASSUME NEW s \in promoted PROVE owner'[s] = owner[s]
    <2>1. s \in Sessions /\ owner[s] \in Clients
      BY DEF Inv, TypeOK, Promoted, Used
    <2> QED
      BY <2>1, NamesAssumption DEF Step, Monotone
  <1>2. ASSUME NEW c \in opened PROVE peer'[c] = peer[c]
    <2>1. c \in Clients /\ peer[c] \in Sessions
      BY DEF Inv, TypeOK, Opened
    <2> QED
      BY <2>1, NamesAssumption DEF Step, Monotone
  <1> QED
    BY <1>1, <1>2 DEF ConfirmedFor, EstablishedWith

\* Accepting a CONFIRM establishes the session for its owner, who has no other
\* established session: both would be its peer.
LEMMA ServerStep ==
    ASSUME Inv, Step, NEW s \in Sessions, NEW m \in net, HandleConfirm(s, m),
           ConfirmFirst(s, m)
    PROVE  Agreement!ENext
  <1>1. FromPeer(s, m)
    BY DEF HandleConfirm, SessionOpens, FromPeer
  <1>2. owner[s] \in Clients /\ peer[owner[s]] = s
    BY <1>1, FromPeerUsed DEF Used, Inv
  <1>3. s \notin promoted
    BY DEF ConfirmFirst, Inv, Promoted
  <1>4. ConfirmedFor[s] = None
    BY <1>3 DEF ConfirmedFor
  <1>5. \A other \in Sessions : ConfirmedFor[other] # owner[s]
    <2> SUFFICES ASSUME NEW other \in Sessions, ConfirmedFor[other] = owner[s]
                 PROVE  FALSE
      OBVIOUS
    <2>1. other \in promoted /\ owner[other] = owner[s]
      BY <1>2, NamesAssumption DEF ConfirmedFor
    <2>2. peer[owner[other]] = other
      BY <2>1 DEF Inv, Promoted, Used
    <2> QED
      BY <1>2, <1>3, <2>1, <2>2
  <1>6. ConfirmedFor' = [ConfirmedFor EXCEPT ![s] = owner[s]]
    <2>1. promoted' = promoted \cup {s} /\ owner' = owner
      BY DEF ConfirmFirst
    <2> QED
      BY <2>1 DEF ConfirmedFor
  <1>7. EstablishedWith' = EstablishedWith
    BY DEF HandleConfirm, clientVars, EstablishedWith
  <1>8. PICK c \in Clients : c = owner[s]
    BY <1>2
  <1>9. Agreement!ServerEstablishes(s, c)
    BY <1>4, <1>5, <1>6, <1>7, <1>8
       DEF Agreement!ServerEstablishes, ConfirmedFor, EstablishedWith
  <1> QED
    BY <1>9 DEF Agreement!ENext

\* Accepting a PONG establishes the client with the session that was
\* established for it.
LEMMA ClientStep ==
    ASSUME Inv, Step, NEW c \in Clients, NEW m \in net, HandlePong(c, m),
           opened' = opened \cup {c}
    PROVE  Agreement!ENext
  <1>1. /\ cstate[c] = "PendingPong" /\ UNCHANGED <<peer, owner, promoted>>
        /\ m.kind = "TRANSPORT" /\ m.dir = "s2c" /\ m.session = peer[c]
    BY DEF HandlePong, ClientOpens, sessionVars
  <1>2. peer[c] \in promoted
    BY <1>1 DEF Inv, SentNumbers
  <1>3. peer[c] \in Sessions /\ owner[peer[c]] = c
    BY <1>1, <1>2, NamesAssumption DEF Inv, TypeOK, Peers
  <1>4. EstablishedWith[c] = None
    BY <1>1 DEF Inv, Opened, EstablishedWith
  <1>5. ConfirmedFor[peer[c]] = c
    BY <1>2, <1>3 DEF ConfirmedFor
  <1>6. EstablishedWith' = [EstablishedWith EXCEPT ![c] = peer[c]]
    BY <1>1 DEF EstablishedWith
  <1>7. ConfirmedFor' = ConfirmedFor
    BY <1>1 DEF ConfirmedFor
  <1>8. PICK s \in Sessions : s = peer[c]
    BY <1>3
  <1>9. Agreement!ClientEstablishes(c, s)
    BY <1>4, <1>5, <1>6, <1>7, <1>8
       DEF Agreement!ClientEstablishes, ConfirmedFor, EstablishedWith
  <1> QED
    BY <1>9 DEF Agreement!ENext

\* Every step is a step of Establishment or leaves its state alone.
LEMMA StepRefines ==
    ASSUME Inv, [Next]_vars
    PROVE  Agreement!ENext \/ UNCHANGED <<ConfirmedFor, EstablishedWith>>
  <1>1. Step
    BY StepFacts
  <1>2. ASSUME UNCHANGED <<promoted, opened>>
        PROVE  UNCHANGED <<ConfirmedFor, EstablishedWith>>
    BY <1>1, <1>2, MappingStable
  <1>3. ASSUME NEW c \in Clients, ClientNext(c)
        PROVE  Agreement!ENext \/ UNCHANGED <<promoted, opened>>
    <2>1. ASSUME NEW m \in net, HandlePong(c, m)
          PROVE  Agreement!ENext \/ UNCHANGED <<promoted, opened>>
      BY <1>1, <2>1, ClientStep DEF HandlePong
    <2> QED
      BY <1>3, <2>1 DEF ClientNext, Start, FinishRejects, BuildConfirm,
             RetransmitConfirm, ClientSealData, ClientAtLimit, ClientClose, Finish,
             ClientOpen
  <1>4. ASSUME ServerNext
        PROVE  Agreement!ENext \/ UNCHANGED <<promoted, opened>>
    <2>1. ASSUME NEW s \in Sessions, NEW m \in net, HandleConfirm(s, m)
          PROVE  Agreement!ENext \/ UNCHANGED <<promoted, opened>>
      BY <1>1, <2>1, ServerStep
         DEF HandleConfirm, ConfirmExpired, ConfirmAgain, ConfirmRefused
    <2> QED
      BY <1>4, <2>1 DEF ServerNext, HandleInitial, ExpireAttempt, ForgetAttempt,
             SessionSealData, SessionClose, SessionOpen
  <1>5. CASE UNCHANGED vars
    BY <1>2, <1>5 DEF vars
  <1> QED
    BY <1>2, <1>3, <1>4, <1>5 DEF Next

\* The handshake implements Establishment: each INITIAL gets at most one
\* established session, even when its attempt is forgotten and it is delivered
\* again, and a client is established only with the session that was
\* established for it (client.go, Finish and HandlePong; server.go,
\* HandleInitial and HandleConfirm).
THEOREM Refinement == Spec => RefinesEstablishment
  <1>1. Init => Agreement!EInit
    BY DEF Init, Agreement!EInit
  <1>2. Inv /\ [Next]_vars =>
          [Agreement!ENext]_<<ConfirmedFor, EstablishedWith>>
    BY StepRefines
  <1> QED
    BY <1>1, <1>2, Invariance, PTL
       DEF Spec, RefinesEstablishment, Agreement!ESpec, ConfirmedFor, EstablishedWith
=============================================================================
