---------------------------- MODULE Wire_proofs -----------------------------
(***************************************************************************)
(* The negotiation of parameters, for every size of the integers, every    *)
(* overhead, minimum and default; the delays of retransmissions, for every *)
(* policy and every number of retries; and the encodings of payloads,      *)
(* datagrams and relay requests, for every stream and every value.         *)
(***************************************************************************)
EXTENDS MCWire, SequenceTheorems, FiniteSetTheorems, WellFoundedInduction, TLAPS

-----------------------------------------------------------------------------
(* Negotiation.                                                            *)

\* What normalisation leaves of a configuration.
ClientOptionsOK ==
    client # None =>
        /\ server # None
        /\ client.addressFamilies \subseteq Families
        /\ client.addressFamilies # {}
        /\ client.wireSize \in Nat
        /\ client.maxDatagramSize \in Uint16
        /\ client.maxDatagramSize >= Overhead + MinimumMTU
ServerOptionsOK ==
    server # None =>
        /\ server.maxDatagramSize \in Uint16
        /\ server.maxDatagramSize >= Overhead + MinimumMTU
        /\ server.tunnelMTU \in Uint16
        /\ MinimumMTU <= server.tunnelMTU
        /\ server.tunnelMTU <= server.maxDatagramSize - Overhead
        /\ server.leaseSeconds # 0
        /\ server.wireSize \in Nat

\* A request of the client asks for the client's own options.
RequestOK ==
    request # None =>
        /\ server # None
        /\ request.maxDatagramSize \in Uint16
        /\ request.own =>
              /\ client # None
              /\ request.identity
              /\ request.wireSize = client.wireSize
              /\ request.addressFamilies = client.addressFamilies
              /\ request.maxDatagramSize = client.maxDatagramSize
AnswerOK ==
    answer # None =>
        /\ request # None
        /\ answer.maxDatagramSize \in Uint16
        /\ answer.tunnelMTU \in Uint16
        /\ answer.leaseSeconds # 0
OutcomeOK == outcome # None => request # None

IndInv ==
    /\ ClientOptionsOK /\ ServerOptionsOK /\ RequestOK /\ AnswerOK /\ OutcomeOK
    /\ AnswerSound /\ RejectedOnlyLocally /\ RefusedOnlyForFamiliesOrSize

\* A subtraction of uint16 values that does not go below zero is exact.
LEMMA MinusExact ==
    ASSUME NEW a \in Uint16, NEW b \in Nat, b <= a
    PROVE  Minus(a, b) = a - b /\ Minus(a, b) \in Uint16
  BY SizeAssumption DEF Minus, Uint16

\* minUint16 returns one of its arguments and exceeds neither.
LEMMA MinUint16Exact ==
    ASSUME NEW a \in Uint16, NEW b \in Uint16
    PROVE  /\ minUint16(a, b) \in {a, b}
           /\ minUint16(a, b) <= a /\ minUint16(a, b) <= b
  BY SizeAssumption DEF minUint16, Uint16

\* NewClient: normalizeClientConfig leaves a client with options.
LEMMA NewClientInv == IndInv /\ NewClient => IndInv'
  <1> SUFFICES ASSUME IndInv, NewClient PROVE IndInv'
    OBVIOUS
  <1> PICK config \in ClientConfigs :
        /\ ValidClientOptions(normalizeClientConfig(config))
        /\ client' = normalizeClientConfig(config)
    BY DEF NewClient
  <1>1. ClientOptionsOK'
    <2>1. server' # None
      BY DEF NewClient
    <2>2. /\ client'.addressFamilies \subseteq Families
          /\ client'.addressFamilies # {}
      BY DEF ValidClientOptions, normalizeClientConfig, ClientConfigs, Families
    <2>3. /\ client'.maxDatagramSize \in Uint16
          /\ client'.maxDatagramSize >= Overhead + MinimumMTU
      BY SizeAssumption
         DEF ValidClientOptions, normalizeClientConfig, ClientConfigs, OrDefault, Uint16
    <2>4. client'.wireSize \in Nat
      BY WireAssumption DEF normalizeClientConfig, ClientConfigs
    <2> QED
      BY <2>1, <2>2, <2>3, <2>4 DEF ClientOptionsOK
  <1>2. request = None /\ answer = None /\ UNCHANGED <<server, request, answer, outcome>>
    BY DEF NewClient, IndInv, AnswerOK
  <1>3. outcome = None
    BY <1>2 DEF IndInv, OutcomeOK
  <1>4. ServerOptionsOK' /\ RequestOK' /\ AnswerOK' /\ OutcomeOK'
    BY <1>2, <1>3 DEF IndInv, ServerOptionsOK, RequestOK, AnswerOK, OutcomeOK
  <1>5. AnswerSound' /\ RejectedOnlyLocally' /\ RefusedOnlyForFamiliesOrSize'
    BY <1>2, <1>3, NoneAssumption
       DEF AnswerSound, RejectedOnlyLocally, RefusedOnlyForFamiliesOrSize
  <1> QED
    BY <1>1, <1>4, <1>5 DEF IndInv

\* NewServer: normalizeServerConfig leaves a server with options.
LEMMA NewServerInv == IndInv /\ NewServer => IndInv'
  <1> SUFFICES ASSUME IndInv, NewServer PROVE IndInv'
    OBVIOUS
  <1> PICK config \in ServerConfigs :
        /\ ValidServerOptions(normalizeServerConfig(config))
        /\ server' = normalizeServerConfig(config)
    BY DEF NewServer
  <1> DEFINE size == OrDefault(config.maxDatagramSize, DefaultSize)
  <1>1. size \in Uint16 /\ server'.maxDatagramSize = size /\ size >= Overhead + MinimumMTU
    BY SizeAssumption
       DEF ValidServerOptions, normalizeServerConfig, ServerConfigs, OrDefault, Uint16
  <1>2. Minus(size, Overhead) = size - Overhead /\ Minus(size, Overhead) \in Uint16
    <2>1. Overhead \in Nat /\ Overhead <= size
      BY <1>1, SizeAssumption DEF Uint16
    <2> QED
      BY <1>1, <2>1, MinusExact
  <1> HIDE DEF size
  <1>3. /\ server'.tunnelMTU \in Uint16 /\ MinimumMTU <= server'.tunnelMTU
        /\ server'.tunnelMTU <= Minus(size, Overhead)
    BY <1>1, <1>2
       DEF ValidServerOptions, normalizeServerConfig, ServerConfigs, OrDefault, size
  <1>4. server'.leaseSeconds # 0 /\ server'.wireSize \in Nat
    BY LeaseAssumption, WireAssumption DEF normalizeServerConfig, ServerConfigs, OrDefault
  <1>5. ServerOptionsOK'
    BY <1>1, <1>2, <1>3, <1>4 DEF ServerOptionsOK
  <1>6. /\ client = None /\ request = None /\ answer = None
        /\ UNCHANGED <<client, request, answer, outcome>>
    BY DEF NewServer, IndInv, ClientOptionsOK, RequestOK, AnswerOK
  <1>7. outcome = None
    BY <1>6 DEF IndInv, OutcomeOK
  <1>8. ClientOptionsOK' /\ RequestOK' /\ AnswerOK' /\ OutcomeOK'
    BY <1>6, <1>7 DEF IndInv, ClientOptionsOK, RequestOK, AnswerOK, OutcomeOK
  <1>9. AnswerSound' /\ RejectedOnlyLocally' /\ RefusedOnlyForFamiliesOrSize'
    BY <1>6, <1>7, NoneAssumption
       DEF AnswerSound, RejectedOnlyLocally, RefusedOnlyForFamiliesOrSize
  <1> QED
    BY <1>5, <1>8, <1>9 DEF IndInv

\* Start and ForeignInitial: a request appears where nothing was decided.
LEMMA RequestInv == IndInv /\ (Start \/ ForeignInitial) => IndInv'
  <1> SUFFICES ASSUME IndInv, Start \/ ForeignInitial PROVE IndInv'
    OBVIOUS
  <1>1. answer = None /\ outcome = None /\ UNCHANGED <<client, server, answer, outcome>>
    BY DEF Start, ForeignInitial, IndInv, AnswerOK, OutcomeOK
  <1>2. RequestOK'
    <2>1. CASE Start
      BY <1>1, <2>1 DEF Start, IndInv, ClientOptionsOK, RequestOK
    <2>2. CASE ForeignInitial
      BY <1>1, <2>2 DEF ForeignInitial, ForeignRequests, RequestOK
    <2> QED
      BY <2>1, <2>2
  <1>3. ClientOptionsOK' /\ ServerOptionsOK' /\ AnswerOK' /\ OutcomeOK'
    BY <1>1 DEF IndInv, ClientOptionsOK, ServerOptionsOK, AnswerOK, OutcomeOK
  <1>4. AnswerSound' /\ RejectedOnlyLocally' /\ RefusedOnlyForFamiliesOrSize'
    BY <1>1, NoneAssumption
       DEF AnswerSound, RejectedOnlyLocally, RefusedOnlyForFamiliesOrSize
  <1> QED
    BY <1>2, <1>3, <1>4 DEF IndInv

\* What the server selects: the datagram size both sides allow, and a tunnel
\* MTU that fits into it.
LEMMA Selection ==
    ASSUME IndInv, request # None, request.maxDatagramSize >= Overhead
    PROVE  /\ SelectedMaxDatagram \in {request.maxDatagramSize, server.maxDatagramSize}
           /\ SelectedMaxDatagram \in Uint16
           /\ SelectedMaxDatagram <= request.maxDatagramSize
           /\ SelectedMaxDatagram <= server.maxDatagramSize
           /\ SelectedTunnelMTU \in {server.tunnelMTU, SelectedMaxDatagram - Overhead}
           /\ SelectedTunnelMTU \in Uint16
           /\ SelectedTunnelMTU + Overhead <= SelectedMaxDatagram
  <1>1. /\ request.maxDatagramSize \in Uint16 /\ server.maxDatagramSize \in Uint16
        /\ server.maxDatagramSize >= Overhead /\ server.tunnelMTU \in Uint16
    BY SizeAssumption DEF IndInv, RequestOK, ServerOptionsOK, Uint16
  <1>2. /\ SelectedMaxDatagram \in {request.maxDatagramSize, server.maxDatagramSize}
        /\ SelectedMaxDatagram <= request.maxDatagramSize
        /\ SelectedMaxDatagram <= server.maxDatagramSize
    BY <1>1, MinUint16Exact DEF SelectedMaxDatagram
  <1>3. SelectedMaxDatagram \in Uint16 /\ SelectedMaxDatagram >= Overhead
    BY <1>1, <1>2
  <1>4. /\ Minus(SelectedMaxDatagram, Overhead) = SelectedMaxDatagram - Overhead
        /\ Minus(SelectedMaxDatagram, Overhead) \in Uint16
    <2>1. Overhead \in Nat /\ Overhead <= SelectedMaxDatagram
      BY <1>3, SizeAssumption DEF Uint16
    <2> QED
      BY <1>3, <2>1, MinusExact
  <1>5. /\ SelectedTunnelMTU \in {server.tunnelMTU, Minus(SelectedMaxDatagram, Overhead)}
        /\ SelectedTunnelMTU <= Minus(SelectedMaxDatagram, Overhead)
    BY <1>1, <1>4, MinUint16Exact DEF SelectedTunnelMTU
  <1>6. SelectedTunnelMTU \in Uint16
    BY <1>1, <1>4, <1>5
  <1>7. SelectedTunnelMTU + Overhead <= SelectedMaxDatagram
    BY <1>3, <1>4, <1>5, <1>6, SizeAssumption DEF Uint16
  <1> QED
    BY <1>2, <1>3, <1>4, <1>5, <1>6, <1>7

\* HandleInitial: the answer is what was selected.
LEMMA HandleInitialInv == IndInv /\ HandleInitial => IndInv'
  <1> SUFFICES ASSUME IndInv, HandleInitial PROVE IndInv'
    OBVIOUS
  <1>1. /\ request # None /\ outcome = None /\ server # None
        /\ UNCHANGED <<client, server, request, outcome>>
    BY DEF HandleInitial, IndInv, RequestOK
  <1>2. /\ request.maxDatagramSize >= Overhead /\ SelectedFamilies # {}
        /\ SelectedTunnelMTU >= MinimumMTU
    BY DEF HandleInitial, Answers, validateInitialFields
  <1>3. /\ answer'.addressFamilies = SelectedFamilies
        /\ answer'.maxDatagramSize = SelectedMaxDatagram
        /\ answer'.tunnelMTU = SelectedTunnelMTU
        /\ answer'.leaseSeconds = server.leaseSeconds
        /\ answer'.leases = SelectedFamilies \cap server.leases
    BY DEF HandleInitial, handshakeFields
  <1>4. AnswerOK'
    BY <1>1, <1>2, <1>3, Selection DEF IndInv, AnswerOK, ServerOptionsOK
  <1>5. answer'.leases = answer'.addressFamilies
    BY <1>3 DEF SelectedFamilies
  <1>6. answer'.addressFamilies \subseteq request.addressFamilies
    BY <1>3 DEF SelectedFamilies
  <1>7. MinimumMTU <= SelectedTunnelMTU
    BY <1>1, <1>2, Selection, SizeAssumption DEF Uint16
  <1>8. AnswerSound'
    BY <1>1, <1>2, <1>3, <1>5, <1>6, <1>7, Selection DEF AnswerSound
  <1>9. ClientOptionsOK' /\ ServerOptionsOK' /\ RequestOK' /\ OutcomeOK'
    BY <1>1 DEF IndInv, ClientOptionsOK, ServerOptionsOK, RequestOK, OutcomeOK
  <1>10. RejectedOnlyLocally' /\ RefusedOnlyForFamiliesOrSize'
    BY <1>1, NoneAssumption DEF RejectedOnlyLocally, RefusedOnlyForFamiliesOrSize
  <1> QED
    BY <1>4, <1>8, <1>9, <1>10 DEF IndInv

\* HandleInitialFails: for a request of the client every check but the
\* families and the sizes on the wire succeeds.
LEMMA HandleInitialFailsInv == IndInv /\ HandleInitialFails => IndInv'
  <1> SUFFICES ASSUME IndInv, HandleInitialFails PROVE IndInv'
    OBVIOUS
  <1>1. /\ request # None /\ answer = None /\ outcome' = "refused" /\ ~Answers
        /\ UNCHANGED <<client, server, request, answer>>
    BY DEF HandleInitialFails
  <1>2. ASSUME request.own,
               client.wireSize <= server.maxDatagramSize,
               server.wireSize <= SelectedMaxDatagram
        PROVE  client.addressFamilies \cap server.addressFamilies \cap server.leases = {}
    <2>1. /\ client # None /\ server # None /\ request.identity
          /\ request.wireSize = client.wireSize
          /\ request.addressFamilies = client.addressFamilies
          /\ request.maxDatagramSize = client.maxDatagramSize
      BY <1>1, <1>2 DEF IndInv, RequestOK
    <2>2. /\ client.addressFamilies \subseteq Families /\ client.addressFamilies # {}
          /\ client.maxDatagramSize \in Uint16 /\ server.maxDatagramSize \in Uint16
          /\ client.maxDatagramSize >= Overhead + MinimumMTU
          /\ server.maxDatagramSize >= Overhead + MinimumMTU
          /\ server.tunnelMTU \in Uint16 /\ MinimumMTU <= server.tunnelMTU
      BY <2>1 DEF IndInv, ClientOptionsOK, ServerOptionsOK
    <2>3. request.maxDatagramSize >= Overhead
      BY <2>1, <2>2, SizeAssumption DEF Uint16
    <2>4. validateInitialFields
      BY <2>1, <2>2, <2>3 DEF validateInitialFields
    <2>5. SelectedTunnelMTU >= MinimumMTU
      BY <1>1, <2>1, <2>2, <2>3, Selection, SizeAssumption DEF Uint16
    <2>6. SelectedFamilies = {}
      BY <1>1, <1>2, <2>1, <2>4, <2>5 DEF Answers
    <2> QED
      BY <2>1, <2>6 DEF SelectedFamilies
  <1>3. ASSUME request.own PROVE client.wireSize \in Nat /\ server.wireSize \in Nat
    BY <1>1, <1>3 DEF IndInv, RequestOK, ClientOptionsOK, ServerOptionsOK
  <1>4. ASSUME request.own
        PROVE  /\ server.maxDatagramSize \in Nat
               /\ SelectedMaxDatagram \in Nat
    <2>1. request.maxDatagramSize >= Overhead
      BY <1>1, <1>4, SizeAssumption DEF IndInv, RequestOK, ClientOptionsOK, Uint16
    <2> QED
      BY <1>1, <2>1, Selection, SizeAssumption
         DEF IndInv, RequestOK, ServerOptionsOK, Uint16
  <1>5. ASSUME request.own
        PROVE  \/ client.addressFamilies \cap server.addressFamilies \cap server.leases = {}
               \/ client.wireSize > server.maxDatagramSize
               \/ server.wireSize > SelectedMaxDatagram
    BY <1>2, <1>3, <1>4, <1>5
  <1>6. SelectedMaxDatagram' = SelectedMaxDatagram
    BY <1>1 DEF SelectedMaxDatagram, minUint16
  <1>7. RefusedOnlyForFamiliesOrSize'
    BY <1>1, <1>5, <1>6 DEF RefusedOnlyForFamiliesOrSize
  <1>8. RejectedOnlyLocally' /\ AnswerSound' /\ AnswerOK' /\ OutcomeOK'
    BY <1>1 DEF RejectedOnlyLocally, AnswerSound, AnswerOK, OutcomeOK
  <1>9. ClientOptionsOK' /\ ServerOptionsOK' /\ RequestOK'
    BY <1>1 DEF IndInv, ClientOptionsOK, ServerOptionsOK, RequestOK
  <1> QED
    BY <1>7, <1>8, <1>9 DEF IndInv

\* Finish: every field of an answer to the client's own request is acceptable
\* but for the local MTU interval and the addresses of the leases.
LEMMA FinishInv == IndInv /\ Finish => IndInv'
  <1> SUFFICES ASSUME IndInv, Finish PROVE IndInv'
    OBVIOUS
  <1>1. /\ request # None /\ request.own /\ answer # None
        /\ outcome' = IF validateHandshakeFields THEN "negotiated" ELSE "rejected"
        /\ UNCHANGED <<client, server, request, answer>>
    BY DEF Finish
  <1>2. /\ client # None /\ server # None
        /\ request.addressFamilies = client.addressFamilies
        /\ request.maxDatagramSize = client.maxDatagramSize
    BY <1>1 DEF IndInv, RequestOK
  <1>3. /\ answer.maxDatagramSize \in Uint16 /\ answer.tunnelMTU \in Uint16
        /\ answer.leaseSeconds # 0
        /\ answer.addressFamilies # {}
        /\ answer.addressFamilies \subseteq client.addressFamilies
        /\ answer.leases = answer.addressFamilies
        /\ answer.maxDatagramSize <= client.maxDatagramSize
        /\ answer.tunnelMTU + Overhead <= answer.maxDatagramSize
    BY <1>1, <1>2 DEF IndInv, AnswerOK, AnswerSound
  <1>4. /\ Overhead <= answer.maxDatagramSize
        /\ answer.tunnelMTU <= answer.maxDatagramSize - Overhead
    BY <1>3, SizeAssumption DEF Uint16
  <1>5. Minus(answer.maxDatagramSize, Overhead) = answer.maxDatagramSize - Overhead
    BY <1>3, <1>4, MinusExact, SizeAssumption
  <1>6. MTUInInterval /\ answer.leases \subseteq answer.unicast => validateHandshakeFields
    BY <1>3, <1>4, <1>5 DEF validateHandshakeFields
  <1>7. MTUInInterval' = MTUInInterval
    BY <1>1 DEF MTUInInterval
  <1>8. RejectedOnlyLocally'
    BY <1>1, <1>6, <1>7 DEF RejectedOnlyLocally
  <1>9. RefusedOnlyForFamiliesOrSize'
    BY <1>1 DEF RefusedOnlyForFamiliesOrSize
  <1>10. AnswerSound'
    BY <1>1 DEF IndInv, AnswerSound
  <1>11. ClientOptionsOK' /\ ServerOptionsOK' /\ RequestOK' /\ AnswerOK' /\ OutcomeOK'
    BY <1>1 DEF IndInv, ClientOptionsOK, ServerOptionsOK, RequestOK, AnswerOK, OutcomeOK
  <1> QED
    BY <1>8, <1>9, <1>10, <1>11 DEF IndInv

\* A stuttering step changes nothing.
LEMMA StutterInv == IndInv /\ UNCHANGED vars => IndInv'
  BY DEF vars, IndInv, ClientOptionsOK, ServerOptionsOK, RequestOK, AnswerOK, OutcomeOK,
         AnswerSound, RejectedOnlyLocally, RefusedOnlyForFamiliesOrSize, MTUInInterval,
         SelectedMaxDatagram, minUint16

\* The inductive invariant of the negotiation.
LEMMA Inductive == Spec => []IndInv
  <1>1. Init => IndInv
    BY NoneAssumption
       DEF Init, IndInv, ClientOptionsOK, ServerOptionsOK, RequestOK, AnswerOK, OutcomeOK,
           AnswerSound, RejectedOnlyLocally, RefusedOnlyForFamiliesOrSize
  <1>2. IndInv /\ [Next]_vars => IndInv'
    BY NewServerInv, NewClientInv, RequestInv, HandleInitialInv, HandleInitialFailsInv,
       FinishInv, StutterInv DEF Next
  <1> QED
    BY <1>1, <1>2, PTL DEF Spec

\* HandleInitial never answers with parameters that do not hold together,
\* whatever a peer asks for and whatever the widths and defaults are.
THEOREM AnswersSound == Spec => []AnswerSound
  <1>1. IndInv => AnswerSound
    BY DEF IndInv
  <1> QED
    BY <1>1, Inductive, PTL

\* Finish rejects an answer of this implementation's server only for the
\* client's MTU interval or the addresses of the leases.
THEOREM RejectionsLocal == Spec => []RejectedOnlyLocally
  <1>1. IndInv => RejectedOnlyLocally
    BY DEF IndInv
  <1> QED
    BY <1>1, Inductive, PTL

\* HandleInitial refuses an INITIAL of this implementation's client only for
\* the address families or the size of a whole datagram.
THEOREM RefusalsJustified == Spec => []RefusedOnlyForFamiliesOrSize
  <1>1. IndInv => RefusedOnlyForFamiliesOrSize
    BY DEF IndInv
  <1> QED
    BY <1>1, Inductive, PTL

-----------------------------------------------------------------------------
(* Retransmission delays.                                                  *)

\* The least counterexample.
LEMMA Least ==
    ASSUME NEW T, T \subseteq Nat, T # {}
    PROVE  \E n \in T : \A m \in T : n <= m
    <1>1. PICK n \in T : \A m \in T : ~(<<m, n>> \in OpToRel(<, Nat))
          BY NatLessThanWellFounded, WFMin
    <1>2. ASSUME NEW m \in T PROVE n <= m
       <2>1. <<m, n>> \notin {ss \in Nat \X Nat : ss[1] < ss[2]} BY <1>1 DEF OpToRel
       <2>2. m \in Nat /\ n \in Nat OBVIOUS
       <2> QED BY <2>1, <2>2
    <1> QED BY <1>2

\* The exact delays, as Exact computes them.
Doubles(f, base, n) == f = [step \in 0..n |-> IF step = 0 THEN base ELSE 2 * f[step - 1]]

\* There is such a sequence of delays for any number of retries.
LEMMA DoublesExists ==
    ASSUME NEW base, NEW retry \in Nat
    PROVE  \E f : Doubles(f, base, retry)
    <1> DEFINE T == {n \in Nat : ~ \E f : Doubles(f, base, n)}
    <1>1. SUFFICES ASSUME T # {} PROVE FALSE OBVIOUS
    <1>2. PICK n \in T : \A m \in T : n <= m BY <1>1, Least
    <1>3. CASE n = 0
       <2>1. Doubles([step \in 0..0 |-> base], base, 0) BY DEF Doubles
       <2> QED BY <1>3, <2>1
    <1>4. CASE n # 0
       <2>1. n - 1 \in Nat /\ n - 1 \notin T BY <1>2, <1>4
       <2>2. PICK f : Doubles(f, base, n - 1) BY <2>1
       <2> DEFINE g == [step \in 0..n |-> IF step = n THEN 2 * f[n - 1] ELSE f[step]]
       <2>3. g = [step \in 0..n |-> IF step = 0 THEN base ELSE 2 * g[step - 1]]
          <3>1. ASSUME NEW step \in 0..n
                PROVE  g[step] = IF step = 0 THEN base ELSE 2 * g[step - 1]
             <4>1. CASE step = n
                <5>1. n - 1 \in 0..n /\ n - 1 # n BY <1>4
                <5> QED BY <1>4, <4>1, <5>1
             <4>2. CASE step # n
                <5>1. step \in 0..(n - 1) BY <4>2
                <5>2. f[step] = IF step = 0 THEN base ELSE 2 * f[step - 1] BY <2>2, <5>1 DEF Doubles
                <5>3. step # 0 => step - 1 \in 0..n /\ step - 1 # n BY <5>1
                <5> QED BY <4>2, <5>2, <5>3
             <4> QED BY <4>1, <4>2
          <3> QED BY <3>1
       <2>4. Doubles(g, base, n) BY <2>3 DEF Doubles
       <2> QED BY <2>4
    <1> QED BY <1>3, <1>4

\* What the exact delays are.
LEMMA ExactFacts ==
    ASSUME NEW base \in Nat \ {0}, NEW retry \in Nat
    PROVE  \E f \in [0..retry -> Nat \ {0}] :
             /\ f[0] = base /\ \A step \in 1..retry : f[step] = 2 * f[step - 1]
             /\ Exact(base, retry) = f[retry]
    <1> DEFINE f == CHOOSE g : Doubles(g, base, retry)
    <1>1. Doubles(f, base, retry) BY DoublesExists
    <1>2. Exact(base, retry) = f[retry] BY DEF Exact, Doubles
    <1> HIDE DEF f
    <1>3. f = [step \in 0..retry |-> IF step = 0 THEN base ELSE 2 * f[step - 1]]
          BY <1>1 DEF Doubles
    <1>4. f[0] = base /\ \A step \in 1..retry : f[step] = 2 * f[step - 1] BY <1>3
    <1>5. ASSUME NEW step \in 0..retry PROVE f[step] \in Nat \ {0}
       <2> DEFINE T == {n \in Nat : n <= retry /\ f[n] \notin Nat \ {0}}
       <2>1. SUFFICES ASSUME T # {} PROVE FALSE OBVIOUS
       <2>2. PICK n \in T : \A m \in T : n <= m BY <2>1, Least
       <2>3. CASE n = 0 BY <1>4, <2>3
       <2>4. CASE n # 0
          <3>1. n - 1 \in Nat /\ n - 1 \notin T /\ n \in 1..retry BY <2>2, <2>4
          <3>2. f[n - 1] \in Nat \ {0} BY <3>1
          <3>3. f[n] = 2 * f[n - 1] BY <1>4, <3>1
          <3> QED BY <3>2, <3>3
       <2> QED BY <2>3, <2>4
    <1>6. f \in [0..retry -> Nat \ {0}] BY <1>3, <1>5
    <1> QED BY <1>2, <1>4, <1>6

\* The delays as the loop of boundedBackoff computes them.
Loops(f, base, n, maximum) ==
    f = [step \in 0..n |->
            IF step = 0 THEN base
            ELSE IF f[step - 1] = -1 \/ TooLong(f[step - 1], maximum) THEN -1
            ELSE Doubled(f[step - 1])]

\* One iteration of the loop.
LEMMA DoubleOnce ==
    ASSUME NEW delay \in Nat \ {0}, NEW maximum \in 1..MaxInt
    PROVE  /\ TooLong(delay, maximum) <=> 2 * delay > maximum
           /\ 2 * delay <= maximum => Doubled(delay) = 2 * delay
    BY MaxIntAssumption DEF TooLong, Doubled

\* For every policy that Validate accepts and every number of retries, however
\* large, boundedBackoff is exact up to the maximum and never wraps around.
THEOREM BackoffIsExact ==
    ASSUME NEW policy \in Policies, NEW retry \in Nat
    PROVE  Saturates(policy[1], retry, policy[2])
    <1>0. PICK base \in Nat \ {0}, maximum \in 1..MaxInt :
             base = policy[1] /\ maximum = policy[2] /\ base <= maximum
          BY MaxIntAssumption DEF Policies
    <1>1. PICK e \in [0..retry -> Nat \ {0}] :
             /\ e[0] = base /\ \A step \in 1..retry : e[step] = 2 * e[step - 1]
             /\ Exact(base, retry) = e[retry]
          BY ExactFacts
    <1> DEFINE g == [step \in 0..retry |-> IF e[step] <= maximum THEN e[step] ELSE -1]
    <1>2. ASSUME NEW step \in 1..retry
          PROVE  e[step] = 2 * e[step - 1] /\ e[step - 1] \in Nat \ {0} /\ e[step] \in Nat \ {0}
                 /\ step - 1 \in 0..retry
          BY <1>1
    <1>3. ASSUME NEW step \in 1..retry
          PROVE  g[step] = IF g[step - 1] = -1 \/ TooLong(g[step - 1], maximum) THEN -1
                           ELSE Doubled(g[step - 1])
       <2>1. PICK d \in Nat \ {0} : d = e[step - 1] /\ e[step] = 2 * d /\ step - 1 \in 0..retry
             BY <1>2
       <2>2. g[step] = IF 2 * d <= maximum THEN 2 * d ELSE -1 BY <2>1
       <2>3. g[step - 1] = IF d <= maximum THEN d ELSE -1 BY <2>1
       <2>4. (TooLong(d, maximum) <=> 2 * d > maximum) /\ (2 * d <= maximum => Doubled(d) = 2 * d)
             BY DoubleOnce
       <2> HIDE DEF g
       <2>5. maximum \in Int BY MaxIntAssumption
       <2> QED BY <2>2, <2>3, <2>4, <2>5
    <1>4. Loops(g, base, retry, maximum)
       <2>1. ASSUME NEW step \in 0..retry
             PROVE  g[step] = IF step = 0 THEN base
                              ELSE IF g[step - 1] = -1 \/ TooLong(g[step - 1], maximum) THEN -1
                              ELSE Doubled(g[step - 1])
          <3>1. CASE step = 0 BY <1>0, <1>1, <3>1
          <3>2. CASE step # 0
             <4>1. step \in 1..retry BY <3>2
             <4> HIDE DEF g
             <4> QED BY <1>3, <3>2, <4>1
          <3> QED BY <3>1, <3>2
       <2> QED BY <2>1 DEF Loops
    <1> DEFINE f == CHOOSE h : Loops(h, base, retry, maximum)
    <1>5. Loops(f, base, retry, maximum) BY <1>4
    <1>6. boundedBackoff(base, retry, maximum) =
             IF f[retry] = -1 \/ f[retry] > maximum THEN maximum ELSE f[retry]
          BY DEF boundedBackoff, Loops
    <1>7. f[retry] = g[retry]
       <2> HIDE DEF f, g
       <2> DEFINE T == {n \in Nat : n <= retry /\ f[n] # g[n]}
       <2>1. SUFFICES ASSUME T # {} PROVE FALSE OBVIOUS
       <2>2. PICK n \in T : \A m \in T : n <= m BY <2>1, Least
       <2>3. /\ f[0] = base /\ g[0] = base
             /\ \A step \in 1..retry : f[step] = IF f[step - 1] = -1 \/ TooLong(f[step - 1], maximum)
                                                 THEN -1 ELSE Doubled(f[step - 1])
             BY <1>4, <1>5 DEF Loops
       <2>4. CASE n = 0 BY <2>3, <2>4
       <2>5. CASE n # 0
          <3>1. n - 1 \in Nat /\ n - 1 \notin T /\ n \in 1..retry BY <2>2, <2>5
          <3>2. f[n - 1] = g[n - 1] BY <3>1
          <3> QED BY <1>3, <2>3, <3>1, <3>2
       <2> QED BY <2>4, <2>5
    <1>8. e[retry] \in Nat /\ maximum \in Nat \ {0} BY MaxIntAssumption
    <1>9. g[retry] = IF e[retry] <= maximum THEN e[retry] ELSE -1 OBVIOUS
    <1> HIDE DEF f, g
    <1>10. boundedBackoff(base, retry, maximum) =
              IF e[retry] > maximum THEN maximum ELSE e[retry]
           BY <1>6, <1>7, <1>8, <1>9
    <1> QED BY <1>0, <1>1, <1>10 DEF Saturates

\* A sample of the delays holds a policy that Validate accepts; the samples of
\* the codec are marked as such.
SampleOK ==
    \/ sample = None
    \/ sample.form \in {"stream", "value"}
    \/ \E policy \in Policies, retry \in Nat :
          sample = [form |-> "backoff", base |-> policy[1], maximum |-> policy[2], retry |-> retry]

\* A sample of the codec is a stream or a value.
LEMMA CodecDraws ==
    SampleTLVs \/ SampleFrames \/ SamplePayloads \/ SamplePackets \/ SampleUDP
        => sample'.form \in {"stream", "value"}
    <1>1. SampleTLVs => sample'.form \in {"stream", "value"} BY DEF SampleTLVs, Draw
    <1>2. SampleFrames => sample'.form \in {"stream", "value"} BY DEF SampleFrames, Draw
    <1>3. SamplePayloads => sample'.form \in {"stream", "value"} BY DEF SamplePayloads, Draw
    <1>4. SamplePackets => sample'.form \in {"stream", "value"} BY DEF SamplePackets, Draw
    <1>5. SampleUDP => sample'.form \in {"stream", "value"} BY DEF SampleUDP, Draw
    <1> QED BY <1>1, <1>2, <1>3, <1>4, <1>5

\* Every sample of the delays in the run's behaviours is exact up to its
\* maximum: the invariant of the run, for every MaxInt, policy and retry count.
THEOREM DelaysSaturate == MCSpec => []BackoffSaturates
    <1>1. MCInit => SampleOK BY DEF MCInit, SampleOK
    <1>2. SampleOK /\ [MCNext]_<<vars, sample>> => SampleOK'
       <2> SUFFICES ASSUME SampleOK, [MCNext]_<<vars, sample>> PROVE SampleOK' OBVIOUS
       <2>1. CASE UNCHANGED sample BY <2>1 DEF SampleOK, Policies
       <2>2. CASE SampleTLVs \/ SampleFrames \/ SamplePayloads \/ SamplePackets \/ SampleUDP
             BY <2>2, CodecDraws DEF SampleOK
       <2>3. CASE SampleBackoff BY <2>3 DEF SampleBackoff, Draw, SampleOK
       <2> QED BY <2>1, <2>2, <2>3 DEF MCNext
    <1>3. SampleOK => BackoffSaturates
       <2> SUFFICES ASSUME SampleOK, Drawn("backoff")
                    PROVE  Saturates(sample.base, sample.retry, sample.maximum)
             BY DEF BackoffSaturates
       <2>1. PICK policy \in Policies, retry \in Nat :
                sample = [form |-> "backoff", base |-> policy[1], maximum |-> policy[2],
                          retry |-> retry]
             BY DEF SampleOK, Drawn
       <2>2. Saturates(policy[1], retry, policy[2]) BY BackoffIsExact
       <2> QED BY <2>1, <2>2
    <1> QED BY <1>1, <1>2, <1>3, PTL DEF MCSpec

-----------------------------------------------------------------------------
(* Encodings.                                                              *)

\* The first cells of a stream and those that follow.
LEMMA Cut ==
    ASSUME NEW S, NEW s \in Seq(S), NEW n \in Nat, n <= Len(s)
    PROVE  /\ SubSeq(s, 1, n) \in Seq(S) /\ Len(SubSeq(s, 1, n)) = n
           /\ From(s, n) \in Seq(S) /\ Len(From(s, n)) = Len(s) - n
           /\ \A i \in 1..n : SubSeq(s, 1, n)[i] = s[i]
           /\ \A i \in 1..(Len(s) - n) : From(s, n)[i] = s[n + i]
           /\ SubSeq(s, 1, n) \o From(s, n) = s
    <1>1. PICK len \in Nat : len = Len(s) OBVIOUS
    <1>2. PICK m \in Nat : m = n + 1 OBVIOUS
    <1>3. \A i \in 1..len : s[i] \in S BY <1>1
    <1>4. /\ SubSeq(s, 1, n) \in Seq(S) /\ Len(SubSeq(s, 1, n)) = IF 1 <= n THEN n - 1 + 1 ELSE 0
          /\ \A i \in 1..(n - 1 + 1) : SubSeq(s, 1, n)[i] = s[1 + i - 1]
       <2>1. \A i \in 1..n : s[i] \in S BY <1>1, <1>3
       <2> QED BY <2>1, SubSeqProperties
    <1>5. /\ SubSeq(s, m, len) \in Seq(S)
          /\ Len(SubSeq(s, m, len)) = IF m <= len THEN len - m + 1 ELSE 0
          /\ \A i \in 1..(len - m + 1) : SubSeq(s, m, len)[i] = s[m + i - 1]
       <2>1. \A i \in m..len : s[i] \in S BY <1>2, <1>3
       <2> QED BY <2>1, SubSeqProperties
    <1>6. From(s, n) = SubSeq(s, m, len) BY <1>1, <1>2 DEF From
    <1>7. SubSeq(s, 1, n) \o SubSeq(s, n + 1, len) = SubSeq(s, 1, len)
       <2>1. 1 \in 1..(Len(s) + 1) /\ n \in (1 - 1)..Len(s) /\ len \in n..Len(s) BY <1>1
       <2> QED BY <2>1, ConcatAdjacentSubSeq
    <1>8. SubSeq(s, 1, len) = s BY <1>1, SubSeqFull
    <1>9. \A i \in 1..n : SubSeq(s, 1, n)[i] = s[i]
       <2>1. ASSUME NEW i \in 1..n PROVE i \in 1..(n - 1 + 1) /\ 1 + i - 1 = i OBVIOUS
       <2> QED BY <1>4, <2>1
    <1>10. \A i \in 1..(len - n) : SubSeq(s, m, len)[i] = s[n + i]
       <2>1. ASSUME NEW i \in 1..(len - n) PROVE i \in 1..(len - m + 1) /\ m + i - 1 = n + i
             BY <1>2
       <2> QED BY <1>5, <2>1
    <1>11. Len(SubSeq(s, 1, n)) = n BY <1>4
    <1>12. Len(SubSeq(s, m, len)) = len - n BY <1>1, <1>2, <1>5
    <1> QED BY <1>1, <1>2, <1>4, <1>5, <1>6, <1>7, <1>8, <1>9, <1>10, <1>11, <1>12

\* Two streams, one after the other.
LEMMA Glue ==
    ASSUME NEW S, NEW s \in Seq(S), NEW t \in Seq(S)
    PROVE  /\ s \o t \in Seq(S) /\ Len(s \o t) = Len(s) + Len(t)
           /\ \A i \in 1..Len(s) : (s \o t)[i] = s[i]
           /\ \A i \in 1..Len(t) : (s \o t)[Len(s) + i] = t[i]
           /\ SubSeq(s \o t, 1, Len(s)) = s /\ From(s \o t, Len(s)) = t
    <1>1. PICK n \in Nat, m \in Nat : n = Len(s) /\ m = Len(t) OBVIOUS
    <1>2. PICK u : u = s \o t OBVIOUS
    <1>3. u \in Seq(S) /\ Len(u) = n + m /\ (\A i \in 1..n : u[i] = s[i])
          /\ \A i \in 1..m : u[n + i] = t[i]
          BY <1>1, <1>2
    <1>4. /\ SubSeq(u, 1, n) \in Seq(S) /\ Len(SubSeq(u, 1, n)) = n
          /\ From(u, n) \in Seq(S) /\ Len(From(u, n)) = Len(u) - n
          /\ \A i \in 1..n : SubSeq(u, 1, n)[i] = u[i]
          /\ \A i \in 1..(Len(u) - n) : From(u, n)[i] = u[n + i]
       <2>1. n <= Len(u) BY <1>3
       <2> QED BY <1>3, <2>1, Cut
    <1>5. SubSeq(u, 1, n) = s
       <2>1. \A i \in 1..n : SubSeq(u, 1, n)[i] = s[i] BY <1>3, <1>4
       <2> QED BY <1>1, <1>4, <2>1, SeqEqual
    <1>6. From(u, n) = t
       <2>1. Len(u) - n = m BY <1>3
       <2>2. \A i \in 1..m : From(u, n)[i] = t[i] BY <1>3, <1>4, <2>1
       <2> QED BY <1>1, <1>4, <2>1, <2>2, SeqEqual
    <1> QED BY <1>1, <1>2, <1>3, <1>5, <1>6

\* The same facts, as predicates.
CutIn(S, s, n) ==
    /\ SubSeq(s, 1, n) \in Seq(S) /\ Len(SubSeq(s, 1, n)) = n
    /\ From(s, n) \in Seq(S) /\ Len(From(s, n)) = Len(s) - n
    /\ \A i \in 1..n : SubSeq(s, 1, n)[i] = s[i]
    /\ SubSeq(s, 1, n) \o From(s, n) = s
GluedIn(S, s, t) ==
    /\ s \o t \in Seq(S) /\ Len(s \o t) = Len(s) + Len(t)
    /\ \A i \in 1..Len(s) : (s \o t)[i] = s[i]
    /\ \A i \in 1..Len(t) : (s \o t)[Len(s) + i] = t[i]
\* Cut, for any set of cells.
LEMMA CutFacts ==
    ASSUME NEW S, NEW s \in Seq(S), NEW n \in Nat, n <= Len(s)
    PROVE  CutIn(S, s, n)
    BY Cut DEF CutIn
\* Glue, for any set of cells.
LEMMA GlueFacts ==
    ASSUME NEW S, NEW s \in Seq(S), NEW t \in Seq(S)
    PROVE  GluedIn(S, s, t)
    BY Glue DEF GluedIn

\* Adjacent parts of a stream.
LEMMA Adjacent ==
    ASSUME NEW S, NEW s \in Seq(S), NEW m \in Nat, NEW n \in Nat, m <= n, n <= Len(s)
    PROVE  SubSeq(s, 1, m) \o SubSeq(s, m + 1, n) = SubSeq(s, 1, n)
    <1>1. 1 \in 1..(Len(s) + 1) /\ m \in (1 - 1)..Len(s) /\ n \in m..Len(s) OBVIOUS
    <1> QED BY <1>1, ConcatAdjacentSubSeq

\* One cell, and two of them, of a stream.
LEMMA Cells ==
    ASSUME NEW S, NEW s \in Seq(S), NEW n \in Nat
    PROVE  /\ n + 1 <= Len(s) => SubSeq(s, n + 1, n + 1) = <<s[n + 1]>>
           /\ n + 2 <= Len(s) => SubSeq(s, n + 1, n + 2) = <<s[n + 1], s[n + 2]>>
    <1>1. PICK a \in Nat, b \in Nat : a = n + 1 /\ b = n + 2 OBVIOUS
    <1>2. ASSUME a <= Len(s) PROVE SubSeq(s, a, a) = <<s[a]>>
       <2>1. s[a] \in S /\ \A i \in a..a : s[i] \in S BY <1>1, <1>2
       <2>2. /\ SubSeq(s, a, a) \in Seq(S) /\ Len(SubSeq(s, a, a)) = IF a <= a THEN a - a + 1 ELSE 0
             /\ \A i \in 1..(a - a + 1) : SubSeq(s, a, a)[i] = s[a + i - 1]
             BY <2>1, SubSeqProperties
       <2>3. Len(SubSeq(s, a, a)) = 1 BY <2>2
       <2>4. SubSeq(s, a, a)[1] = s[a]
          <3>1. 1 \in 1..(a - a + 1) /\ a + 1 - 1 = a OBVIOUS
          <3> QED BY <2>2, <3>1
       <2>5. <<s[a]>> \in Seq(S) /\ Len(<<s[a]>>) = 1 /\ <<s[a]>>[1] = s[a] BY <2>1
       <2>6. \A i \in 1..1 : SubSeq(s, a, a)[i] = <<s[a]>>[i] BY <2>4, <2>5
       <2> QED BY <2>2, <2>3, <2>5, <2>6, SeqEqual
    <1>3. ASSUME b <= Len(s) PROVE SubSeq(s, a, b) = <<s[a], s[b]>>
       <2>1. s[a] \in S /\ s[b] \in S /\ \A i \in a..b : s[i] \in S BY <1>1, <1>3
       <2>2. /\ SubSeq(s, a, b) \in Seq(S) /\ Len(SubSeq(s, a, b)) = IF a <= b THEN b - a + 1 ELSE 0
             /\ \A i \in 1..(b - a + 1) : SubSeq(s, a, b)[i] = s[a + i - 1]
             BY <2>1, SubSeqProperties
       <2>3. Len(SubSeq(s, a, b)) = 2 BY <1>1, <2>2
       <2>4. SubSeq(s, a, b)[1] = s[a] /\ SubSeq(s, a, b)[2] = s[b]
          <3>1. 1 \in 1..(b - a + 1) /\ a + 1 - 1 = a /\ 2 \in 1..(b - a + 1) /\ a + 2 - 1 = b
                BY <1>1
          <3> QED BY <2>2, <3>1
       <2>5. /\ <<s[a], s[b]>> \in Seq(S) /\ Len(<<s[a], s[b]>>) = 2
             /\ <<s[a], s[b]>>[1] = s[a] /\ <<s[a], s[b]>>[2] = s[b]
             BY <2>1
       <2>6. ASSUME NEW i \in 1..2 PROVE SubSeq(s, a, b)[i] = <<s[a], s[b]>>[i]
          <3>1. i = 1 \/ i = 2 OBVIOUS
          <3> QED BY <2>4, <2>5, <3>1
       <2> QED BY <2>2, <2>3, <2>5, <2>6, SeqEqual
    <1> QED BY <1>1, <1>2, <1>3

\* The octets of a length, and the length of two octets.
LEMMA LengthOctets ==
    ASSUME NEW high \in Nat, NEW low \in Octet
    PROVE  GetUint16(high, low) \in Nat /\ PutUint16(GetUint16(high, low)) = <<high, low>>
    BY DEF PutUint16, GetUint16, Octet
\* The length of the octets that PutUint16 writes.
LEMMA OctetsLength ==
    ASSUME NEW n \in Nat
    PROVE  /\ n \div 256 \in Nat /\ n % 256 \in Octet
           /\ PutUint16(n) = <<n \div 256, n % 256>> /\ GetUint16(n \div 256, n % 256) = n
    BY DEF PutUint16, GetUint16, Octet

\* An octet is a number.
LEMMA OctetsAreNumbers == \A x \in Octet : x \in Nat
    BY DEF Octet

\* What ParseKeyed accepts is the two parts and their length, marshalled.
LEMMA KeyedStream ==
    ASSUME NEW data \in Seq(Octet), ParseKeyed(data) # Error
    PROVE  /\ ParseKeyed(data).key \in Seq(Octet)
           /\ ParseKeyed(data).encrypted \in Seq(Octet)
           /\ Len(ParseKeyed(data).encrypted) >= AEADTagSize
           /\ Len(data) = EphemeralPublicKeySize + 2 + Len(ParseKeyed(data).encrypted)
           /\ MarshalKeyed(ParseKeyed(data).key, ParseKeyed(data).encrypted) = data
    <1>1. PICK k \in Nat : k = EphemeralPublicKeySize BY SizesAssumption
    <1>2. PICK n \in Nat : n = k + 2 OBVIOUS
    <1>3. PICK a \in Nat : a = k + 1 OBVIOUS
    <1>4. PICK len \in Nat : len = Len(data) BY LenProperties
    <1>5. n - 1 = a BY <1>2, <1>3
    <1>6. PICK key : key = SubSeq(data, 1, k) OBVIOUS
    <1>7. PICK encrypted : encrypted = From(data, n) OBVIOUS
    <1>8. PICK p : p = ParseKeyed(data) OBVIOUS
    <1>9. /\ ~(len < n) /\ GetUint16(data[a], data[n]) = Len(encrypted)
          /\ Len(encrypted) >= AEADTagSize
          /\ p = [key |-> key, encrypted |-> encrypted]
          BY <1>1, <1>2, <1>3, <1>4, <1>5, <1>6, <1>7, <1>8 DEF ParseKeyed
    <1>10. n <= Len(data) /\ k <= n BY <1>2, <1>4, <1>9
    <1>11. /\ encrypted \in Seq(Octet) /\ Len(encrypted) = Len(data) - n
           /\ SubSeq(data, 1, n) \o encrypted = data
           BY <1>7, <1>10, Cut
    <1>12. k <= Len(data) BY <1>4, <1>10
    <1>13. key \in Seq(Octet) BY <1>6, <1>12, Cut
    <1>14. key \o SubSeq(data, k + 1, n) = SubSeq(data, 1, n) BY <1>6, <1>10, Adjacent
    <1>15. SubSeq(data, k + 1, n) = <<data[a], data[n]>> BY <1>2, <1>3, <1>10, Cells
    <1>16. data[a] \in Nat /\ data[n] \in Octet
       <2>1. a \in 1..Len(data) /\ n \in 1..Len(data) BY <1>2, <1>3, <1>4, <1>10
       <2>2. data[a] \in Octet /\ data[n] \in Octet BY <2>1, ElementOfSeq
       <2> QED BY <2>2, OctetsAreNumbers
    <1>17. PutUint16(Len(encrypted)) = <<data[a], data[n]>> BY <1>9, <1>16, LengthOctets
    <1>18. p.key = key /\ p.encrypted = encrypted BY <1>9
    <1>19. MarshalKeyed(key, encrypted) = data BY <1>11, <1>14, <1>15, <1>17 DEF MarshalKeyed
    <1>20. Len(data) = k + 2 + Len(encrypted)
       <2>1. PICK e \in Nat : e = Len(encrypted) BY <1>11, LenProperties
       <2> QED BY <1>2, <1>4, <1>11, <2>1
    <1> QED BY <1>1, <1>8, <1>9, <1>11, <1>13, <1>18, <1>19, <1>20

\* A part of a stream.
LEMMA Part ==
    ASSUME NEW S, NEW s \in Seq(S), NEW k \in Nat, NEW n \in Nat, 1 <= k, k <= n + 1, n <= Len(s)
    PROVE  /\ SubSeq(s, k, n) \in Seq(S) /\ Len(SubSeq(s, k, n)) = n - k + 1
           /\ \A i \in 1..(n - k + 1) : SubSeq(s, k, n)[i] = s[k + i - 1]
    <1>1. \A i \in k..n : s[i] \in S OBVIOUS
    <1>2. k \in Int /\ n \in Int OBVIOUS
    <1>3. /\ SubSeq(s, k, n) \in Seq(S) /\ Len(SubSeq(s, k, n)) = IF k <= n THEN n - k + 1 ELSE 0
          /\ \A i \in 1..(n - k + 1) : SubSeq(s, k, n)[i] = s[k + i - 1]
          BY <1>1, <1>2, SubSeqProperties
    <1> QED BY <1>3

\* A part of a stream is what its cells say.
LEMMA Inner ==
    ASSUME NEW S, NEW s \in Seq(S), NEW y \in Seq(S), NEW m \in Nat, NEW n \in Nat, NEW len \in Nat,
           len = Len(y), n = m + len, n <= Len(s), \A i \in 1..len : s[m + i] = y[i]
    PROVE  SubSeq(s, m + 1, n) = y
    <1>1. PICK k \in Nat : k = m + 1 OBVIOUS
    <1>2. 1 <= k /\ k <= n + 1 BY <1>1
    <1>3. /\ SubSeq(s, k, n) \in Seq(S) /\ Len(SubSeq(s, k, n)) = n - k + 1
          /\ \A i \in 1..(n - k + 1) : SubSeq(s, k, n)[i] = s[k + i - 1]
          BY <1>2, Part
    <1>4. n - k + 1 = len BY <1>1
    <1>5. Len(SubSeq(s, k, n)) = len BY <1>3, <1>4
    <1>6. ASSUME NEW i \in 1..len PROVE SubSeq(s, k, n)[i] = y[i]
       <2>1. k + i - 1 = m + i BY <1>1
       <2> QED BY <1>3, <1>4, <2>1
    <1> QED BY <1>1, <1>3, <1>5, <1>6, SeqEqual

\* A stream of three parts.
Joined(x, y, z) == (x \o y) \o z
\* Its parts are where they were put.
Found(x, y, z) ==
    /\ Joined(x, y, z) \in Seq(Octet)
    /\ Len(Joined(x, y, z)) = Len(x) + Len(y) + Len(z)
    /\ \A i \in 1..Len(x) : Joined(x, y, z)[i] = x[i]
    /\ \A i \in 1..Len(y) : Joined(x, y, z)[Len(x) + i] = y[i]
    /\ SubSeq(Joined(x, y, z), 1, Len(x)) = x
    /\ SubSeq(Joined(x, y, z), Len(x) + 1, Len(x) + Len(y)) = y
    /\ From(Joined(x, y, z), Len(x) + Len(y)) = z

\* The parts of a stream are found where they were put, whatever they hold.
LEMMA Parts ==
    ASSUME NEW x \in Seq(Octet), NEW y \in Seq(Octet), NEW z \in Seq(Octet)
    PROVE  Found(x, y, z)
    <1>1. PICK m \in Nat : m = Len(x) BY LenProperties
    <1>2. PICK len \in Nat : len = Len(y) BY LenProperties
    <1>3. PICK n \in Nat : n = m + len OBVIOUS
    <1>4. n = Len(x) + Len(y) BY <1>1, <1>2, <1>3
    <1>5. PICK s : s = Joined(x, y, z) OBVIOUS
    <1>6. PICK u : u = x \o y OBVIOUS
    <1>7. /\ u \in Seq(Octet) /\ Len(u) = n
          /\ \A i \in 1..m : u[i] = x[i]
          /\ \A i \in 1..len : u[m + i] = y[i]
          BY <1>1, <1>2, <1>4, <1>6, Glue
    <1>8. /\ s \in Seq(Octet) /\ Len(s) = n + Len(z) /\ From(s, n) = z
          /\ \A i \in 1..n : s[i] = u[i]
       <2>1. s = u \o z BY <1>5, <1>6 DEF Joined
       <2>2. /\ u \o z \in Seq(Octet) /\ Len(u \o z) = Len(u) + Len(z) /\ From(u \o z, Len(u)) = z
             /\ \A i \in 1..Len(u) : (u \o z)[i] = u[i]
             BY <1>7, Glue
       <2> QED BY <1>7, <2>1, <2>2
    <1>9. \A i \in 1..m : s[i] = x[i]
       <2>1. ASSUME NEW i \in 1..m PROVE i \in 1..n BY <1>3
       <2> QED BY <1>7, <1>8, <2>1
    <1>10. \A i \in 1..len : s[m + i] = y[i]
       <2>1. ASSUME NEW i \in 1..len PROVE m + i \in 1..n BY <1>3
       <2> QED BY <1>7, <1>8, <2>1
    <1>11. PICK all \in Nat : all = Len(s) BY <1>8, LenProperties
    <1>12. m <= n /\ n <= all
       <2>1. PICK e \in Nat : e = Len(z) BY LenProperties
       <2> QED BY <1>3, <1>8, <1>11, <2>1
    <1>13. SubSeq(s, 1, m) = x
       <2>1. /\ SubSeq(s, 1, m) \in Seq(Octet) /\ Len(SubSeq(s, 1, m)) = m
             /\ \A i \in 1..m : SubSeq(s, 1, m)[i] = s[i]
             BY <1>8, <1>11, <1>12, Cut
       <2>2. \A i \in 1..m : SubSeq(s, 1, m)[i] = x[i] BY <1>9, <2>1
       <2> QED BY <1>1, <2>1, <2>2, SeqEqual
    <1>14. SubSeq(s, m + 1, n) = y
       <2>1. n <= Len(s) BY <1>11, <1>12
       <2> QED BY <1>2, <1>3, <1>8, <1>10, <2>1, Inner
    <1>15. /\ s \in Seq(Octet) /\ Len(s) = n + Len(z)
           /\ \A i \in 1..m : s[i] = x[i]
           /\ \A i \in 1..Len(y) : s[m + i] = y[i]
           /\ SubSeq(s, 1, m) = x /\ SubSeq(s, m + 1, n) = y /\ From(s, n) = z
           BY <1>2, <1>8, <1>9, <1>10, <1>13, <1>14
    <1> QED BY <1>1, <1>4, <1>5, <1>15 DEF Found

\* The octets of a length that fits.
LEMMA LengthFits ==
    ASSUME NEW n \in Nat, n <= 65535
    PROVE  /\ PutUint16(n) \in Seq(Octet) /\ Len(PutUint16(n)) = 2
           /\ GetUint16(PutUint16(n)[1], PutUint16(n)[2]) = n
    <1>1. PICK high, low : high = n \div 256 /\ low = n % 256 OBVIOUS
    <1>2. /\ high \in Nat /\ low \in Octet
          /\ PutUint16(n) = <<high, low>> /\ GetUint16(high, low) = n
          BY <1>1, OctetsLength
    <1>3. 256 * high + low = n /\ low \in Nat BY <1>2 DEF GetUint16, Octet
    <1>4. high \in Octet BY <1>2, <1>3 DEF Octet
    <1>5. <<high, low>> \in Seq(Octet) /\ Len(<<high, low>>) = 2
          /\ <<high, low>>[1] = high /\ <<high, low>>[2] = low
          BY <1>2, <1>4
    <1> QED BY <1>2, <1>5

\* What MarshalKeyed writes is parsed back.
LEMMA KeyedValue ==
    ASSUME NEW key \in Seq(Octet), NEW encrypted \in Seq(Octet),
           Len(key) = EphemeralPublicKeySize, Len(encrypted) \in AEADTagSize..MaxUint
    PROVE  /\ MarshalKeyed(key, encrypted) \in Seq(Octet)
           /\ Len(MarshalKeyed(key, encrypted)) = EphemeralPublicKeySize + 2 + Len(encrypted)
           /\ ParseKeyed(MarshalKeyed(key, encrypted)) = [key |-> key, encrypted |-> encrypted]
    <1>1. PICK k \in Nat : k = EphemeralPublicKeySize BY SizesAssumption
    <1>2. PICK n \in Nat : n = k + 2 OBVIOUS
    <1>3. PICK a \in Nat : a = k + 1 OBVIOUS
    <1>4. PICK e \in Nat : e = Len(encrypted) BY LenProperties
    <1>16. PICK max \in Nat : max = MaxUint /\ max <= 65535 BY SizesAssumption
    <1>17. PICK tag \in Nat : tag = AEADTagSize BY SizesAssumption
    <1>18. e \in tag..max BY <1>4, <1>16, <1>17
    <1>5. e <= 65535 /\ e >= tag BY <1>16, <1>18
    <1>6. PICK y : y = PutUint16(e) OBVIOUS
    <1>7. y \in Seq(Octet) /\ Len(y) = 2 /\ GetUint16(y[1], y[2]) = e BY <1>5, <1>6, LengthFits
    <1>8. PICK s : s = Joined(key, y, encrypted) OBVIOUS
    <1>9. k = Len(key) /\ n = Len(key) + Len(y) BY <1>1, <1>2, <1>7
    <1>10. /\ s \in Seq(Octet) /\ Len(s) = n + Len(encrypted)
           /\ \A i \in 1..Len(y) : s[k + i] = y[i]
           /\ SubSeq(s, 1, k) = key /\ From(s, n) = encrypted
       <2>1. Found(key, y, encrypted) BY <1>7, Parts
       <2> QED BY <1>8, <1>9, <2>1 DEF Found
    <1>11. MarshalKeyed(key, encrypted) = s BY <1>4, <1>6, <1>8 DEF MarshalKeyed, Joined
    <1>12. s[a] = y[1] /\ s[n] = y[2]
       <2>1. 1 \in 1..Len(y) /\ 2 \in 1..Len(y) BY <1>7
       <2> QED BY <1>2, <1>3, <1>10, <2>1
    <1>13. n - 1 = a /\ ~(Len(s) < n) BY <1>2, <1>3, <1>4, <1>10
    <1>14. ParseKeyed(s) = [key |-> key, encrypted |-> encrypted]
       <2>1. GetUint16(s[a], s[n]) = Len(encrypted) BY <1>4, <1>7, <1>12
       <2>2. Len(encrypted) >= AEADTagSize BY <1>4, <1>5, <1>17
       <2> QED BY <1>1, <1>2, <1>10, <1>13, <2>1, <2>2 DEF ParseKeyed
    <1>15. Len(s) = k + 2 + Len(encrypted) BY <1>2, <1>10
    <1> QED BY <1>1, <1>10, <1>11, <1>14, <1>15

\* The two lengths and the whole of what ParseKeyed accepts.
KeyedOK(data) ==
    /\ ParseKeyed(data).key \in Seq(Octet)
    /\ ParseKeyed(data).encrypted \in Seq(Octet)
    /\ Len(ParseKeyed(data).encrypted) >= AEADTagSize
    /\ Len(data) = EphemeralPublicKeySize + 2 + Len(ParseKeyed(data).encrypted)
    /\ MarshalKeyed(ParseKeyed(data).key, ParseKeyed(data).encrypted) = data

\* A HANDSHAKE payload that is accepted is the one its parts marshal to.
LEMMA HandshakeStream ==
    ASSUME NEW data \in Seq(Octet), ParseHandshake(data) # Error
    PROVE  HandshakeMarshal(ParseHandshake(data)) = data
    <1>1. ~(Len(data) > MaxUint) /\ ParseHandshake(data) = ParseKeyed(data) BY DEF ParseHandshake
    <1>2. KeyedOK(data) BY <1>1, KeyedStream DEF KeyedOK
    <1>3. PICK p : p = ParseKeyed(data) OBVIOUS
    <1>4. PICK k \in Nat : k = EphemeralPublicKeySize BY SizesAssumption
    <1>5. PICK max \in Nat : max = MaxUint BY SizesAssumption
    <1>6. PICK tag \in Nat : tag = AEADTagSize BY SizesAssumption
    <1>7. PICK len \in Nat : len = Len(data) BY LenProperties
    <1>8. PICK e \in Nat : e = Len(p.encrypted) BY <1>2, <1>3, LenProperties DEF KeyedOK
    <1>9. len = k + 2 + e /\ e >= tag BY <1>2, <1>3, <1>4, <1>6, <1>7, <1>8 DEF KeyedOK
    <1>10. len <= max BY <1>1, <1>5, <1>7
    <1>11. e \in tag..max /\ k + 2 + e <= max BY <1>9, <1>10
    <1>12. MarshalKeyed(p.key, p.encrypted) = data BY <1>2, <1>3 DEF KeyedOK
    <1>13. HandshakeMarshal(p) = MarshalKeyed(p.key, p.encrypted)
           BY <1>4, <1>5, <1>6, <1>8, <1>11 DEF HandshakeMarshal
    <1> QED BY <1>1, <1>3, <1>12, <1>13

\* So is an INITIAL payload, whose token comes first.
LEMMA InitialStream ==
    ASSUME NEW data \in Seq(Octet), ParseInitial(data) # Error
    PROVE  InitialMarshal(ParseInitial(data)) = data
    <1>1. PICK n : n = GetUint16(data[1], data[2]) OBVIOUS
    <1>2. PICK rest : rest = From(data, 2 + n) OBVIOUS
    <1>3. PICK p : p = ParseInitial(data) OBVIOUS
    <1>4. PICK token : token = SubSeq(data, 3, 2 + n) OBVIOUS
    <1>5. /\ ~(Len(data) > MaxUint) /\ ~(Len(data) < 2) /\ ~(n > Len(data) - 2)
          /\ ParseKeyed(rest) # Error
          /\ p = [token |-> token, key |-> ParseKeyed(rest).key,
                  encrypted |-> ParseKeyed(rest).encrypted]
          BY <1>1, <1>2, <1>3, <1>4 DEF ParseInitial
    <1>6. PICK len \in Nat : len = Len(data) BY LenProperties
    <1>7. data[1] \in Nat /\ data[2] \in Octet
       <2>1. 1 \in 1..Len(data) /\ 2 \in 1..Len(data) BY <1>5, <1>6
       <2>2. data[1] \in Octet /\ data[2] \in Octet BY <2>1, ElementOfSeq
       <2> QED BY <2>2, OctetsAreNumbers
    <1>8. n \in Nat /\ PutUint16(n) = <<data[1], data[2]>> BY <1>1, <1>7, LengthOctets
    <1>9. PICK m \in Nat : m = 2 + n BY <1>8
    <1>10. m <= len BY <1>5, <1>6, <1>8, <1>9
    <1>11. /\ rest \in Seq(Octet) /\ Len(rest) = Len(data) - m
           /\ SubSeq(data, 1, m) \o rest = data
           BY <1>2, <1>6, <1>9, <1>10, Cut
    <1>12. KeyedOK(rest) BY <1>5, <1>11, KeyedStream DEF KeyedOK
    <1>13. PutUint16(n) \o token = SubSeq(data, 1, m)
       <2>1. PICK two \in Nat : two = 2 OBVIOUS
       <2>2. SubSeq(data, 1, two) \o SubSeq(data, two + 1, m) = SubSeq(data, 1, m)
          <3>1. two <= m /\ m <= Len(data) BY <1>6, <1>8, <1>9, <1>10, <2>1
          <3> QED BY <3>1, Adjacent
       <2>3. SubSeq(data, 1, 2) = <<data[1], data[2]>>
          <3>1. PICK z \in Nat : z = 0 OBVIOUS
          <3>2. z + 2 <= Len(data) BY <1>5, <1>6, <3>1
          <3>3. SubSeq(data, z + 1, z + 2) = <<data[z + 1], data[z + 2]>> BY <3>2, Cells
          <3>4. z + 1 = 1 /\ z + 2 = 2 BY <3>1
          <3> QED BY <3>3, <3>4
       <2>4. token = SubSeq(data, two + 1, m)
          <3>1. two + 1 = 3 BY <2>1
          <3> QED BY <1>4, <1>9, <3>1
       <2> QED BY <1>8, <2>1, <2>2, <2>3, <2>4
    <1>14. Len(token) = n
       <2>1. PICK three \in Nat : three = 3 OBVIOUS
       <2>2. 1 <= three /\ three <= m + 1 /\ m <= Len(data) BY <1>6, <1>8, <1>9, <1>10, <2>1
       <2>3. Len(SubSeq(data, three, m)) = m - three + 1 BY <2>2, Part
       <2>4. m - three + 1 = n BY <1>8, <1>9, <2>1
       <2> QED BY <1>4, <1>9, <2>1, <2>3, <2>4
    <1>15. p.token = token /\ p.key = ParseKeyed(rest).key /\ p.encrypted = ParseKeyed(rest).encrypted
           BY <1>5
    <1>16. MarshalKeyed(p.key, p.encrypted) = rest BY <1>12, <1>15 DEF KeyedOK
    <1>17. PICK e \in Nat : e = Len(p.encrypted) BY <1>12, <1>15, LenProperties DEF KeyedOK
    <1>18. PICK k \in Nat : k = EphemeralPublicKeySize BY SizesAssumption
    <1>19. PICK max \in Nat : max = MaxUint BY SizesAssumption
    <1>20. PICK tag \in Nat : tag = AEADTagSize BY SizesAssumption
    <1>21. len - m = k + 2 + e /\ e >= tag
           BY <1>6, <1>11, <1>12, <1>15, <1>17, <1>18, <1>20 DEF KeyedOK
    <1>22. len <= max BY <1>5, <1>6, <1>19
    <1>23. n <= max /\ e \in tag..max /\ 2 + n + k + 2 + e <= max
           BY <1>8, <1>9, <1>10, <1>21, <1>22
    <1>24. InitialMarshal(p) = PutUint16(n) \o token \o rest
           BY <1>14, <1>15, <1>16, <1>17, <1>18, <1>19, <1>20, <1>23 DEF InitialMarshal
    <1> QED BY <1>3, <1>11, <1>13, <1>24

\* An INITIAL payload that is marshalled is parsed back.
LEMMA InitialValue ==
    ASSUME NEW token \in Seq(Octet), NEW key \in Seq(Octet), NEW encrypted \in Seq(Octet),
           Len(key) = EphemeralPublicKeySize,
           NEW p, p = [token |-> token, key |-> key, encrypted |-> encrypted],
           NEW data, data = InitialMarshal(p), data # Error
    PROVE  ParseInitial(data) = p
    <1>1. p.token = token /\ p.key = key /\ p.encrypted = encrypted OBVIOUS
    <1>2. /\ Len(token) <= MaxUint /\ Len(encrypted) \in AEADTagSize..MaxUint
          /\ 2 + Len(token) + EphemeralPublicKeySize + 2 + Len(encrypted) <= MaxUint
          /\ data = PutUint16(Len(token)) \o token \o MarshalKeyed(key, encrypted)
          BY <1>1 DEF InitialMarshal
    <1>3. PICK n \in Nat : n = Len(token) BY LenProperties
    <1>4. PICK e \in Nat : e = Len(encrypted) BY LenProperties
    <1>5. PICK k \in Nat : k = EphemeralPublicKeySize BY SizesAssumption
    <1>6. PICK max \in Nat : max = MaxUint /\ max <= 65535 BY SizesAssumption
    <1>7. n <= 65535 BY <1>2, <1>3, <1>6
    <1>8. PICK x : x = PutUint16(n) OBVIOUS
    <1>9. x \in Seq(Octet) /\ Len(x) = 2 /\ GetUint16(x[1], x[2]) = n BY <1>7, <1>8, LengthFits
    <1>10. PICK rest : rest = MarshalKeyed(key, encrypted) OBVIOUS
    <1>11. /\ rest \in Seq(Octet) /\ Len(rest) = EphemeralPublicKeySize + 2 + Len(encrypted)
           /\ ParseKeyed(rest) = [key |-> key, encrypted |-> encrypted]
           BY <1>2, <1>10, KeyedValue
    <1>12. Found(x, token, rest) BY <1>9, <1>11, Parts
    <1>13. data = Joined(x, token, rest) BY <1>2, <1>3, <1>8, <1>10 DEF Joined
    <1>14. /\ Len(data) = 2 + n + Len(rest)
           /\ data[1] = x[1] /\ data[2] = x[2]
           /\ SubSeq(data, 3, 2 + n) = token /\ From(data, 2 + n) = rest
       <2>1. /\ Len(data) = Len(x) + Len(token) + Len(rest)
             /\ \A i \in 1..Len(x) : data[i] = x[i]
             /\ SubSeq(data, Len(x) + 1, Len(x) + Len(token)) = token
             /\ From(data, Len(x) + Len(token)) = rest
             BY <1>12, <1>13 DEF Found
       <2>2. Len(x) + 1 = 3 /\ Len(x) + Len(token) = 2 + n BY <1>3, <1>9
       <2>3. 1 \in 1..Len(x) /\ 2 \in 1..Len(x) BY <1>9
       <2> QED BY <2>1, <2>2, <2>3
    <1>15. PICK len \in Nat : len = Len(data) /\ len = 2 + n + (k + 2 + e)
           BY <1>4, <1>5, <1>11, <1>14
    <1>16. len <= max /\ len >= 2 /\ n <= len - 2
       <2>1. 2 + n + k + 2 + e <= max BY <1>2, <1>3, <1>4, <1>5, <1>6
       <2> QED BY <1>15, <2>1
    <1>17. ParseKeyed(rest) # Error BY <1>11, ErrorAssumption
    <1>18. /\ ~(Len(data) > MaxUint) /\ ~(Len(data) < 2) /\ ~(n > Len(data) - 2)
           BY <1>6, <1>15, <1>16
    <1>19. GetUint16(data[1], data[2]) = n BY <1>9, <1>14
    <1>20. ParseInitial(data) = [token |-> SubSeq(data, 3, 2 + n),
                                 key |-> ParseKeyed(rest).key,
                                 encrypted |-> ParseKeyed(rest).encrypted]
           BY <1>14, <1>17, <1>18, <1>19 DEF ParseInitial
    <1>21. ParseKeyed(rest).key = key /\ ParseKeyed(rest).encrypted = encrypted BY <1>11
    <1> QED BY <1>14, <1>20, <1>21

\* A request of the relay that is accepted is the one its parts marshal to.
LEMMA UDPStream ==
    ASSUME NEW data \in Seq(Octet), parseUDPRequest(data) # Error,
           Len(data) >= 3 => GetUint16(data[2], data[3]) <= MaxUint
    PROVE  makeUDPRequest(parseUDPRequest(data)) = data
    <1>1. PICK n : n = GetUint16(data[2], data[3]) OBVIOUS
    <1>2. PICK target : target = SubSeq(data, 4, 3 + n) OBVIOUS
    <1>3. PICK body : body = From(data, 3 + n) OBVIOUS
    <1>4. PICK p : p = parseUDPRequest(data) OBVIOUS
    <1>5. /\ ~(Len(data) < 3) /\ data[1] = udpRequest /\ ~(Len(data) < 3 + n)
          /\ SplitHostPort(target) /\ p = [target |-> target, body |-> body]
          BY <1>1, <1>2, <1>3, <1>4 DEF parseUDPRequest
    <1>6. PICK len \in Nat : len = Len(data) BY LenProperties
    <1>7. data[2] \in Nat /\ data[3] \in Octet
       <2>1. 2 \in 1..Len(data) /\ 3 \in 1..Len(data) BY <1>5, <1>6
       <2>2. data[2] \in Octet /\ data[3] \in Octet BY <2>1, ElementOfSeq
       <2> QED BY <2>2, OctetsAreNumbers
    <1>8. n \in Nat /\ PutUint16(n) = <<data[2], data[3]>> BY <1>1, <1>7, LengthOctets
    <1>9. PICK m \in Nat : m = 3 + n BY <1>8
    <1>10. m <= Len(data) /\ 3 <= m /\ 3 <= Len(data) BY <1>5, <1>6, <1>8, <1>9
    <1>11. SubSeq(data, 1, m) \o body = data BY <1>3, <1>9, <1>10, Cut
    <1>12. SubSeq(data, 1, 3) \o target = SubSeq(data, 1, m)
       <2>1. PICK three \in Nat : three = 3 OBVIOUS
       <2>2. three <= m BY <1>10, <2>1
       <2>3. SubSeq(data, 1, three) \o SubSeq(data, three + 1, m) = SubSeq(data, 1, m)
             BY <1>10, <2>2, Adjacent
       <2>4. three + 1 = 4 BY <2>1
       <2> QED BY <1>2, <1>9, <2>1, <2>3, <2>4
    <1>13. <<udpRequest>> \o PutUint16(n) = SubSeq(data, 1, 3)
       <2>1. PICK one \in Nat, three \in Nat : one = 1 /\ three = 3 OBVIOUS
       <2>2. one <= three /\ three <= Len(data) BY <1>10, <2>1
       <2>3. SubSeq(data, 1, one) \o SubSeq(data, one + 1, three) = SubSeq(data, 1, three)
             BY <2>2, Adjacent
       <2>4. one + 2 <= Len(data) BY <2>1, <2>2
       <2>5. SubSeq(data, one + 1, one + 2) = <<data[one + 1], data[one + 2]>> BY <2>4, Cells
       <2>6. one + 1 = 2 /\ one + 2 = three BY <2>1
       <2>7. SubSeq(data, one + 1, three) = <<data[2], data[3]>> BY <2>1, <2>5, <2>6
       <2>8. SubSeq(data, 1, 1) = <<data[1]>>
          <3>1. PICK z \in Nat : z = 0 OBVIOUS
          <3>2. z + 1 <= Len(data) BY <1>5, <1>6, <3>1
          <3>3. SubSeq(data, z + 1, z + 1) = <<data[z + 1]>> BY <3>2, Cells
          <3>4. z + 1 = 1 BY <3>1
          <3> QED BY <3>3, <3>4
       <2> QED BY <1>5, <1>8, <2>1, <2>3, <2>7, <2>8
    <1>14. Len(target) = n
       <2>1. PICK four \in Nat : four = 4 OBVIOUS
       <2>2. 1 <= four /\ four <= m + 1 BY <1>10, <2>1
       <2>3. Len(SubSeq(data, four, m)) = m - four + 1 BY <1>10, <2>2, Part
       <2>4. m - four + 1 = n BY <1>8, <1>9, <2>1
       <2> QED BY <1>2, <1>9, <2>1, <2>3, <2>4
    <1>15. p.target = target /\ p.body = body BY <1>5
    <1>16. Len(target) <= MaxUint BY <1>1, <1>10, <1>14
    <1>17. makeUDPRequest(p) = <<udpRequest>> \o PutUint16(n) \o target \o body
           BY <1>5, <1>14, <1>15, <1>16 DEF makeUDPRequest
    <1> QED BY <1>4, <1>11, <1>12, <1>13, <1>17

\* An octet before two others.
LEMMA OneMore ==
    ASSUME NEW o \in Octet, NEW y \in Seq(Octet), Len(y) = 2
    PROVE  /\ <<o>> \o y \in Seq(Octet) /\ Len(<<o>> \o y) = 3
           /\ (<<o>> \o y)[1] = o /\ (<<o>> \o y)[2] = y[1] /\ (<<o>> \o y)[3] = y[2]
    <1>1. PICK u : u = <<o>> OBVIOUS
    <1>2. u \in Seq(Octet) /\ Len(u) = 1 /\ u[1] = o BY <1>1
    <1>3. PICK x : x = u \o y OBVIOUS
    <1>4. x \in Seq(Octet) BY <1>2, <1>3
    <1>5. GluedIn(Octet, u, y) BY <1>2, GlueFacts
    <1>6. /\ Len(x) = Len(u) + Len(y)
          /\ \A i \in 1..Len(u) : x[i] = u[i]
          /\ \A i \in 1..Len(y) : x[Len(u) + i] = y[i]
          BY <1>3, <1>5 DEF GluedIn
    <1>8. x[1] = u[1] BY <1>2, <1>6
    <1>9. x[2] = y[1] /\ x[3] = y[2]
       <2>1. 1 \in 1..Len(y) /\ 2 \in 1..Len(y) /\ Len(u) + 1 = 2 /\ Len(u) + 2 = 3 BY <1>2
       <2> QED BY <1>6, <2>1
    <1>10. Len(x) = 3 BY <1>2, <1>6
    <1> QED BY <1>1, <1>2, <1>3, <1>4, <1>8, <1>9, <1>10

\* A request of the relay that is made is parsed back: a target is not empty.
LEMMA UDPValue ==
    ASSUME NEW target \in Seq(Octet), NEW body \in Seq(Octet),
           NEW p, p = [target |-> target, body |-> body],
           NEW data, data = makeUDPRequest(p), data # Error
    PROVE  parseUDPRequest(data) = p
    <1>1. p.target = target /\ p.body = body OBVIOUS
    <1>2. /\ SplitHostPort(target) /\ Len(target) <= MaxUint
          /\ data = <<udpRequest>> \o PutUint16(Len(target)) \o target \o body
          BY <1>1 DEF makeUDPRequest
    <1>3. PICK n \in Nat : n = Len(target) BY LenProperties
    <1>4. PICK max \in Nat : max = MaxUint /\ max <= 65535 BY SizesAssumption
    <1>5. n <= 65535 BY <1>2, <1>3, <1>4
    <1>6. PICK y : y = PutUint16(n) OBVIOUS
    <1>7. y \in Seq(Octet) /\ Len(y) = 2 /\ GetUint16(y[1], y[2]) = n BY <1>5, <1>6, LengthFits
    <1>8. PICK x : x = <<udpRequest>> \o y OBVIOUS
    <1>9. x \in Seq(Octet) /\ Len(x) = 3 /\ x[1] = udpRequest /\ x[2] = y[1] /\ x[3] = y[2]
       <2>1. udpRequest \in Octet BY DEF udpRequest, Octet
       <2> QED BY <1>7, <1>8, <2>1, OneMore
    <1>10. Found(x, target, body) BY <1>9, Parts
    <1>11. data = Joined(x, target, body) BY <1>2, <1>3, <1>6, <1>8 DEF Joined
    <1>12. /\ Len(data) = 3 + n + Len(body)
           /\ data[1] = x[1] /\ data[2] = x[2] /\ data[3] = x[3]
           /\ SubSeq(data, 4, 3 + n) = target /\ From(data, 3 + n) = body
       <2>1. /\ Len(data) = Len(x) + Len(target) + Len(body)
             /\ \A i \in 1..Len(x) : data[i] = x[i]
             /\ SubSeq(data, Len(x) + 1, Len(x) + Len(target)) = target
             /\ From(data, Len(x) + Len(target)) = body
             BY <1>10, <1>11 DEF Found
       <2>2. Len(x) + 1 = 4 /\ Len(x) + Len(target) = 3 + n BY <1>3, <1>9
       <2>3. 1 \in 1..Len(x) /\ 2 \in 1..Len(x) /\ 3 \in 1..Len(x) BY <1>9
       <2> QED BY <2>1, <2>2, <2>3
    <1>13. n # 0
       <2>1. SUFFICES ASSUME n = 0 PROVE FALSE OBVIOUS
       <2>2. DOMAIN target = 1..0 BY <1>3, <2>1, LenProperties
       <2>3. {i \in DOMAIN target : target[i] = 58} = {}
          <3>1. \A i \in 1..0 : FALSE OBVIOUS
          <3> QED BY <2>2, <3>1
       <2>4. Cardinality({}) = 1 BY <1>2, <2>3 DEF SplitHostPort
       <2> QED BY <2>4, FS_EmptySet
    <1>14. PICK b \in Nat : b = Len(body) BY LenProperties
    <1>15. ~(Len(data) < 3) /\ ~(Len(data) < 3 + n) BY <1>12, <1>14
    <1>16. GetUint16(data[2], data[3]) = n /\ data[1] = udpRequest BY <1>7, <1>9, <1>12
    <1> QED BY <1>2, <1>12, <1>13, <1>15, <1>16 DEF parseUDPRequest

\* The fields of the outer header.
HeaderSet == [version : Nat, kind : Nat, flags : Nat, dcid : Nat, scid : Nat,
              packetNumber : Nat, payloadLength : Nat, reserved : Nat]

\* The nine cells of a header.
LEMMA HeaderCells ==
    ASSUME NEW h \in HeaderSet
    PROVE  /\ HeaderMarshal(h) \in Seq(Nat) /\ Len(HeaderMarshal(h)) = 9
           /\ parseHeaderPrefix(HeaderMarshal(h)) = h
    <1>1. PICK n \in Nat : n = h.payloadLength BY DEF HeaderSet
    <1>2. PICK high, low : high = n \div 256 /\ low = n % 256 OBVIOUS
    <1>3. /\ high \in Nat /\ low \in Octet
          /\ PutUint16(n) = <<high, low>> /\ GetUint16(high, low) = n
          BY <1>2, OctetsLength
    <1>4. low \in Nat BY <1>3, OctetsAreNumbers
    <1>5. PICK s : s = HeaderMarshal(h) OBVIOUS
    <1>6. s = <<h.version, h.kind, h.flags, h.dcid, h.scid, h.packetNumber, high, low, h.reserved>>
          BY <1>1, <1>3, <1>5 DEF HeaderMarshal
    <1>7. /\ h.version \in Nat /\ h.kind \in Nat /\ h.flags \in Nat /\ h.dcid \in Nat
          /\ h.scid \in Nat /\ h.packetNumber \in Nat /\ h.reserved \in Nat
          BY DEF HeaderSet
    <1>8. s \in Seq(Nat) /\ Len(s) = 9 BY <1>3, <1>4, <1>6, <1>7
    <1>9. /\ s[1] = h.version /\ s[2] = h.kind /\ s[3] = h.flags /\ s[4] = h.dcid /\ s[5] = h.scid
          /\ s[6] = h.packetNumber /\ s[7] = high /\ s[8] = low /\ s[9] = h.reserved
          BY <1>6
    <1>10. parseHeaderPrefix(s) =
              [version |-> h.version, kind |-> h.kind, flags |-> h.flags, dcid |-> h.dcid,
               scid |-> h.scid, packetNumber |-> h.packetNumber, payloadLength |-> n,
               reserved |-> h.reserved]
           BY <1>3, <1>9 DEF parseHeaderPrefix
    <1>11. h = [version |-> h.version, kind |-> h.kind, flags |-> h.flags, dcid |-> h.dcid,
                scid |-> h.scid, packetNumber |-> h.packetNumber, payloadLength |-> n,
                reserved |-> h.reserved]
           BY <1>1 DEF HeaderSet
    <1> QED BY <1>5, <1>8, <1>10, <1>11

\* The cells of a header, followed by a payload.
LEMMA PacketCells ==
    ASSUME NEW h \in HeaderSet, NEW payload \in Seq(Nat),
           NEW data, data = HeaderMarshal(h) \o payload
    PROVE  /\ data \in Seq(Nat) /\ Len(data) = 9 + Len(payload)
           /\ parseHeaderPrefix(data) = h /\ From(data, 9) = payload
    <1>1. PICK x : x = HeaderMarshal(h) OBVIOUS
    <1>2. x \in Seq(Nat) /\ Len(x) = 9 /\ parseHeaderPrefix(x) = h BY <1>1, HeaderCells
    <1>3. PICK S : S = Nat OBVIOUS
    <1>4. x \in Seq(S) /\ payload \in Seq(S) BY <1>2, <1>3
    <1>5. /\ x \o payload \in Seq(S) /\ Len(x \o payload) = Len(x) + Len(payload)
          /\ \A i \in 1..Len(x) : (x \o payload)[i] = x[i]
          /\ From(x \o payload, Len(x)) = payload
          BY <1>4, Glue
    <1>6. /\ data \in Seq(Nat) /\ Len(data) = 9 + Len(payload) /\ From(data, 9) = payload
          /\ \A i \in 1..9 : data[i] = x[i]
          BY <1>1, <1>2, <1>3, <1>5
    <1>7. /\ data[1] = x[1] /\ data[2] = x[2] /\ data[3] = x[3] /\ data[4] = x[4] /\ data[5] = x[5]
          /\ data[6] = x[6] /\ data[7] = x[7] /\ data[8] = x[8] /\ data[9] = x[9]
          BY <1>6
    <1>8. parseHeaderPrefix(data) = parseHeaderPrefix(x) BY <1>7 DEF parseHeaderPrefix
    <1> QED BY <1>2, <1>6, <1>8

\* A datagram that is marshalled is parsed back, its length filled in.
LEMMA PacketValue ==
    ASSUME NEW h \in HeaderSet, NEW payload \in Seq(Nat), NEW with \in Nat,
           NEW p, p = [header |-> h, payload |-> payload],
           NEW data, data = PacketMarshal(p, with), data # Error
    PROVE  ParsePacket(data, with) = [p EXCEPT !.header.payloadLength = Len(p.payload)]
    <1>1. p.header = h /\ p.payload = payload OBVIOUS
    <1>2. PICK n \in Nat : n = Len(payload) BY LenProperties
    <1>3. PICK header : header = [h EXCEPT !.payloadLength = n] OBVIOUS
    <1>4. header \in HeaderSet /\ header.payloadLength = n BY <1>3 DEF HeaderSet
    <1>5. PICK limit : limit = normalizeDatagramLimit(with) OBVIOUS
    <1>6. /\ limit # Error /\ HeaderSize + n <= limit
          /\ validateOuterPayload(header.kind, payload) /\ validate(header)
          /\ data = HeaderMarshal(header) \o payload
          BY <1>1, <1>2, <1>3, <1>5 DEF PacketMarshal
    <1>7. /\ data \in Seq(Nat) /\ Len(data) = 9 + Len(payload)
          /\ parseHeaderPrefix(data) = header /\ From(data, 9) = payload
          BY <1>4, <1>6, PacketCells
    <1>8. limit \in Nat
       <2>1. limit # Error BY <1>6
       <2> QED BY <1>5, <2>1, SizesAssumption DEF normalizeDatagramLimit
    <1>9. ~(Len(data) \notin HeaderSize..limit) /\ HeaderSize + header.payloadLength = Len(data)
          BY <1>2, <1>4, <1>6, <1>7, <1>8 DEF HeaderSize
    <1>10. ParsePacket(data, with) = [header |-> header, payload |-> payload]
           BY <1>5, <1>6, <1>7, <1>9 DEF ParsePacket, HeaderSize
    <1>11. [p EXCEPT !.header.payloadLength = Len(p.payload)] =
              [header |-> header, payload |-> payload]
           BY <1>1, <1>2, <1>3
    <1> QED BY <1>10, <1>11

\* A datagram that is accepted is the one its header and payload marshal to.
LEMMA PacketStream ==
    ASSUME NEW data \in Seq(Nat), NEW with \in Nat, ParsePacket(data, with) # Error,
           Len(data) >= 9 => data[8] \in Octet
    PROVE  PacketMarshal(ParsePacket(data, with), with) = data
    <1>1. PICK limit : limit = normalizeDatagramLimit(with) OBVIOUS
    <1>2. PICK header : header = parseHeaderPrefix(data) OBVIOUS
    <1>3. PICK payload : payload = From(data, 9) OBVIOUS
    <1>4. PICK p : p = ParsePacket(data, with) OBVIOUS
    <1>5. /\ limit # Error /\ Len(data) \in 9..limit /\ validate(header)
          /\ 9 + header.payloadLength = Len(data) /\ validateOuterPayload(header.kind, payload)
          /\ p = [header |-> header, payload |-> payload]
          BY <1>1, <1>2, <1>3, <1>4 DEF ParsePacket, HeaderSize
    <1>6. PICK len \in Nat : len = Len(data) BY LenProperties
    <1>7. PICK nine \in Nat : nine = 9 OBVIOUS
    <1>8. limit \in Nat BY <1>1, <1>5, SizesAssumption DEF normalizeDatagramLimit
    <1>9. nine <= Len(data) /\ len <= limit BY <1>5, <1>6, <1>7, <1>8
    <1>10. PICK S : S = Nat OBVIOUS
    <1>11. data \in Seq(S) BY <1>10
    <1>12. /\ SubSeq(data, 1, nine) \in Seq(S) /\ Len(SubSeq(data, 1, nine)) = nine
           /\ \A i \in 1..nine : SubSeq(data, 1, nine)[i] = data[i]
           /\ payload \in Seq(S) /\ Len(payload) = Len(data) - nine
           /\ SubSeq(data, 1, nine) \o payload = data
       <2>1. CutIn(S, data, nine) BY <1>9, <1>11, CutFacts
       <2> QED BY <1>3, <1>7, <2>1 DEF CutIn
    <1>13. PICK n \in Nat : n = Len(payload) /\ len = 9 + n
       <2>1. PICK n \in Nat : n = Len(payload) BY <1>12, LenProperties
       <2>2. n = len - 9 BY <1>6, <1>7, <1>12, <2>1
       <2>3. len = 9 + n BY <2>2
       <2> QED BY <2>1, <2>3
    <1>14. /\ header.version = data[1] /\ header.kind = data[2] /\ header.flags = data[3]
           /\ header.dcid = data[4] /\ header.scid = data[5] /\ header.packetNumber = data[6]
           /\ header.payloadLength = GetUint16(data[7], data[8]) /\ header.reserved = data[9]
           BY <1>2 DEF parseHeaderPrefix
    <1>15. \A i \in 1..9 : data[i] \in Nat BY <1>6, <1>7, <1>9
    <1>16. data[7] \in Nat /\ data[8] \in Octet
       <2>1. Len(data) >= 9 BY <1>7, <1>9
       <2> QED BY <1>15, <2>1
    <1>17. GetUint16(data[7], data[8]) \in Nat /\
           PutUint16(GetUint16(data[7], data[8])) = <<data[7], data[8]>> BY <1>16, LengthOctets
    <1>18. header.payloadLength = n BY <1>5, <1>6, <1>13, <1>14, <1>17
    <1>19. [header EXCEPT !.payloadLength = n] = header BY <1>2, <1>18 DEF parseHeaderPrefix
    <1>20. HeaderMarshal(header) = <<data[1], data[2], data[3], data[4], data[5], data[6],
                                     data[7], data[8], data[9]>>
           BY <1>14, <1>17 DEF HeaderMarshal
    <1>21. HeaderMarshal(header) = SubSeq(data, 1, nine)
       <2>1. PICK t : t = HeaderMarshal(header) OBVIOUS
       <2>2. t \in Seq(S) /\ Len(t) = nine BY <1>7, <1>10, <1>15, <1>20, <2>1
       <2>3. \A i \in 1..nine : t[i] = data[i]
          <3>1. ASSUME NEW i \in 1..9
                PROVE  i = 1 \/ i = 2 \/ i = 3 \/ i = 4 \/ i = 5 \/ i = 6 \/ i = 7 \/ i = 8 \/ i = 9
                OBVIOUS
          <3>2. /\ t[1] = data[1] /\ t[2] = data[2] /\ t[3] = data[3] /\ t[4] = data[4]
                /\ t[5] = data[5] /\ t[6] = data[6] /\ t[7] = data[7] /\ t[8] = data[8]
                /\ t[9] = data[9]
                BY <1>20, <2>1
          <3> QED BY <1>7, <3>1, <3>2
       <2>4. \A i \in 1..nine : t[i] = SubSeq(data, 1, nine)[i] BY <1>12, <2>3
       <2> QED BY <1>12, <2>1, <2>2, <2>4, SeqEqual
    <1>22. p.header = header /\ p.payload = payload BY <1>5
    <1>23. Len(payload) <= MaxUint BY <1>5 DEF validateOuterPayload
    <1>24. HeaderSize + Len(payload) <= limit BY <1>8, <1>9, <1>13 DEF HeaderSize
    <1>25. PacketMarshal(p, with) = HeaderMarshal(header) \o payload
           BY <1>1, <1>5, <1>13, <1>19, <1>22, <1>23, <1>24 DEF PacketMarshal
    <1> QED BY <1>4, <1>12, <1>21, <1>25

\* The samples of the codec.
StreamOf(of, with, data) == [form |-> "stream", of |-> of, with |-> with, data |-> data]
ValueOf(of, with, value) == [form |-> "value", of |-> of, with |-> with, value |-> value]

\* ParseInitial and ParseHandshake accept one encoding of a payload only,
\* the one that the marshaller emits: for every stream and all sizes.
THEOREM PayloadStreamUnique ==
    ASSUME NEW of \in {"initial", "handshake"}, NEW with, NEW data \in Seq(Octet)
    PROVE  StreamUnique(StreamOf(of, with, data))
    <1>1. CASE of = "initial"
       <2>1. ParseInitial(data) = Error \/ data = InitialMarshal(ParseInitial(data)) BY InitialStream
       <2> QED BY <1>1, <2>1 DEF StreamUnique, StreamOf
    <1>2. CASE of = "handshake"
       <2>1. ParseHandshake(data) = Error \/ data = HandshakeMarshal(ParseHandshake(data))
             BY HandshakeStream
       <2> QED BY <1>2, <2>1 DEF StreamUnique, StreamOf
    <1> QED BY <1>1, <1>2

\* So does ParsePacket, under every limit; of the header only the low half of
\* the length needs to be an octet.
THEOREM DatagramStreamUnique ==
    ASSUME NEW with \in Nat, NEW data \in Seq(Nat), Len(data) >= 9 => data[8] \in Octet
    PROVE  StreamUnique(StreamOf("packet", with, data))
    <1>1. \/ ParsePacket(data, with) = Error
          \/ data = PacketMarshal(ParsePacket(data, with), with)
          BY PacketStream
    <1> QED BY <1>1 DEF StreamUnique, StreamOf

\* So does parseUDPRequest, for a length that is not above math.MaxUint16.
THEOREM RelayStreamUnique ==
    ASSUME NEW with, NEW data \in Seq(Octet),
           Len(data) >= 3 => GetUint16(data[2], data[3]) <= MaxUint
    PROVE  StreamUnique(StreamOf("udp", with, data))
    <1>1. parseUDPRequest(data) = Error \/ data = makeUDPRequest(parseUDPRequest(data)) BY UDPStream
    <1> QED BY <1>1 DEF StreamUnique, StreamOf

\* Every payload that InitialPayload.Marshal accepts, with a key of the size
\* that its type fixes, is what ParseInitial makes of it.
THEOREM PayloadSurvives ==
    ASSUME NEW with, NEW token \in Seq(Octet), NEW key \in Seq(Octet), NEW encrypted \in Seq(Octet),
           Len(key) = EphemeralPublicKeySize
    PROVE  ValueSurvives(ValueOf("initial", with,
               [token |-> token, key |-> key, encrypted |-> encrypted]))
    <1>1. PICK p : p = [token |-> token, key |-> key, encrypted |-> encrypted] OBVIOUS
    <1>2. InitialMarshal(p) # Error => ParseInitial(InitialMarshal(p)) = p BY <1>1, InitialValue
    <1>3. ValueSurvives(ValueOf("initial", with, p)) BY <1>2 DEF ValueSurvives, ValueOf
    <1> QED BY <1>1, <1>3

\* Every datagram that Packet.Marshal accepts is what ParsePacket makes of it
\* under the same limit, whatever length the caller had put in the header.
THEOREM DatagramSurvives ==
    ASSUME NEW with \in Nat, NEW h \in HeaderSet, NEW payload \in Seq(Nat)
    PROVE  ValueSurvives(ValueOf("packet", with, [header |-> h, payload |-> payload]))
    <1>1. PICK p : p = [header |-> h, payload |-> payload] OBVIOUS
    <1>2. PacketMarshal(p, with) # Error =>
             ParsePacket(PacketMarshal(p, with), with) =
                 [p EXCEPT !.header.payloadLength = Len(p.payload)]
          BY <1>1, PacketValue
    <1>3. ValueSurvives(ValueOf("packet", with, p)) BY <1>2 DEF ValueSurvives, ValueOf
    <1> QED BY <1>1, <1>3

\* Every target and body that makeUDPRequest accepts are what parseUDPRequest
\* makes of the request.
THEOREM RelaySurvives ==
    ASSUME NEW with, NEW target \in Seq(Octet), NEW body \in Seq(Octet)
    PROVE  ValueSurvives(ValueOf("udp", with, [target |-> target, body |-> body]))
    <1>1. PICK p : p = [target |-> target, body |-> body] OBVIOUS
    <1>2. makeUDPRequest(p) # Error => parseUDPRequest(makeUDPRequest(p)) = p BY <1>1, UDPValue
    <1>3. ValueSurvives(ValueOf("udp", with, p)) BY <1>2 DEF ValueSurvives, ValueOf
    <1> QED BY <1>1, <1>3

-----------------------------------------------------------------------------
(* Streams of items: FlattenSeq and Items, unfolded.                       *)

\* The streams that FlattenSeq goes through.
Flattens(f, seqs, n) ==
    f = [i \in 1..n |-> IF i = 1 THEN seqs[i] ELSE f[i - 1] \o seqs[i]]
Growing(g, seqs) ==
    /\ g \in [0..Len(seqs) -> Seq(Octet)] /\ g[0] = <<>>
    /\ \A i \in 1..Len(seqs) : g[i] = g[i - 1] \o seqs[i]

\* There are such streams for any number of parts.
LEMMA FlattensExists ==
    ASSUME NEW seqs, NEW k \in Nat
    PROVE  \E f : Flattens(f, seqs, k)
    <1> DEFINE T == {n \in Nat : ~ \E f : Flattens(f, seqs, n)}
    <1>1. SUFFICES ASSUME T # {} PROVE FALSE OBVIOUS
    <1>2. PICK n \in T : \A m \in T : n <= m BY <1>1, Least
    <1>3. CASE n = 0
       <2>1. Flattens([i \in 1..0 |-> i], seqs, 0) BY DEF Flattens
       <2> QED BY <1>3, <2>1
    <1>4. CASE n # 0
       <2>1. n - 1 \in Nat /\ n - 1 \notin T BY <1>2, <1>4
       <2>2. PICK f : Flattens(f, seqs, n - 1) BY <2>1
       <2> DEFINE g == [i \in 1..n |-> IF i = n THEN (IF i = 1 THEN seqs[i] ELSE f[i - 1] \o seqs[i])
                                       ELSE f[i]]
       <2>3. g = [i \in 1..n |-> IF i = 1 THEN seqs[i] ELSE g[i - 1] \o seqs[i]]
          <3>1. ASSUME NEW i \in 1..n
                PROVE  g[i] = IF i = 1 THEN seqs[i] ELSE g[i - 1] \o seqs[i]
             <4>1. i # 1 => i - 1 \in 1..n /\ i - 1 # n OBVIOUS
             <4>2. CASE i = n BY <4>1, <4>2
             <4>3. CASE i # n
                <5>1. i \in 1..(n - 1) BY <4>3
                <5>2. f[i] = IF i = 1 THEN seqs[i] ELSE f[i - 1] \o seqs[i]
                      BY <2>2, <5>1 DEF Flattens
                <5> QED BY <4>1, <4>3, <5>2
             <4> QED BY <4>2, <4>3
          <3> QED BY <3>1
       <2>4. Flattens(g, seqs, n) BY <2>3 DEF Flattens
       <2> QED BY <2>4
    <1> QED BY <1>3, <1>4

\* FlattenSeq is the last of a row of streams that each extend the one before.
LEMMA FlattenFacts ==
    ASSUME NEW seqs \in Seq(Seq(Octet))
    PROVE  \E g : Growing(g, seqs) /\ FlattenSeq(seqs) = g[Len(seqs)]
    <1>1. PICK n \in Nat : n = Len(seqs) BY LenProperties
    <1>2. CASE n = 0
       <2>1. seqs = <<>> BY <1>1, <1>2, EmptySeq
       <2>2. FlattenSeq(seqs) = <<>> BY <1>1, <1>2, <2>1 DEF FlattenSeq
       <2> DEFINE g == [i \in 0..0 |-> <<>>]
       <2>3. <<>> \in Seq(Octet) BY EmptySeq
       <2>4. g \in [0..0 -> Seq(Octet)] /\ g[0] = <<>> BY <2>3
       <2> HIDE DEF g
       <2>5. \A i \in 1..0 : FALSE OBVIOUS
       <2>6. Growing(g, seqs) BY <1>1, <1>2, <2>4, <2>5 DEF Growing
       <2> QED BY <1>1, <1>2, <2>2, <2>4, <2>6
    <1>3. CASE n # 0
       <2> DEFINE f == CHOOSE h : Flattens(h, seqs, n)
       <2>1. Flattens(f, seqs, n) BY FlattensExists
       <2>2. FlattenSeq(seqs) = f[n] BY <1>1, <1>3 DEF FlattenSeq, Flattens
       <2> HIDE DEF f
       <2>3. f[1] = seqs[1] /\ \A i \in 2..n : f[i] = f[i - 1] \o seqs[i]
          <3>1. ASSUME NEW i \in 1..n PROVE f[i] = IF i = 1 THEN seqs[i] ELSE f[i - 1] \o seqs[i]
                BY <2>1 DEF Flattens
          <3>2. 1 \in 1..n BY <1>3
          <3>3. ASSUME NEW i \in 2..n PROVE i \in 1..n /\ i # 1 OBVIOUS
          <3> QED BY <3>1, <3>2, <3>3
       <2>4. \A i \in 1..n : seqs[i] \in Seq(Octet) BY <1>1
       <2>5. \A i \in 1..n : f[i] \in Seq(Octet)
          <3> DEFINE T == {i \in Nat : i \in 1..n /\ f[i] \notin Seq(Octet)}
          <3>1. SUFFICES ASSUME T # {} PROVE FALSE OBVIOUS
          <3>2. PICK i \in T : \A m \in T : i <= m BY <3>1, Least
          <3>3. CASE i = 1 BY <2>3, <2>4, <3>3
          <3>4. CASE i # 1
             <4>1. i - 1 \in Nat /\ i - 1 \notin T /\ i \in 2..n /\ i - 1 \in 1..n BY <3>2, <3>4
             <4>2. f[i - 1] \in Seq(Octet) /\ seqs[i] \in Seq(Octet) BY <2>4, <4>1
             <4>3. f[i - 1] \o seqs[i] \in Seq(Octet) BY <4>2
             <4> QED BY <2>3, <4>1, <4>3
          <3> QED BY <3>3, <3>4
       <2> DEFINE g == [i \in 0..n |-> IF i = 0 THEN <<>> ELSE f[i]]
       <2>6. g \in [0..n -> Seq(Octet)] BY <2>5
       <2>7. ASSUME NEW i \in 1..n PROVE g[i] = g[i - 1] \o seqs[i]
          <3>1. g[i] = f[i] OBVIOUS
          <3>2. CASE i = 1
             <4>1. seqs[1] = <<>> \o seqs[1] BY <2>4, <3>2, ConcatEmptySeq
             <4>2. g[i - 1] = <<>> BY <3>2
             <4> HIDE DEF g
             <4> QED BY <2>3, <3>1, <3>2, <4>1, <4>2
          <3>3. CASE i # 1
             <4>1. i \in 2..n BY <3>3
             <4>2. g[i - 1] = f[i - 1] BY <4>1
             <4> HIDE DEF g
             <4> QED BY <2>3, <3>1, <4>1, <4>2
          <3> QED BY <3>2, <3>3
       <2>8. Growing(g, seqs)
          <3>1. g[0] = <<>> OBVIOUS
          <3>2. \A i \in 1..n : g[i] = g[i - 1] \o seqs[i] BY <2>7
          <3> HIDE DEF g
          <3> QED BY <1>1, <2>6, <3>1, <3>2, Zenon DEF Growing
       <2>9. FlattenSeq(seqs) = g[Len(seqs)] BY <1>1, <1>3, <2>2
       <2> QED BY <2>8, <2>9
    <1> QED BY <1>2, <1>3

-----------------------------------------------------------------------------

\* One round of the loop that Items stands for.
Round(f, data, h, offset) ==
    IF offset = Len(data) THEN <<>>
    ELSE IF \/ offset + h > Len(data)
            \/ ItemEnd(data, h, offset) > Len(data) THEN Error
    ELSE Prepend(ItemAt(data, h, offset), f[ItemEnd(data, h, offset)])
ReadsFrom(f, data, h, k) == f = [offset \in k..Len(data) |-> Round(f, data, h, offset)]

\* Items is the row of such rounds.
LEMMA ItemsAreReads ==
    ASSUME NEW data, NEW h
    PROVE  Items(data, h) = (CHOOSE f : ReadsFrom(f, data, h, 0))[0]
    BY Zenon DEF Items, ReadsFrom, Round, ItemAt, ItemEnd

\* What a round needs to know of the later ones.
LEMMA SameRound ==
    ASSUME NEW f, NEW g, NEW data, NEW h, NEW offset,
           offset # Len(data) /\ ~(offset + h > Len(data)) /\ ~(ItemEnd(data, h, offset) > Len(data))
              => f[ItemEnd(data, h, offset)] = g[ItemEnd(data, h, offset)]
    PROVE  Round(f, data, h, offset) = Round(g, data, h, offset)
    BY DEF Round, Prepend

\* An item ends after it begins.
LEMMA EndsLater ==
    ASSUME NEW data \in Seq(Octet), NEW h \in Nat, h >= 2, NEW offset \in Nat,
           offset + h <= Len(data)
    PROVE  ItemEnd(data, h, offset) \in Nat /\ ItemEnd(data, h, offset) >= offset + h
    <1>1. PICK len \in Nat : len = Len(data) BY LenProperties
    <1>2. PICK a \in Nat : a = offset + h - 1 OBVIOUS
    <1>3. PICK b \in Nat : b = offset + h OBVIOUS
    <1>4. a \in 1..Len(data) /\ b \in 1..Len(data) BY <1>1, <1>2, <1>3
    <1>5. data[a] \in Octet /\ data[b] \in Octet BY <1>4, ElementOfSeq
    <1>6. GetUint16(data[a], data[b]) \in Nat BY <1>5, LengthOctets, OctetsAreNumbers
    <1>7. ItemEnd(data, h, offset) = b + GetUint16(data[a], data[b]) BY <1>2, <1>3 DEF ItemEnd
    <1> QED BY <1>3, <1>6, <1>7

\* The loop has an outcome from every offset.
LEMMA ReadsExists ==
    ASSUME NEW data \in Seq(Octet), NEW h \in Nat, h >= 2
    PROVE  \E f : ReadsFrom(f, data, h, 0)
    <1>1. PICK len \in Nat : len = Len(data) BY LenProperties
    <1> DEFINE T == {n \in Nat : n <= len /\ ~ \E f : ReadsFrom(f, data, h, len - n)}
    <1>2. SUFFICES ASSUME T # {} PROVE FALSE
       <2>1. len \in Nat /\ len <= len /\ len - len = 0 OBVIOUS
       <2> QED BY <2>1
    <1>3. PICK n \in T : \A m \in T : n <= m BY <1>2, Least
    <1>4. CASE n = 0
       <2> DEFINE f == [offset \in len..len |-> <<>>]
       <2>1. ASSUME NEW offset \in len..len PROVE Round(f, data, h, offset) = <<>>
          <3>1. offset = Len(data) BY <1>1
          <3> QED BY <3>1 DEF Round, Prepend
       <2>2. f = [offset \in len..len |-> Round(f, data, h, offset)] BY <2>1
       <2>3. len - n = len BY <1>4
       <2>4. ReadsFrom(f, data, h, len - n) BY <1>1, <2>2, <2>3 DEF ReadsFrom
       <2> QED BY <2>4
    <1>5. CASE n # 0
       <2>1. n \in Nat /\ n <= len BY <1>3
       <2>2. PICK m \in Nat : m = n - 1 /\ m < n /\ m <= len BY <1>5, <2>1
       <2>12. m \notin T
          <3>1. SUFFICES ASSUME m \in T PROVE FALSE OBVIOUS
          <3> HIDE DEF T
          <3>2. n <= m BY <1>3, <3>1
          <3> QED BY <2>1, <2>2, <3>2
       <2>3. PICK f : ReadsFrom(f, data, h, len - (n - 1)) BY <2>2, <2>12
       <2>4. PICK k \in Nat : k = len - n BY <2>1
       <2>5. len - (n - 1) = k + 1 /\ k <= len /\ k # len BY <1>5, <2>1, <2>4
       <2> DEFINE g == [offset \in k..len |-> IF offset = k THEN Round(f, data, h, k) ELSE f[offset]]
       <2>6. \A offset \in (k + 1)..len : g[offset] = f[offset] BY <2>5
       <2>7. ASSUME NEW offset \in k..len
             PROVE  Round(g, data, h, offset) = Round(f, data, h, offset)
          <3>1. ASSUME ~(offset + h > Len(data)), ~(ItemEnd(data, h, offset) > Len(data))
                PROVE  g[ItemEnd(data, h, offset)] = f[ItemEnd(data, h, offset)]
             <4>1. offset + h <= Len(data) BY <1>1, <3>1
             <4>2. offset \in Nat OBVIOUS
             <4>3. ItemEnd(data, h, offset) \in Nat /\ ItemEnd(data, h, offset) >= offset + h
                   BY <4>1, <4>2, EndsLater
             <4>4. ItemEnd(data, h, offset) \in (k + 1)..len BY <1>1, <3>1, <4>3
             <4> QED BY <2>6, <4>4
          <3> HIDE DEF g
          <3> QED BY <3>1, SameRound
       <2>8. ASSUME NEW offset \in k..len PROVE g[offset] = Round(f, data, h, offset)
          <3>1. CASE offset = k BY <3>1
          <3>2. CASE offset # k
             <4>1. offset \in (k + 1)..len BY <3>2
             <4>2. f[offset] = Round(f, data, h, offset) BY <1>1, <2>3, <2>5, <4>1 DEF ReadsFrom
             <4> QED BY <2>6, <4>1, <4>2
          <3> QED BY <3>1, <3>2
       <2>9. g = [offset \in k..len |-> g[offset]] OBVIOUS
       <2> HIDE DEF g
       <2>10. g = [offset \in k..len |-> Round(g, data, h, offset)] BY <2>7, <2>8, <2>9
       <2>11. ReadsFrom(g, data, h, len - n) BY <1>1, <2>4, <2>10 DEF ReadsFrom
       <2> QED BY <2>11
    <1> QED BY <1>4, <1>5

\* The items of a stream.
ItemSet(h) ==
    {item \in [head : Seq(Octet), body : Seq(Octet)] :
        Len(item.head) = h /\ GetUint16(item.head[h - 1], item.head[h]) = Len(item.body)}
Loop(f, data, h) ==
    /\ f[Len(data)] = <<>>
    /\ \A offset \in 0..(Len(data) - 1) :
          \/ f[offset] = Error
             /\ (offset + h <= Len(data) /\ ItemEnd(data, h, offset) <= Len(data)
                    => f[ItemEnd(data, h, offset)] = Error)
          \/ /\ offset + h <= Len(data)
             /\ ItemEnd(data, h, offset) \in (offset + h)..Len(data)
             /\ f[ItemEnd(data, h, offset)] # Error
             /\ f[offset] = <<ItemAt(data, h, offset)>> \o f[ItemEnd(data, h, offset)]

\* What Items reads at every offset that it reaches.
LEMMA ItemsLoop ==
    ASSUME NEW data \in Seq(Octet), NEW h \in Nat, h >= 2
    PROVE  \E f : Loop(f, data, h) /\ Items(data, h) = f[0]
    <1>1. PICK len \in Nat : len = Len(data) BY LenProperties
    <1> DEFINE f == CHOOSE g : ReadsFrom(g, data, h, 0)
    <1>2. ReadsFrom(f, data, h, 0) BY ReadsExists
    <1>3. Items(data, h) = f[0] BY ItemsAreReads
    <1> HIDE DEF f
    <1>4. \A offset \in 0..len : f[offset] = Round(f, data, h, offset) BY <1>1, <1>2 DEF ReadsFrom
    <1>5. f[len] = <<>>
       <2>1. len \in 0..len OBVIOUS
       <2>2. Round(f, data, h, len) = <<>> BY <1>1 DEF Round, Prepend
       <2> QED BY <1>4, <2>1, <2>2
    <1>6. ASSUME NEW offset \in 0..(len - 1)
          PROVE  \/ f[offset] = Error
                    /\ (offset + h <= len /\ ItemEnd(data, h, offset) <= len
                           => f[ItemEnd(data, h, offset)] = Error)
                 \/ /\ offset + h <= len
                    /\ ItemEnd(data, h, offset) \in (offset + h)..len
                    /\ f[ItemEnd(data, h, offset)] # Error
                    /\ f[offset] = <<ItemAt(data, h, offset)>> \o f[ItemEnd(data, h, offset)]
       <2>1. offset # len /\ offset \in 0..len /\ offset \in Nat OBVIOUS
       <2>2. f[offset] = Round(f, data, h, offset) BY <1>4, <2>1
       <2>3. CASE offset + h > len BY <1>1, <2>1, <2>2, <2>3 DEF Round, Prepend
       <2>4. CASE offset + h <= len
          <3>1. ItemEnd(data, h, offset) \in Nat /\ ItemEnd(data, h, offset) >= offset + h
                BY <1>1, <2>1, <2>4, EndsLater
          <3>2. CASE ItemEnd(data, h, offset) > len BY <1>1, <2>1, <2>2, <2>4, <3>1, <3>2 DEF Round, Prepend
          <3>3. CASE ItemEnd(data, h, offset) <= len /\ f[ItemEnd(data, h, offset)] = Error
                BY <1>1, <2>1, <2>2, <2>4, <3>1, <3>3 DEF Round, Prepend
          <3>4. CASE ItemEnd(data, h, offset) <= len /\ f[ItemEnd(data, h, offset)] # Error
             <4>1. f[offset] = <<ItemAt(data, h, offset)>> \o f[ItemEnd(data, h, offset)]
                   BY <1>1, <2>1, <2>2, <2>4, <3>1, <3>4 DEF Round, Prepend
             <4>2. ItemEnd(data, h, offset) \in (offset + h)..len BY <2>1, <3>1, <3>4
             <4> QED BY <2>4, <3>4, <4>1, <4>2
          <3> QED BY <3>1, <3>2, <3>3, <3>4
       <2> QED BY <2>3, <2>4
    <1>7. Loop(f, data, h) BY <1>1, <1>5, <1>6 DEF Loop
    <1> QED BY <1>3, <1>7

\* What an item holds is what the stream has there.
LEMMA ItemAtFacts ==
    ASSUME NEW data \in Seq(Octet), NEW h \in Nat, h >= 2, NEW offset \in Nat,
           offset + h <= Len(data), ItemEnd(data, h, offset) <= Len(data)
    PROVE  /\ ItemAt(data, h, offset) \in ItemSet(h)
           /\ ItemAt(data, h, offset).head \o ItemAt(data, h, offset).body =
                 SubSeq(data, offset + 1, ItemEnd(data, h, offset))
    <1>1. PICK len \in Nat : len = Len(data) BY LenProperties
    <1>2. PICK start \in Nat : start = offset + h OBVIOUS
    <1>3. PICK end \in Nat : end = ItemEnd(data, h, offset) /\ end >= start /\ end <= len
       <2>1. ItemEnd(data, h, offset) \in Nat /\ ItemEnd(data, h, offset) >= offset + h BY EndsLater
       <2> QED BY <1>1, <1>2, <2>1
    <1>4. PICK a \in Nat : a = offset + 1 OBVIOUS
    <1>5. PICK b \in Nat : b = start + 1 OBVIOUS
    <1>6. PICK head : head = SubSeq(data, a, start) OBVIOUS
    <1>7. PICK body : body = SubSeq(data, b, end) OBVIOUS
    <1>8. /\ head \in Seq(Octet) /\ Len(head) = start - a + 1
          /\ \A i \in 1..(start - a + 1) : head[i] = data[a + i - 1]
       <2>1. 1 <= a /\ a <= start + 1 /\ start <= Len(data) BY <1>1, <1>2, <1>3, <1>4
       <2> QED BY <1>6, <2>1, Part
    <1>9. body \in Seq(Octet) /\ Len(body) = end - b + 1
       <2>1. 1 <= b /\ b <= end + 1 /\ end <= Len(data) BY <1>1, <1>3, <1>5
       <2> QED BY <1>7, <2>1, Part
    <1>10. start - a + 1 = h /\ end - b + 1 = end - start BY <1>2, <1>4, <1>5
    <1>11. Len(head) = h BY <1>8, <1>10
    <1>12. head[h - 1] = data[start - 1] /\ head[h] = data[start]
       <2>1. h - 1 \in 1..h /\ h \in 1..h /\ a + (h - 1) - 1 = start - 1 /\ a + h - 1 = start
             BY <1>2, <1>4
       <2>2. head[h - 1] = data[a + (h - 1) - 1] BY <1>8, <1>10, <2>1
       <2>3. head[h] = data[a + h - 1] BY <1>8, <1>10, <2>1
       <2> QED BY <2>1, <2>2, <2>3
    <1>13. end = start + GetUint16(data[start - 1], data[start]) BY <1>2, <1>3 DEF ItemEnd
    <1>14. GetUint16(data[start - 1], data[start]) \in Nat
       <2>1. PICK c \in Nat : c = start - 1 BY <1>2
       <2>2. c \in 1..Len(data) /\ start \in 1..Len(data) BY <1>1, <1>2, <1>3, <2>1
       <2>3. data[c] \in Octet /\ data[start] \in Octet BY <2>2, ElementOfSeq
       <2> QED BY <2>1, <2>3, LengthOctets, OctetsAreNumbers
    <1>15. GetUint16(head[h - 1], head[h]) = Len(body)
       <2>1. Len(body) = end - start BY <1>9, <1>10
       <2>2. end - start = GetUint16(data[start - 1], data[start]) BY <1>13, <1>14
       <2> QED BY <1>12, <2>1, <2>2
    <1>16. PICK item : item = [head |-> head, body |-> body] OBVIOUS
    <1>17. item.head = head /\ item.body = body BY <1>16
    <1>18. item \in ItemSet(h) BY <1>8, <1>9, <1>11, <1>15, <1>16, <1>17 DEF ItemSet
    <1>19. ItemAt(data, h, offset) = item
           BY <1>2, <1>3, <1>4, <1>5, <1>6, <1>7, <1>16 DEF ItemAt
    <1>20. head \o body = SubSeq(data, a, end)
       <2>1. 1 <= a /\ a <= Len(data) + 1 /\ start >= a - 1 /\ start <= Len(data)
             /\ end >= start /\ end <= Len(data)
             BY <1>1, <1>2, <1>3, <1>4
       <2>2. a \in 1..(Len(data) + 1) /\ start \in (a - 1)..Len(data) /\ end \in start..Len(data)
             BY <1>1, <2>1
       <2> QED BY <1>5, <1>6, <1>7, <2>2, ConcatAdjacentSubSeq
    <1> QED BY <1>3, <1>4, <1>17, <1>18, <1>19, <1>20

\* Every outcome of the loop is an error or a sequence of items.
LEMMA ItemsTyped ==
    ASSUME NEW data \in Seq(Octet), NEW h \in Nat, h >= 2, NEW f, Loop(f, data, h)
    PROVE  \A offset \in 0..Len(data) : f[offset] = Error \/ f[offset] \in Seq(ItemSet(h))
    <1>1. PICK len \in Nat : len = Len(data) BY LenProperties
    <1> DEFINE T == {n \in Nat : n <= len /\ f[len - n] # Error /\ f[len - n] \notin Seq(ItemSet(h))}
    <1>2. SUFFICES ASSUME T # {} PROVE FALSE
       <2>1. ASSUME NEW offset \in 0..len PROVE f[offset] = Error \/ f[offset] \in Seq(ItemSet(h))
          <3>1. len - offset \in Nat /\ len - offset <= len /\ len - (len - offset) = offset OBVIOUS
          <3> QED BY <3>1
       <2> QED BY <1>1, <2>1
    <1>3. PICK n \in T : \A m \in T : n <= m BY <1>2, Least
    <1>4. n # 0
       <2>1. f[len] = <<>> BY <1>1 DEF Loop
       <2>2. <<>> \in Seq(ItemSet(h)) BY EmptySeq
       <2>3. n = 0 => len - n = len OBVIOUS
       <2> QED BY <1>3, <2>1, <2>2, <2>3
    <1>5. PICK o \in Nat : o = len - n /\ o \in 0..(len - 1) BY <1>3, <1>4
    <1>6. /\ o + h <= len /\ ItemEnd(data, h, o) \in (o + h)..len
          /\ f[ItemEnd(data, h, o)] # Error
          /\ f[o] = <<ItemAt(data, h, o)>> \o f[ItemEnd(data, h, o)]
       <2>1. f[o] # Error BY <1>3, <1>5
       <2> QED BY <1>1, <1>5, <2>1 DEF Loop
    <1>7. PICK e \in Nat : e = ItemEnd(data, h, o) /\ o + h <= e /\ e <= len BY <1>6
    <1>8. f[e] \in Seq(ItemSet(h))
       <2>1. len - e \in Nat /\ len - e < n /\ len - (len - e) = e /\ len - e <= len BY <1>5, <1>7
       <2>2. PICK m \in Nat : m = len - e /\ n \in Nat BY <1>3, <2>1
       <2>3. m \notin T
          <3>1. SUFFICES ASSUME m \in T PROVE FALSE OBVIOUS
          <3> HIDE DEF T
          <3>2. n <= m BY <1>3, <3>1
          <3> QED BY <2>1, <2>2, <3>2
       <2> QED BY <1>6, <1>7, <2>1, <2>2, <2>3
    <1>9. ItemAt(data, h, o) \in ItemSet(h) BY <1>1, <1>6, <1>7, ItemAtFacts
    <1>10. PICK item \in ItemSet(h) : item = ItemAt(data, h, o) BY <1>9
    <1>11. <<item>> \o f[e] \in Seq(ItemSet(h)) BY <1>8
    <1> QED BY <1>3, <1>5, <1>6, <1>7, <1>10, <1>11

\* s is what xs has after its first i elements.
Rest(S, s, xs, i) ==
    /\ s \in Seq(S) /\ Len(s) = Len(xs) - i
    /\ \A k \in 1..Len(s) : s[k] = xs[i + k]

\* The first of what is left, and the rest.
LEMMA RestCons ==
    ASSUME NEW S, NEW xs \in Seq(S), NEW i \in 0..Len(xs), NEW a \in S, NEW t \in Seq(S),
           NEW j, j = i + 1
    PROVE  /\ Rest(S, <<a>> \o t, xs, i) => i < Len(xs) /\ a = xs[j] /\ Rest(S, t, xs, j)
           /\ i < Len(xs) /\ a = xs[j] /\ Rest(S, t, xs, j) => Rest(S, <<a>> \o t, xs, i)
    <1>1. PICK x : x = <<a>> \o t OBVIOUS
    <1>2. PICK n \in Nat : n = Len(xs) BY LenProperties
    <1>3. PICK m \in Nat : m = Len(t) BY LenProperties
    <1>4. x \in Seq(S) /\ Len(x) = m + 1 /\ x[1] = a BY <1>1, <1>3
    <1>5. ASSUME NEW k \in 1..m PROVE x[k + 1] = t[k] BY <1>1, <1>3
    <1>6. ASSUME Rest(S, x, xs, i) PROVE i < n /\ a = xs[j] /\ Rest(S, t, xs, j)
       <2>1. m + 1 = n - i BY <1>2, <1>4, <1>6 DEF Rest
       <2>2. \A k \in 1..(m + 1) : x[k] = xs[i + k] BY <1>4, <1>6 DEF Rest
       <2>3. x[1] = xs[i + 1] BY <2>2
       <2>4. ASSUME NEW k \in 1..m PROVE t[k] = xs[j + k]
          <3>1. k + 1 \in 1..(m + 1) /\ i + (k + 1) = j + k OBVIOUS
          <3>2. x[k + 1] = xs[i + (k + 1)] BY <2>2, <3>1
          <3> QED BY <1>5, <3>1, <3>2
       <2>5. m = n - j /\ i < n BY <2>1
       <2> QED BY <1>2, <1>3, <1>4, <2>3, <2>4, <2>5 DEF Rest
    <1>7. ASSUME i < n, a = xs[j], Rest(S, t, xs, j) PROVE Rest(S, x, xs, i)
       <2>1. m = n - j BY <1>2, <1>3, <1>7 DEF Rest
       <2>2. \A k \in 1..m : t[k] = xs[j + k] BY <1>3, <1>7 DEF Rest
       <2>3. ASSUME NEW k \in 1..(m + 1) PROVE x[k] = xs[i + k]
          <3>1. CASE k = 1 BY <1>4, <1>7, <3>1
          <3>2. CASE k # 1
             <4>1. PICK l \in 1..m : k = l + 1
                <5>1. k - 1 \in 1..m /\ k = (k - 1) + 1 BY <3>2
                <5> QED BY <5>1
             <4>2. x[k] = xs[j + l] BY <1>5, <2>2, <4>1
             <4>3. j + l = i + k BY <4>1
             <4> QED BY <4>2, <4>3
          <3> QED BY <3>1, <3>2
       <2>4. Len(x) = n - i BY <1>4, <2>1
       <2> QED BY <1>2, <1>4, <2>3, <2>4 DEF Rest
    <1> QED BY <1>1, <1>2, <1>6, <1>7

\* What is left at the beginning, and at the end.
LEMMA RestEnds ==
    ASSUME NEW S, NEW xs \in Seq(S)
    PROVE  /\ Rest(S, xs, xs, 0)
           /\ Rest(S, <<>>, xs, Len(xs))
           /\ \A s : Rest(S, s, xs, 0) => s = xs
    <1>1. PICK n \in Nat : n = Len(xs) BY LenProperties
    <1>2. Rest(S, xs, xs, 0) BY <1>1 DEF Rest
    <1>3. Rest(S, <<>>, xs, Len(xs))
       <2>1. <<>> \in Seq(S) /\ Len(<<>>) = 0 /\ n - n = 0 BY EmptySeq
       <2>2. \A k \in 1..0 : FALSE OBVIOUS
       <2> QED BY <1>1, <2>1, <2>2 DEF Rest
    <1>4. ASSUME NEW s, Rest(S, s, xs, 0) PROVE s = xs
       <2>1. s \in Seq(S) /\ Len(s) = n - 0 /\ \A k \in 1..Len(s) : s[k] = xs[0 + k] BY <1>1, <1>4 DEF Rest
       <2>2. Len(s) = Len(xs) BY <1>1, <2>1
       <2>3. \A k \in 1..Len(s) : s[k] = xs[k] BY <1>1, <2>1
       <2> QED BY <2>1, <2>2, <2>3, SeqEqual
    <1> QED BY <1>2, <1>3, <1>4

\* The octets of a sequence of items.
Octets(xs) == [i \in DOMAIN xs |-> xs[i].head \o xs[i].body]

\* A function on an interval from 1 is a sequence.
LEMMA Row ==
    ASSUME NEW S, NEW n \in Nat, NEW s \in [1..n -> S]
    PROVE  s \in Seq(S) /\ Len(s) = n
    OBVIOUS

\* The octets of items are streams.
LEMMA OctetsFacts ==
    ASSUME NEW h \in Nat, NEW xs \in Seq(ItemSet(h))
    PROVE  /\ Octets(xs) \in Seq(Seq(Octet)) /\ Len(Octets(xs)) = Len(xs)
           /\ \A i \in 1..Len(xs) : Octets(xs)[i] = xs[i].head \o xs[i].body
    <1>1. PICK n \in Nat : n = Len(xs) /\ DOMAIN xs = 1..n BY LenProperties
    <1>2. ASSUME NEW i \in 1..n PROVE xs[i].head \o xs[i].body \in Seq(Octet)
       <2>1. xs[i] \in ItemSet(h) BY <1>1
       <2>2. xs[i].head \in Seq(Octet) /\ xs[i].body \in Seq(Octet) BY <2>1 DEF ItemSet
       <2> QED BY <2>2
    <1>3. Octets(xs) = [i \in 1..n |-> xs[i].head \o xs[i].body] BY <1>1 DEF Octets
    <1>4. Octets(xs) \in [1..n -> Seq(Octet)] BY <1>2, <1>3
    <1>5. Octets(xs) \in Seq(Seq(Octet)) /\ Len(Octets(xs)) = n BY <1>4, Row
    <1>6. \A i \in 1..n : Octets(xs)[i] = xs[i].head \o xs[i].body BY <1>3
    <1> QED BY <1>1, <1>5, <1>6

\* No sequence of items is an error.
LEMMA NotError ==
    ASSUME NEW h \in Nat, NEW s \in Seq(ItemSet(h))
    PROVE  s # Error
    <1>1. ItemSet(h) \subseteq [head : Seq(Octet), body : Seq(Octet)] BY DEF ItemSet
    <1>2. s \in Seq([head : Seq(Octet), body : Seq(Octet)]) BY <1>1, SeqMonotonic
    <1> QED BY <1>2, ErrorAssumption

-----------------------------------------------------------------------------
(* Splitting a stream into items and joining them are inverse.             *)

\* A stream that is split into items is what their octets make up.
LEMMA FlatOfItems ==
    ASSUME NEW data \in Seq(Octet), NEW h \in Nat, h >= 2, Items(data, h) # Error
    PROVE  Items(data, h) \in Seq(ItemSet(h)) /\ FlattenSeq(Octets(Items(data, h))) = data
    <1>0. PICK len \in Nat : len = Len(data) BY LenProperties
    <1>1. PICK f : Loop(f, data, h) /\ Items(data, h) = f[0] BY ItemsLoop
    <1>a. \A offset \in 0..len : f[offset] = Error \/ f[offset] \in Seq(ItemSet(h))
          BY <1>0, <1>1, ItemsTyped
    <1>2. PICK xs \in Seq(ItemSet(h)) : xs = f[0]
       <2>1. 0 \in 0..len OBVIOUS
       <2> QED BY <1>1, <1>a, <2>1
    <1>3. PICK N \in Nat : N = Len(xs) BY LenProperties
    <1>4. PICK parts \in Seq(Seq(Octet)) : parts = Octets(xs) BY OctetsFacts
    <1>5. Len(parts) = N /\ \A i \in 1..N : parts[i] = xs[i].head \o xs[i].body
          BY <1>3, <1>4, OctetsFacts
    <1>6. PICK g : Growing(g, parts) /\ FlattenSeq(parts) = g[N] BY <1>5, FlattenFacts
    <1> DEFINE P(i, o) == /\ o \in 0..len /\ f[o] # Error /\ Rest(ItemSet(h), f[o], xs, i)
                          /\ g[i] = SubSeq(data, 1, o)
    <1>7. P(0, 0)
       <2>1. Rest(ItemSet(h), f[0], xs, 0) BY <1>2, RestEnds
       <2>2. g[0] = <<>> BY <1>6 DEF Growing
       <2>3. SubSeq(data, 1, 0) = <<>> OBVIOUS
       <2> QED BY <1>1, <2>1, <2>2, <2>3
    <1>8. ASSUME NEW i \in Nat, i < N, NEW o, P(i, o), NEW j \in Nat, j = i + 1
          PROVE  \E e : P(j, e)
       <2>1. o \in 0..len /\ f[o] # Error /\ Rest(ItemSet(h), f[o], xs, i) /\ g[i] = SubSeq(data, 1, o)
             BY <1>8
       <2>2. o # len
          <3>1. Len(f[o]) = N - i BY <1>3, <2>1 DEF Rest
          <3>2. Len(f[o]) # 0 BY <1>8, <3>1
          <3>3. f[len] = <<>> BY <1>0, <1>1 DEF Loop
          <3> QED BY <3>2, <3>3
       <2>3. /\ o + h <= len /\ ItemEnd(data, h, o) \in (o + h)..len
             /\ f[ItemEnd(data, h, o)] # Error
             /\ f[o] = <<ItemAt(data, h, o)>> \o f[ItemEnd(data, h, o)]
          <3>1. o \in 0..(len - 1) BY <2>1, <2>2
          <3> QED BY <1>0, <1>1, <2>1, <3>1 DEF Loop
       <2>4. PICK e \in Nat : e = ItemEnd(data, h, o) /\ o + h <= e /\ e <= len BY <2>1, <2>3
       <2>5. e \in 0..len /\ o \in Nat BY <2>1, <2>4
       <2>6. f[e] # Error /\ f[e] \in Seq(ItemSet(h)) BY <1>a, <2>3, <2>4, <2>5
       <2>7. PICK item \in ItemSet(h) : item = ItemAt(data, h, o)
             BY <1>0, <2>3, <2>4, <2>5, ItemAtFacts
       <2>8. item.head \o item.body = SubSeq(data, o + 1, e)
             BY <1>0, <2>3, <2>4, <2>5, <2>7, ItemAtFacts
       <2>9. item = xs[j] /\ Rest(ItemSet(h), f[e], xs, j)
          <3>1. Rest(ItemSet(h), <<item>> \o f[e], xs, i) BY <2>1, <2>3, <2>4, <2>7
          <3>2. i \in 0..Len(xs) BY <1>3, <1>8
          <3> QED BY <1>8, <2>6, <3>1, <3>2, RestCons
       <2>10. g[j] = g[i] \o parts[j]
          <3>1. j \in 1..N /\ j - 1 = i BY <1>8
          <3> QED BY <1>5, <1>6, <3>1 DEF Growing
       <2>11. parts[j] = SubSeq(data, o + 1, e)
          <3>1. j \in 1..N BY <1>8
          <3> QED BY <1>5, <2>8, <2>9, <3>1
       <2>12. SubSeq(data, 1, o) \o SubSeq(data, o + 1, e) = SubSeq(data, 1, e)
          <3>1. 1 \in 1..(Len(data) + 1) /\ o \in (1 - 1)..Len(data) /\ e \in o..Len(data)
                BY <1>0, <2>1, <2>4, <2>5
          <3> QED BY <3>1, ConcatAdjacentSubSeq
       <2>13. g[j] = SubSeq(data, 1, e) BY <2>1, <2>10, <2>11, <2>12
       <2> QED BY <2>5, <2>6, <2>9, <2>13
    <1>9. \A i \in 0..N : \E o : P(i, o)
       <2> HIDE DEF P
       <2> DEFINE T == {i \in Nat : i <= N /\ ~ \E o : P(i, o)}
       <2>1. T = {}
          <3>1. SUFFICES ASSUME T # {} PROVE FALSE OBVIOUS
          <3>2. PICK j \in T : \A m \in T : j <= m BY <3>1, Least
          <3>3. j \in Nat /\ j <= N /\ ~ \E o : P(j, o) BY <3>2
          <3>4. j # 0 BY <1>7, <3>3
          <3>5. PICK i \in Nat : j = i + 1 /\ i < N
             <4>1. j - 1 \in Nat /\ j = (j - 1) + 1 /\ j - 1 < N BY <3>3, <3>4
             <4> QED BY <4>1
          <3>6. i \notin T
             <4>1. SUFFICES ASSUME i \in T PROVE FALSE OBVIOUS
             <4> HIDE DEF T
             <4>2. j <= i BY <3>2, <4>1
             <4> QED BY <3>3, <3>5, <4>2
          <3>7. PICK o : P(i, o) BY <3>5, <3>6
          <3>8. \E e : P(j, e) BY <1>8, <3>3, <3>5, <3>7
          <3> QED BY <3>3, <3>8
       <2>2. ASSUME NEW i \in 0..N PROVE \E o : P(i, o)
          <3>1. i \in Nat /\ i <= N OBVIOUS
          <3> QED BY <2>1, <3>1
       <2> QED BY <2>2
    <1>10. PICK o : P(N, o)
       <2>1. N \in 0..N OBVIOUS
       <2> HIDE DEF P
       <2> QED BY <1>9, <2>1
    <1>11. o = len
       <2>1. o \in 0..len /\ f[o] # Error /\ Rest(ItemSet(h), f[o], xs, N) BY <1>10
       <2>2. Len(f[o]) = N - N BY <1>3, <2>1 DEF Rest
       <2>3. SUFFICES ASSUME o # len PROVE FALSE OBVIOUS
       <2>4. o \in 0..(len - 1) BY <2>1, <2>3
       <2>5. /\ o + h <= len /\ ItemEnd(data, h, o) \in (o + h)..len
             /\ f[ItemEnd(data, h, o)] # Error
             /\ f[o] = <<ItemAt(data, h, o)>> \o f[ItemEnd(data, h, o)]
             BY <1>0, <1>1, <2>1, <2>4 DEF Loop
       <2>6. PICK e \in Nat : e = ItemEnd(data, h, o) /\ e \in 0..len BY <2>1, <2>5
       <2>7. PICK t \in Seq(ItemSet(h)) : t = f[e] BY <1>a, <2>5, <2>6
       <2>8. PICK item : item = ItemAt(data, h, o) OBVIOUS
       <2>9. item \in ItemSet(h)
          <3>1. o \in Nat /\ o + h <= Len(data) /\ ItemEnd(data, h, o) <= Len(data)
                BY <1>0, <2>1, <2>5, <2>6
          <3> QED BY <2>8, <3>1, ItemAtFacts
       <2>10. Len(<<item>> \o t) = 1 + Len(t) BY <2>7, <2>9
       <2>11. Len(t) \in Nat BY <2>7, LenProperties
       <2>12. f[o] = <<item>> \o t BY <2>5, <2>6, <2>7, <2>8
       <2> QED BY <2>2, <2>10, <2>11, <2>12
    <1>12. SubSeq(data, 1, len) = data BY <1>0
    <1>13. g[N] = data BY <1>10, <1>11, <1>12
    <1> QED BY <1>1, <1>2, <1>4, <1>6, <1>13

\* t begins with s.
Starts(s, t) == Len(s) <= Len(t) /\ \A k \in 1..Len(s) : t[k] = s[k]

\* A beginning of what a stream begins with.
LEMMA StartsShorter ==
    ASSUME NEW s \in Seq(Octet), NEW p \in Seq(Octet), NEW t \in Seq(Octet), Starts(s \o p, t)
    PROVE  Starts(s, t)
    <1>1. PICK n \in Nat, m \in Nat, len \in Nat : n = Len(s) /\ m = Len(p) /\ len = Len(t)
          BY LenProperties
    <1>2. PICK x : x = s \o p OBVIOUS
    <1>3. Len(x) = n + m /\ \A k \in 1..n : x[k] = s[k] BY <1>1, <1>2
    <1>4. n + m <= len /\ \A k \in 1..(n + m) : t[k] = x[k] BY <1>1, <1>2, <1>3 DEF Starts
    <1>5. n <= len BY <1>4
    <1>6. ASSUME NEW k \in 1..n PROVE t[k] = s[k]
       <2>1. k \in 1..(n + m) OBVIOUS
       <2> QED BY <1>3, <1>4, <2>1
    <1> QED BY <1>1, <1>5, <1>6 DEF Starts

\* The whole stream begins with what the first parts make up.
LEMMA GrowingStarts ==
    ASSUME NEW seqs \in Seq(Seq(Octet)), NEW g, Growing(g, seqs), NEW N \in Nat, N = Len(seqs)
    PROVE  \A i \in 0..N : Starts(g[i], g[N])
    <1>1. \A i \in 0..N : g[i] \in Seq(Octet) BY DEF Growing
    <1> DEFINE T == {n \in Nat : n <= N /\ ~Starts(g[N - n], g[N])}
    <1>2. T = {}
       <2>1. SUFFICES ASSUME T # {} PROVE FALSE OBVIOUS
       <2>2. PICK n \in T : \A m \in T : n <= m BY <2>1, Least
       <2>3. n \in Nat /\ n <= N /\ ~Starts(g[N - n], g[N]) BY <2>2
       <2>4. n # 0
          <3>1. N \in 0..N /\ N - 0 = N OBVIOUS
          <3>2. g[N] \in Seq(Octet) BY <1>1, <3>1
          <3>3. PICK len \in Nat : len = Len(g[N]) BY <3>2, LenProperties
          <3>4. len <= len OBVIOUS
          <3>5. Starts(g[N], g[N]) BY <3>3, <3>4 DEF Starts
          <3> QED BY <2>3, <3>1, <3>5
       <2>5. PICK m \in Nat : n = m + 1 /\ m <= N
          <3>1. n - 1 \in Nat /\ n = (n - 1) + 1 /\ n - 1 <= N BY <2>3, <2>4
          <3> QED BY <3>1
       <2>6. m \notin T
          <3>1. SUFFICES ASSUME m \in T PROVE FALSE OBVIOUS
          <3> HIDE DEF T
          <3>2. n <= m BY <2>2, <3>1
          <3> QED BY <2>3, <2>5, <3>2
       <2>a. N - n \in Nat /\ N - m \in Nat BY <2>3, <2>5
       <2>7. PICK i \in Nat, j \in Nat : i = N - n /\ j = N - m BY <2>a
       <2>8. i \in 0..N /\ j \in 1..N /\ j \in 0..N /\ N \in 0..N /\ i = j - 1 BY <2>3, <2>5, <2>7
       <2>9. Starts(g[j], g[N]) BY <2>5, <2>6, <2>7
       <2>10. g[j] = g[i] \o seqs[j] BY <2>8 DEF Growing
       <2>11. g[i] \in Seq(Octet) /\ g[N] \in Seq(Octet) /\ seqs[j] \in Seq(Octet) BY <1>1, <2>8, ElementOfSeq
       <2>12. Starts(g[i], g[N]) BY <2>9, <2>10, <2>11, StartsShorter
       <2> QED BY <2>3, <2>7, <2>12
    <1>3. ASSUME NEW i \in 0..N PROVE Starts(g[i], g[N])
       <2>1. N - i \in Nat /\ N - i <= N /\ N - (N - i) = i OBVIOUS
       <2>2. PICK n \in Nat : n = N - i /\ n <= N /\ N - n = i BY <2>1
       <2>3. n \notin T BY <1>2
       <2> QED BY <2>2, <2>3
    <1> QED BY <1>3

\* A stream has an item between two offsets.
Has(data, h, item, o, e) ==
    /\ e \in Nat /\ o + h <= e /\ e <= Len(data)
    /\ ItemEnd(data, h, o) = e /\ ItemAt(data, h, o) = item
\* It was put there after a.
PutAfter(a, item, data, o, e) ==
    /\ Starts(a \o (item.head \o item.body), data)
    /\ o = Len(a) /\ e = Len(a \o (item.head \o item.body))

\* An item that was put into a stream is found where it was put.
LEMMA ItemInStream ==
    ASSUME NEW data \in Seq(Octet), NEW h \in Nat, h >= 2, NEW item \in ItemSet(h),
           NEW a \in Seq(Octet), NEW o \in Nat, NEW e, PutAfter(a, item, data, o, e)
    PROVE  Has(data, h, item, o, e)
    <1>0. /\ Starts(a \o (item.head \o item.body), data)
          /\ o = Len(a) /\ e = Len(a \o (item.head \o item.body))
          BY DEF PutAfter
    <1>1. PICK head \in Seq(Octet), body \in Seq(Octet) :
             item = [head |-> head, body |-> body] BY DEF ItemSet
    <1>2. item.head = head /\ item.body = body BY <1>1
    <1>3. Len(head) = h /\ GetUint16(head[h - 1], head[h]) = Len(body) BY <1>2 DEF ItemSet
    <1>4. PICK n \in Nat, len \in Nat : n = Len(body) /\ len = Len(data) BY LenProperties
    <1>5. PICK y : y = head \o body OBVIOUS
    <1>6. /\ y \in Seq(Octet) /\ Len(y) = h + n
          /\ (\A i \in 1..h : y[i] = head[i]) /\ \A i \in 1..n : y[h + i] = body[i]
       <2>1. /\ y \in Seq(Octet) /\ Len(y) = Len(head) + Len(body)
             /\ (\A i \in 1..Len(head) : y[i] = head[i])
             /\ \A i \in 1..Len(body) : y[Len(head) + i] = body[i]
             BY <1>5, Glue
       <2> QED BY <1>3, <1>4, <2>1
    <1>7. PICK x : x = a \o y OBVIOUS
    <1>8. /\ x \in Seq(Octet) /\ Len(x) = o + (h + n) /\ \A i \in 1..(h + n) : x[o + i] = y[i]
       <2>1. /\ x \in Seq(Octet) /\ Len(x) = Len(a) + Len(y)
             /\ \A i \in 1..Len(y) : x[Len(a) + i] = y[i]
          <3>1. y \in Seq(Octet) BY <1>6
          <3>2. GluedIn(Octet, a, y) BY <3>1, GlueFacts
          <3> QED BY <1>7, <3>2 DEF GluedIn
       <2> QED BY <1>0, <1>6, <2>1
    <1>9. Starts(x, data) BY <1>0, <1>2, <1>5, <1>7
    <1>10. PICK s \in Nat : s = o + h OBVIOUS
    <1>11. e = s + n BY <1>0, <1>2, <1>5, <1>7, <1>8, <1>10
    <1>12. e \in Nat /\ s <= e /\ e <= len /\ s <= len BY <1>4, <1>8, <1>9, <1>10, <1>11 DEF Starts
    <1>13. ASSUME NEW i \in 1..(h + n) PROVE data[o + i] = y[i]
       <2>1. o + i \in 1..(o + (h + n)) OBVIOUS
       <2>2. data[o + i] = x[o + i] BY <1>8, <1>9, <2>1 DEF Starts
       <2> QED BY <1>8, <2>2
    <1>14. ASSUME NEW i \in 1..h PROVE data[o + i] = head[i]
       <2>1. i \in 1..(h + n) OBVIOUS
       <2> QED BY <1>6, <1>13, <2>1
    <1>15. ASSUME NEW i \in 1..n PROVE data[s + i] = body[i]
       <2>1. h + i \in 1..(h + n) /\ o + (h + i) = s + i BY <1>10
       <2>2. data[o + (h + i)] = y[h + i] BY <1>13, <2>1
       <2> QED BY <1>6, <2>1, <2>2
    <1>16. SubSeq(data, o + 1, s) = head
       <2>1. s <= Len(data) BY <1>4, <1>12
       <2> QED BY <1>3, <1>10, <1>14, <2>1, Inner
    <1>17. SubSeq(data, s + 1, e) = body
       <2>1. e <= Len(data) BY <1>4, <1>12
       <2>2. n = Len(body) /\ e = s + n /\ e \in Nat BY <1>4, <1>11, <1>12
       <2>3. \A i \in 1..n : data[s + i] = body[i] BY <1>15
       <2> QED BY <2>1, <2>2, <2>3, Inner
    <1>18. ItemEnd(data, h, o) = e
       <2>1. h - 1 \in 1..h /\ h \in 1..h /\ o + (h - 1) = o + h - 1 OBVIOUS
       <2>2. data[o + (h - 1)] = head[h - 1] BY <1>14, <2>1
       <2>3. data[o + h] = head[h] BY <1>14, <2>1
       <2>4. data[o + h - 1] = head[h - 1] BY <2>1, <2>2
       <2> QED BY <1>3, <1>4, <1>10, <1>11, <2>3, <2>4 DEF ItemEnd
    <1>19. ItemAt(data, h, o) = [head |-> SubSeq(data, o + 1, s), body |-> SubSeq(data, s + 1, e)]
           BY <1>10, <1>18 DEF ItemAt
    <1>20. ItemAt(data, h, o) = item BY <1>1, <1>16, <1>17, <1>19
    <1> QED BY <1>4, <1>10, <1>12, <1>18, <1>20 DEF Has

\* Items of a stream made up of items: those items.
LEMMA ItemsOfFlat ==
    ASSUME NEW h \in Nat, h >= 2, NEW xs \in Seq(ItemSet(h))
    PROVE  Items(FlattenSeq(Octets(xs)), h) = xs /\ FlattenSeq(Octets(xs)) \in Seq(Octet)
    <1>1. PICK N \in Nat : N = Len(xs) BY LenProperties
    <1>2. PICK parts \in Seq(Seq(Octet)) : parts = Octets(xs) BY OctetsFacts
    <1>3. Len(parts) = N /\ \A i \in 1..N : parts[i] = xs[i].head \o xs[i].body
          BY <1>1, <1>2, OctetsFacts
    <1>4. PICK g : Growing(g, parts) /\ FlattenSeq(parts) = g[N] BY <1>3, FlattenFacts
    <1>5. \A i \in 0..N : g[i] \in Seq(Octet) BY <1>3, <1>4 DEF Growing
    <1>6. PICK data \in Seq(Octet) : data = g[N]
       <2>1. N \in 0..N OBVIOUS
       <2> QED BY <1>5, <2>1
    <1>7. PICK len \in Nat : len = Len(data) BY LenProperties
    <1>8. \A i \in 0..N : Starts(g[i], data) BY <1>3, <1>4, <1>6, GrowingStarts
    <1>9. PICK f : Loop(f, data, h) /\ Items(data, h) = f[0] BY ItemsLoop
    <1> DEFINE P(i) == Rest(ItemSet(h), f[Len(g[i])], xs, i)
    <1>10. P(N)
       <2>1. f[len] = <<>> BY <1>7, <1>9 DEF Loop
       <2> QED BY <1>1, <1>6, <1>7, <2>1, RestEnds
    <1>11. ASSUME NEW i \in Nat, NEW j \in Nat, j = i + 1, j <= N, P(j)
           PROVE  P(i)
       <2>1. i \in 0..N /\ j \in 0..N /\ j \in 1..N /\ j - 1 = i BY <1>11
       <2>2. PICK item \in ItemSet(h) : item = xs[j] BY <1>1, <2>1, ElementOfSeq
       <2>3. g[j] = g[i] \o (item.head \o item.body) BY <1>3, <1>4, <2>1, <2>2 DEF Growing
       <2>4. PICK a \in Seq(Octet) : a = g[i] BY <1>5, <2>1
       <2>5. PICK o \in Nat : o = Len(a) BY LenProperties
       <2>6. PICK e : e = Len(a \o (item.head \o item.body)) OBVIOUS
       <2>7. Starts(a \o (item.head \o item.body), data) BY <1>8, <2>1, <2>3, <2>4
       <2>8. /\ e \in Nat /\ o + h <= e /\ e <= Len(data)
             /\ ItemEnd(data, h, o) = e /\ ItemAt(data, h, o) = item
          <3>1. PutAfter(a, item, data, o, e) BY <2>5, <2>6, <2>7 DEF PutAfter
          <3>2. Has(data, h, item, o, e) BY <3>1, ItemInStream
          <3> QED BY <3>2 DEF Has
       <2>9. Rest(ItemSet(h), f[e], xs, j) BY <1>11, <2>3, <2>4, <2>6
       <2>10. f[e] \in Seq(ItemSet(h)) BY <2>9 DEF Rest
       <2>11. f[e] # Error BY <2>10, NotError
       <2>12. o \in 0..(len - 1) /\ o + h <= len /\ e <= len BY <1>7, <2>5, <2>8
       <2>13. f[o] = <<item>> \o f[e]
              BY <1>7, <1>9, <2>8, <2>11, <2>12 DEF Loop
       <2>14. Rest(ItemSet(h), <<item>> \o f[e], xs, i)
          <3>1. i \in 0..Len(xs) /\ i < Len(xs) BY <1>1, <1>11, <2>1
          <3> QED BY <1>11, <2>2, <2>9, <2>10, <3>1, RestCons
       <2> QED BY <2>4, <2>5, <2>13, <2>14
    <1>12. P(0)
       <2> HIDE DEF P
       <2> DEFINE T == {n \in Nat : n <= N /\ ~P(N - n)}
       <2>1. T = {}
          <3>1. SUFFICES ASSUME T # {} PROVE FALSE OBVIOUS
          <3>2. PICK n \in T : \A m \in T : n <= m BY <3>1, Least
          <3>3. n \in Nat /\ n <= N /\ ~P(N - n) BY <3>2
          <3>4. n # 0
             <4>1. N - 0 = N OBVIOUS
             <4> QED BY <1>10, <3>3, <4>1
          <3>5. PICK m \in Nat : n = m + 1 /\ m <= N
             <4>1. n - 1 \in Nat /\ n = (n - 1) + 1 /\ n - 1 <= N BY <3>3, <3>4
             <4> QED BY <4>1
          <3>6. m \notin T
             <4>1. SUFFICES ASSUME m \in T PROVE FALSE OBVIOUS
             <4> HIDE DEF T
             <4>2. n <= m BY <3>2, <4>1
             <4> QED BY <3>3, <3>5, <4>2
          <3>7. N - n \in Nat /\ N - m \in Nat /\ N - m = (N - n) + 1 /\ N - m <= N BY <3>3, <3>5
          <3>8. P(N - m) BY <3>5, <3>6
          <3> QED BY <1>11, <3>3, <3>7, <3>8
       <2>2. N - N = 0 /\ N <= N OBVIOUS
       <2>3. N \notin T BY <2>1
       <2> QED BY <2>2, <2>3
    <1>13. g[0] = <<>> /\ Len(<<>>) = 0 BY <1>4 DEF Growing
    <1>14. f[0] = xs BY <1>12, <1>13, RestEnds
    <1> QED BY <1>2, <1>4, <1>6, <1>9, <1>14

-----------------------------------------------------------------------------
(* Frames.                                                                 *)

\* An item is not longer than the stream it is in.
LEMMA ItemsFit ==
    ASSUME NEW h \in Nat, NEW xs \in Seq(ItemSet(h)), NEW i \in 1..Len(xs)
    PROVE  Len(xs[i].body) \in Nat /\ Len(xs[i].body) <= Len(FlattenSeq(Octets(xs)))
    <1>1. PICK N \in Nat : N = Len(xs) BY LenProperties
    <1>2. PICK parts \in Seq(Seq(Octet)) : parts = Octets(xs) BY OctetsFacts
    <1>3. Len(parts) = N /\ parts[i] = xs[i].head \o xs[i].body BY <1>1, <1>2, OctetsFacts
    <1>4. PICK g : Growing(g, parts) /\ FlattenSeq(parts) = g[N] BY <1>3, FlattenFacts
    <1>5. Starts(g[i], g[N])
       <2>1. i \in 0..N BY <1>1
       <2> QED BY <1>3, <1>4, <2>1, GrowingStarts
    <1>6. PICK j \in 0..N : j = i - 1 /\ i \in 1..N /\ i \in 0..N BY <1>1
    <1>7. g[i] = g[j] \o parts[i] BY <1>3, <1>4, <1>6 DEF Growing
    <1>8. PICK a \in Seq(Octet) : a = g[j] BY <1>3, <1>4, <1>6 DEF Growing
    <1>9. PICK head \in Seq(Octet), body \in Seq(Octet) : head = xs[i].head /\ body = xs[i].body
       <2>1. xs[i] \in ItemSet(h) BY ElementOfSeq
       <2> QED BY <2>1 DEF ItemSet
    <1>10. PICK k \in Nat, m \in Nat, n \in Nat : k = Len(a) /\ m = Len(head) /\ n = Len(body)
           BY LenProperties
    <1>11. head \o body \in Seq(Octet) /\ Len(head \o body) = m + n BY <1>10
    <1>12. Len(a \o (head \o body)) = k + (m + n) BY <1>10, <1>11
    <1>13. Len(g[i]) = k + (m + n) BY <1>3, <1>7, <1>8, <1>9, <1>12
    <1>14. PICK len \in Nat : len = Len(g[N])
       <2>1. N \in 0..N OBVIOUS
       <2>2. g[N] \in Seq(Octet) BY <1>3, <1>4, <2>1 DEF Growing
       <2> QED BY <2>2, LenProperties
    <1>15. k + (m + n) <= len BY <1>5, <1>13, <1>14 DEF Starts
    <1>16. n <= len BY <1>15
    <1>17. FlattenSeq(Octets(xs)) = g[N] BY <1>2, <1>4
    <1> QED BY <1>9, <1>10, <1>14, <1>16, <1>17

\* The limit of a plaintext is a number.
LEMMA FrameLimit ==
    ASSUME NEW with \in Nat, normalizeFrameLimit(with) # Error
    PROVE  normalizeFrameLimit(with) \in 0..MaxUint
    <1>1. MaxUint \in Nat /\ DefaultMaxFramePlaintext \in 0..MaxUint BY SizesAssumption
    <1> QED BY <1>1 DEF normalizeFrameLimit

\* The header of a frame is its type, no flags and the length of its body.
LEMMA FrameHead ==
    ASSUME NEW head \in Seq(Octet), Len(head) = 4, head[2] = 0,
           NEW n \in Nat, GetUint16(head[3], head[4]) = n
    PROVE  <<head[1], 0>> \o PutUint16(n) = head
    <1>1. head[1] \in Octet /\ head[2] \in Octet /\ head[3] \in Octet /\ head[4] \in Octet
       <2>1. 1 \in 1..Len(head) /\ 2 \in 1..Len(head) /\ 3 \in 1..Len(head) /\ 4 \in 1..Len(head)
             OBVIOUS
       <2> QED BY <2>1, ElementOfSeq
    <1>2. PutUint16(n) = <<head[3], head[4]>> BY <1>1, LengthOctets, OctetsAreNumbers
    <1>3. PICK u, v : u = <<head[1], 0>> /\ v = <<head[3], head[4]>> OBVIOUS
    <1>4. 0 \in Octet BY DEF Octet
    <1>5. /\ u \in Seq(Octet) /\ Len(u) = 2 /\ u[1] = head[1] /\ u[2] = 0
          /\ v \in Seq(Octet) /\ Len(v) = 2 /\ v[1] = head[3] /\ v[2] = head[4]
          BY <1>1, <1>3, <1>4
    <1>a. PICK w : w = u \o v OBVIOUS
    <1>b. /\ w \in Seq(Octet) /\ Len(w) = 2 + 2
          /\ \A i \in 1..2 : w[i] = u[i] /\ w[2 + i] = v[i]
       <2>1. GluedIn(Octet, u, v) BY <1>5, GlueFacts
       <2> QED BY <1>5, <1>a, <2>1 DEF GluedIn
    <1>6. Len(w) = 4 /\ w[1] = head[1] /\ w[2] = 0 /\ w[3] = head[3] /\ w[4] = head[4]
       <2>1. w[1] = u[1] /\ w[2] = u[2] /\ w[2 + 1] = v[1] /\ w[2 + 2] = v[2] BY <1>b
       <2> QED BY <1>5, <1>b, <2>1
    <1>7. ASSUME NEW i \in 1..4 PROVE w[i] = head[i]
       <2>1. i = 1 \/ i = 2 \/ i = 3 \/ i = 4 OBVIOUS
       <2> QED BY <1>6, <2>1
    <1>8. w = head BY <1>b, <1>6, <1>7, SeqEqual
    <1> QED BY <1>2, <1>3, <1>a, <1>8

\* What MarshalFrames writes, and what ParseFrames makes of items.
FrameOctets(frames) ==
    [i \in DOMAIN frames |-> <<frames[i].type, 0>> \o PutUint16(Len(frames[i].body)) \o frames[i].body]
FramesOf(xs) ==
    [i \in DOMAIN xs |-> [type |-> xs[i].head[1], flags |-> xs[i].head[2], body |-> xs[i].body]]

\* The octets of frames without flags are those of the items they were parsed from.
LEMMA FramesAreItems ==
    ASSUME NEW xs \in Seq(ItemSet(4)), \A i \in DOMAIN xs : FramesOf(xs)[i].flags = 0
    PROVE  FrameOctets(FramesOf(xs)) = Octets(xs)
    <1>1. PICK N \in Nat : N = Len(xs) /\ DOMAIN xs = 1..N BY LenProperties
    <1>2. PICK frames : frames = FramesOf(xs) OBVIOUS
    <1>3. DOMAIN frames = 1..N BY <1>1, <1>2 DEF FramesOf
    <1>4. ASSUME NEW i \in 1..N
          PROVE  <<frames[i].type, 0>> \o PutUint16(Len(frames[i].body)) \o frames[i].body
                    = xs[i].head \o xs[i].body
       <2>1. PICK item \in ItemSet(4) : item = xs[i] BY <1>1
       <2>2. frames[i] = [type |-> item.head[1], flags |-> item.head[2], body |-> item.body]
             BY <1>1, <1>2, <2>1 DEF FramesOf
       <2>3. frames[i].type = item.head[1] /\ frames[i].flags = item.head[2] /\ frames[i].body = item.body
             BY <2>2
       <2>4. item.head[2] = 0 BY <1>1, <1>2, <2>3
       <2>5. PICK head \in Seq(Octet), body \in Seq(Octet) : head = item.head /\ body = item.body
             BY DEF ItemSet
       <2>6. PICK n \in Nat : n = Len(body) BY LenProperties
       <2>7. Len(head) = 4 /\ GetUint16(head[3], head[4]) = n BY <2>5, <2>6 DEF ItemSet
       <2>8. <<head[1], 0>> \o PutUint16(n) = head BY <2>4, <2>5, <2>7, FrameHead
       <2> QED BY <2>1, <2>3, <2>5, <2>6, <2>8
    <1>5. FrameOctets(frames) =
             [i \in 1..N |-> <<frames[i].type, 0>> \o PutUint16(Len(frames[i].body)) \o frames[i].body]
          BY <1>3 DEF FrameOctets
    <1>6. Octets(xs) = [i \in 1..N |-> xs[i].head \o xs[i].body] BY <1>1 DEF Octets
    <1> QED BY <1>2, <1>4, <1>5, <1>6

\* ParseFrames, in these terms.
LEMMA FramesParsed ==
    ASSUME NEW data, NEW with
    PROVE  ParseFrames(data, with) =
             IF normalizeFrameLimit(with) = Error THEN Error
             ELSE IF Len(data) > normalizeFrameLimit(with) THEN Error
             ELSE IF Items(data, 4) = Error THEN Error
             ELSE IF FramesAcceptable(FramesOf(Items(data, 4))) THEN FramesOf(Items(data, 4)) ELSE Error
    BY DEF ParseFrames, FramesOf, FrameHeaderSize

\* MarshalFrames, in these terms.
LEMMA FramesMarshalled ==
    ASSUME NEW frames, NEW with
    PROVE  MarshalFrames(frames, with) =
             IF normalizeFrameLimit(with) = Error THEN Error
             ELSE IF /\ FramesAcceptable(frames)
                     /\ \A i \in DOMAIN frames : Len(frames[i].body) <= MaxUint
                     /\ Len(FlattenSeq(FrameOctets(frames))) <= normalizeFrameLimit(with)
             THEN FlattenSeq(FrameOctets(frames)) ELSE Error
    BY DEF MarshalFrames, FrameOctets

\* Frames that parse are marshalled to the octets they were parsed from.
LEMMA FramesStream ==
    ASSUME NEW data \in Seq(Octet), NEW with \in Nat, ParseFrames(data, with) # Error
    PROVE  data = MarshalFrames(ParseFrames(data, with), with)
    <1>1. PICK xs : xs = Items(data, 4) OBVIOUS
    <1>2. PICK limit : limit = normalizeFrameLimit(with) OBVIOUS
    <1>3. /\ limit # Error /\ ~(Len(data) > limit) /\ xs # Error
          /\ FramesAcceptable(FramesOf(xs)) /\ ParseFrames(data, with) = FramesOf(xs)
          BY <1>1, <1>2, FramesParsed
    <1>4. limit \in 0..MaxUint BY <1>2, <1>3, FrameLimit
    <1>5. PICK len \in Nat : len = Len(data) BY LenProperties
    <1>6. len <= limit /\ limit <= MaxUint /\ limit \in Nat /\ MaxUint \in Nat
          BY <1>3, <1>4, <1>5, SizesAssumption
    <1>7. xs \in Seq(ItemSet(4)) /\ FlattenSeq(Octets(xs)) = data
          BY <1>1, <1>3, FlatOfItems
    <1>8. PICK N \in Nat : N = Len(xs) /\ DOMAIN xs = 1..N BY <1>7, LenProperties
    <1>9. DOMAIN FramesOf(xs) = 1..N BY <1>8 DEF FramesOf
    <1>10. \A i \in DOMAIN xs : FramesOf(xs)[i].flags = 0
           BY <1>3, <1>8, <1>9 DEF FramesAcceptable, validateFrame
    <1>11. FrameOctets(FramesOf(xs)) = Octets(xs) BY <1>7, <1>10, FramesAreItems
    <1>12. ASSUME NEW i \in 1..N PROVE Len(FramesOf(xs)[i].body) <= MaxUint
       <2>1. FramesOf(xs)[i].body = xs[i].body BY <1>8 DEF FramesOf
       <2>2. Len(xs[i].body) \in Nat /\ Len(xs[i].body) <= Len(FlattenSeq(Octets(xs)))
             BY <1>7, <1>8, ItemsFit
       <2> QED BY <1>5, <1>6, <1>7, <2>1, <2>2
    <1>13. Len(FlattenSeq(FrameOctets(FramesOf(xs)))) <= limit BY <1>5, <1>6, <1>7, <1>11
    <1>14. MarshalFrames(FramesOf(xs), with) = FlattenSeq(FrameOctets(FramesOf(xs)))
           BY <1>2, <1>3, <1>9, <1>12, <1>13, FramesMarshalled
    <1> QED BY <1>3, <1>7, <1>11, <1>14

\* The frames of a caller.
FrameSet == [type : Octet, flags : Octet, body : Seq(Octet)]

\* The octets of a length that the code accepts.
LEMMA LengthFitsUint ==
    ASSUME NEW n \in Nat, n <= MaxUint
    PROVE  /\ PutUint16(n) \in Seq(Octet) /\ Len(PutUint16(n)) = 2
           /\ GetUint16(PutUint16(n)[1], PutUint16(n)[2]) = n
    <1>1. n <= 65535 BY SizesAssumption
    <1> QED BY <1>1, LengthFits

\* What a frame is marshalled to.
FrameItem(frame) ==
    [head |-> <<frame.type, 0>> \o PutUint16(Len(frame.body)), body |-> frame.body]

\* The header that MarshalFrames writes says what the frame is.
LEMMA FrameItemFacts ==
    ASSUME NEW t \in Octet, NEW body \in Seq(Octet), Len(body) <= MaxUint,
           NEW frame, frame = [type |-> t, flags |-> 0, body |-> body]
    PROVE  /\ FrameItem(frame) \in ItemSet(4)
           /\ [type |-> FrameItem(frame).head[1], flags |-> FrameItem(frame).head[2],
               body |-> FrameItem(frame).body] = frame
    <1>2. frame.type = t /\ frame.body = body OBVIOUS
    <1>3. PICK n \in Nat : n = Len(body) BY LenProperties
    <1>4. PICK v : v = PutUint16(n) OBVIOUS
    <1>5. v \in Seq(Octet) /\ Len(v) = 2 /\ GetUint16(v[1], v[2]) = n
          BY <1>3, <1>4, LengthFitsUint
    <1>6. PICK u : u = <<t, 0>> OBVIOUS
    <1>7. 0 \in Octet BY DEF Octet
    <1>8. u \in Seq(Octet) /\ Len(u) = 2 /\ u[1] = t /\ u[2] = 0 BY <1>6, <1>7
    <1>9. PICK w : w = u \o v OBVIOUS
    <1>10. /\ w \in Seq(Octet) /\ Len(w) = 2 + 2
           /\ \A i \in 1..2 : w[i] = u[i] /\ w[2 + i] = v[i]
       <2>1. GluedIn(Octet, u, v) BY <1>5, <1>8, GlueFacts
       <2> QED BY <1>5, <1>8, <1>9, <2>1 DEF GluedIn
    <1>11. Len(w) = 4 /\ w[1] = t /\ w[2] = 0 /\ w[3] = v[1] /\ w[4] = v[2]
       <2>1. w[1] = u[1] /\ w[2] = u[2] /\ w[2 + 1] = v[1] /\ w[2 + 2] = v[2] BY <1>10
       <2> QED BY <1>8, <1>10, <2>1
    <1>12. PICK item : item = [head |-> w, body |-> body] OBVIOUS
    <1>13. item.head = w /\ item.body = body BY <1>12
    <1>14. GetUint16(w[4 - 1], w[4]) = n BY <1>5, <1>11
    <1>15. item \in ItemSet(4) BY <1>3, <1>10, <1>11, <1>12, <1>13, <1>14 DEF ItemSet
    <1>16. FrameItem(frame) = item BY <1>2, <1>3, <1>4, <1>6, <1>9, <1>12 DEF FrameItem
    <1>17. [type |-> item.head[1], flags |-> item.head[2], body |-> item.body] = frame
           BY <1>11, <1>13
    <1> QED BY <1>15, <1>16, <1>17

\* Frames that are marshalled are parsed back.
LEMMA FramesValue ==
    ASSUME NEW frames \in Seq(FrameSet), NEW with \in Nat, MarshalFrames(frames, with) # Error
    PROVE  ParseFrames(MarshalFrames(frames, with), with) = frames
    <1>1. PICK limit : limit = normalizeFrameLimit(with) OBVIOUS
    <1>2. PICK data : data = FlattenSeq(FrameOctets(frames)) OBVIOUS
    <1>3. /\ limit # Error /\ FramesAcceptable(frames)
          /\ \A i \in DOMAIN frames : Len(frames[i].body) <= MaxUint
          /\ Len(data) <= limit /\ MarshalFrames(frames, with) = data
          BY <1>1, <1>2, FramesMarshalled
    <1>4. PICK N \in Nat : N = Len(frames) /\ DOMAIN frames = 1..N BY LenProperties
    <1>5. PICK xs : xs = [i \in 1..N |-> FrameItem(frames[i])] OBVIOUS
    <1>6. ASSUME NEW i \in 1..N
          PROVE  /\ xs[i] \in ItemSet(4)
                 /\ [type |-> xs[i].head[1], flags |-> xs[i].head[2], body |-> xs[i].body] = frames[i]
                 /\ xs[i].head \o xs[i].body =
                       <<frames[i].type, 0>> \o PutUint16(Len(frames[i].body)) \o frames[i].body
       <2>1. PICK frame \in FrameSet : frame = frames[i] BY <1>4
       <2>2. frame.flags = 0 BY <1>3, <1>4, <2>1 DEF FramesAcceptable, validateFrame
       <2>3. Len(frame.body) <= MaxUint BY <1>3, <1>4, <2>1
       <2>4. xs[i] = FrameItem(frame) BY <1>5, <2>1
       <2>5. /\ xs[i] \in ItemSet(4)
             /\ [type |-> xs[i].head[1], flags |-> xs[i].head[2], body |-> xs[i].body] = frame
          <3>1. PICK t \in Octet, body \in Seq(Octet) : frame = [type |-> t, flags |-> 0, body |-> body]
                BY <2>2 DEF FrameSet
          <3>2. frame.body = body BY <3>1
          <3> QED BY <2>3, <2>4, <3>1, <3>2, FrameItemFacts
       <2>6. xs[i].head = <<frame.type, 0>> \o PutUint16(Len(frame.body)) /\ xs[i].body = frame.body
             BY <2>4 DEF FrameItem
       <2> QED BY <2>1, <2>5, <2>6
    <1>7. xs \in [1..N -> ItemSet(4)] BY <1>5, <1>6
    <1>8. xs \in Seq(ItemSet(4)) /\ DOMAIN xs = 1..N BY <1>7, Row
    <1>9. Octets(xs) = FrameOctets(frames) BY <1>4, <1>6, <1>8 DEF Octets, FrameOctets
    <1>10. FramesOf(xs) = frames
       <2>1. FramesOf(xs) = [i \in 1..N |-> frames[i]] BY <1>6, <1>8 DEF FramesOf
       <2>2. frames = [i \in 1..N |-> frames[i]] BY <1>4
       <2> QED BY <2>1, <2>2
    <1>11. Items(data, 4) = xs /\ data \in Seq(Octet) BY <1>2, <1>8, <1>9, ItemsOfFlat
    <1>12. xs # Error BY <1>8, NotError
    <1>13. ~(Len(data) > limit)
       <2>1. limit \in 0..MaxUint BY <1>1, <1>3, FrameLimit
       <2>2. MaxUint \in Nat BY SizesAssumption
       <2>3. Len(data) \in Nat BY <1>11, LenProperties
       <2> QED BY <1>3, <2>1, <2>2, <2>3
    <1>14. ParseFrames(data, with) = FramesOf(xs)
           BY <1>1, <1>3, <1>10, <1>11, <1>12, <1>13, FramesParsed
    <1> QED BY <1>3, <1>10, <1>14

-----------------------------------------------------------------------------
(* TLV fields.                                                             *)

\* The fields of a caller.
FieldSet == [type : Octet, value : Seq(Octet)]

\* The fields that are not sorted after field i, and the order of two fields.
Below(fields, i) ==
    {j \in DOMAIN fields : \/ fields[j].type < fields[i].type
                           \/ fields[j].type = fields[i].type /\ j <= i}
Before(fields, i, j) ==
    \/ fields[i].type < fields[j].type
    \/ fields[i].type = fields[j].type /\ i < j

\* Types are numbers.
LEMMA TypesAreNumbers ==
    ASSUME NEW fields \in Seq(FieldSet), NEW i \in 1..Len(fields)
    PROVE  fields[i] \in FieldSet /\ fields[i].type \in Nat
    <1>1. fields[i] \in FieldSet BY ElementOfSeq
    <1>2. fields[i].type \in Octet BY <1>1 DEF FieldSet
    <1> QED BY <1>1, <1>2, OctetsAreNumbers

\* Every field has a place among the fields, and an earlier one a smaller place.
LEMMA PlaceFacts ==
    ASSUME NEW fields \in Seq(FieldSet), NEW N \in Nat, N = Len(fields)
    PROVE  /\ \A i \in 1..N : Place(fields, i) \in 1..N
           /\ \A i \in 1..N, j \in 1..N : Before(fields, i, j) => Place(fields, i) < Place(fields, j)
    <1>1. DOMAIN fields = 1..N BY LenProperties
    <1>2. \A i \in 1..N : fields[i].type \in Nat BY TypesAreNumbers
    <1>3. IsFiniteSet(1..N) /\ Cardinality(1..N) = N
       <2>1. IsFiniteSet(1..N) /\ Cardinality(1..N) = IF 1 > N THEN 0 ELSE N - 1 + 1
          <3>1. 1 \in Int /\ N \in Int OBVIOUS
          <3> QED BY <3>1, FS_Interval, Zenon
       <2> QED BY <2>1
    <1>4. ASSUME NEW i \in 1..N
          PROVE  /\ Below(fields, i) \subseteq 1..N /\ i \in Below(fields, i)
                 /\ IsFiniteSet(Below(fields, i)) /\ Place(fields, i) = Cardinality(Below(fields, i))
                 /\ Place(fields, i) \in Nat
       <2>1. Below(fields, i) \subseteq 1..N BY <1>1 DEF Below
       <2>2. i \in Below(fields, i) BY <1>1, <1>2 DEF Below
       <2>3. IsFiniteSet(Below(fields, i)) BY <1>3, <2>1, FS_Subset
       <2>4. Place(fields, i) = Cardinality(Below(fields, i)) BY DEF Place, Below
       <2>5. Cardinality(Below(fields, i)) \in Nat BY <2>3, FS_CardinalityType
       <2> QED BY <2>1, <2>2, <2>3, <2>4, <2>5
    <1>5. ASSUME NEW i \in 1..N PROVE Place(fields, i) \in 1..N
       <2>1. Place(fields, i) <= N BY <1>3, <1>4, FS_Subset
       <2>2. Place(fields, i) # 0
          <3>1. Below(fields, i) # {} BY <1>4
          <3>2. Cardinality(Below(fields, i)) # 0 BY <1>4, <3>1, FS_EmptySet
          <3> QED BY <1>4, <3>2
       <2>3. Place(fields, i) \in Nat BY <1>4
       <2> QED BY <2>1, <2>2, <2>3
    <1>6. ASSUME NEW i \in 1..N, NEW j \in 1..N, Before(fields, i, j)
          PROVE  Place(fields, i) < Place(fields, j)
       <2>1. PICK a \in Nat, b \in Nat : a = fields[i].type /\ b = fields[j].type BY <1>2
       <2>2. a < b \/ (a = b /\ i < j) BY <1>6, <2>1 DEF Before
       <2>3. ASSUME NEW k \in Below(fields, i) PROVE k \in Below(fields, j)
          <3>1. k \in 1..N BY <1>4
          <3>2. PICK c \in Nat : c = fields[k].type BY <1>2, <3>1
          <3>3. c < a \/ (c = a /\ k <= i) BY <2>1, <3>2 DEF Below
          <3>4. c < b \/ (c = b /\ k <= j) BY <2>2, <3>1, <3>3
          <3> QED BY <1>1, <2>1, <3>1, <3>2, <3>4 DEF Below
       <2>4. j \notin Below(fields, i)
          <3>1. ~(b < a \/ (b = a /\ j <= i)) BY <2>2
          <3> QED BY <2>1, <3>1 DEF Below
       <2>5. /\ Below(fields, i) \in SUBSET Below(fields, j) /\ Below(fields, i) # Below(fields, j)
          <3>1. Below(fields, i) \subseteq Below(fields, j) BY <2>3
          <3>2. j \in Below(fields, j) BY <1>4
          <3> QED BY <2>4, <3>1, <3>2
       <2>6. /\ Cardinality(Below(fields, i)) <= Cardinality(Below(fields, j))
             /\ Cardinality(Below(fields, j)) # Cardinality(Below(fields, i))
          <3>1. IsFiniteSet(Below(fields, j)) BY <1>4
          <3>2. /\ Cardinality(Below(fields, i)) <= Cardinality(Below(fields, j))
                /\ Cardinality(Below(fields, j)) = Cardinality(Below(fields, i)) =>
                      Below(fields, j) = Below(fields, i)
                BY <2>5, <3>1, FS_Subset
          <3> QED BY <2>5, <3>2
       <2>7. /\ Place(fields, i) \in Nat /\ Place(fields, i) = Cardinality(Below(fields, i))
             /\ Place(fields, j) \in Nat /\ Place(fields, j) = Cardinality(Below(fields, j))
             BY <1>4
       <2> QED BY <2>6, <2>7
    <1> QED BY <1>5, <1>6

\* c has the fields in the order of their types.
Sorts(c, fields) ==
    /\ c \in Seq(FieldSet) /\ Len(c) = Len(fields)
    /\ \A n \in 1..Len(fields) : \E i \in 1..Len(fields) : c[n] = fields[i]
    /\ \A i \in 1..Len(fields) : \E n \in 1..Len(fields) : c[n] = fields[i]
    /\ \A n \in 2..Len(fields) : c[n - 1].type <= c[n].type

\* Canonical sorts.
LEMMA CanonicalSorts ==
    ASSUME NEW fields \in Seq(FieldSet)
    PROVE  Sorts(Canonical(fields), fields)
    <1>1. PICK N \in Nat : N = Len(fields) /\ DOMAIN fields = 1..N BY LenProperties
    <1>2. \A i \in 1..N : fields[i] \in FieldSet /\ fields[i].type \in Nat BY <1>1, TypesAreNumbers
    <1>3. \A i \in 1..N : Place(fields, i) \in 1..N BY <1>1, PlaceFacts
    <1>4. \A i \in 1..N, j \in 1..N : Before(fields, i, j) => Place(fields, i) < Place(fields, j)
          BY <1>1, PlaceFacts
    <1>5. ASSUME NEW i \in 1..N, NEW j \in 1..N, i # j
          PROVE  Before(fields, i, j) \/ Before(fields, j, i)
       <2>1. PICK a \in Nat, b \in Nat : a = fields[i].type /\ b = fields[j].type BY <1>2
       <2>2. a < b \/ b < a \/ (a = b /\ i < j) \/ (b = a /\ j < i) BY <1>5
       <2>3. CASE a < b
          <3>1. fields[i].type < fields[j].type BY <2>1, <2>3
          <3> QED BY <3>1 DEF Before
       <2>4. CASE b < a
          <3>1. fields[j].type < fields[i].type BY <2>1, <2>4
          <3> QED BY <3>1 DEF Before
       <2>5. CASE a = b /\ i < j BY <2>1, <2>5 DEF Before
       <2>6. CASE b = a /\ j < i BY <2>1, <2>6 DEF Before
       <2> QED BY <2>2, <2>3, <2>4, <2>5, <2>6
    <1>6. ASSUME NEW i \in 1..N, NEW j \in 1..N, i # j PROVE Place(fields, i) # Place(fields, j)
       <2>1. Place(fields, i) \in Nat /\ Place(fields, j) \in Nat BY <1>3
       <2>2. Place(fields, i) < Place(fields, j) \/ Place(fields, j) < Place(fields, i)
             BY <1>4, <1>5, <1>6
       <2> QED BY <2>1, <2>2
    <1>7. PICK f : f = [i \in 1..N |-> Place(fields, i)] OBVIOUS
    <1>8. f \in Injection(1..N, 1..N) BY <1>3, <1>6, <1>7 DEF Injection, IsInjective
    <1>9. f \in Surjection(1..N, 1..N)
       <2>1. IsFiniteSet(1..N) BY FS_Interval
       <2> QED BY <1>8, <2>1, FS_Injection
    <1>10. ASSUME NEW n \in 1..N PROVE \E i \in 1..N : Place(fields, i) = n
           BY <1>7, <1>9 DEF Surjection
    <1>11. PICK q : q = [n \in 1..N |-> CHOOSE i \in 1..N : Place(fields, i) = n] OBVIOUS
    <1>12. ASSUME NEW n \in 1..N PROVE q[n] \in 1..N /\ Place(fields, q[n]) = n
           BY <1>10, <1>11
    <1>13. PICK c : c = Canonical(fields) OBVIOUS
    <1>14. c = [n \in 1..N |-> fields[q[n]]] BY <1>1, <1>11, <1>13 DEF Canonical
    <1>15. c \in Seq(FieldSet) /\ Len(c) = N
       <2>1. c \in [1..N -> FieldSet] BY <1>2, <1>12, <1>14
       <2> QED BY <2>1, Row
    <1>16. ASSUME NEW n \in 1..N PROVE \E i \in 1..N : c[n] = fields[i] BY <1>12, <1>14
    <1>17. ASSUME NEW i \in 1..N PROVE \E n \in 1..N : c[n] = fields[i]
       <2>1. PICK n \in 1..N : n = Place(fields, i) BY <1>3
       <2>2. q[n] \in 1..N /\ Place(fields, q[n]) = n BY <1>12
       <2>3. q[n] = i BY <1>6, <2>1, <2>2
       <2>4. c[n] = fields[i] BY <1>14, <2>3
       <2> QED BY <2>4
    <1>18. ASSUME NEW n \in 2..N PROVE c[n - 1].type <= c[n].type
       <2>1. PICK m \in 1..N : m = n - 1 OBVIOUS
       <2>2. PICK i \in 1..N, j \in 1..N : i = q[m] /\ j = q[n] /\ Place(fields, i) = m /\ Place(fields, j) = n
          <3>1. n \in 1..N OBVIOUS
          <3> QED BY <1>12, <3>1
       <2>3. ~Before(fields, j, i) BY <1>4, <2>1, <2>2
       <2>4. i # j BY <2>1, <2>2
       <2>5. Before(fields, i, j) BY <1>5, <2>3, <2>4
       <2>6. fields[i].type <= fields[j].type BY <1>2, <2>5 DEF Before
       <2>7. c[m] = fields[i] /\ c[n] = fields[j]
          <3>1. n \in 1..N OBVIOUS
          <3> QED BY <1>14, <2>2, <3>1
       <2> QED BY <2>1, <2>6, <2>7
    <1> QED BY <1>1, <1>13, <1>15, <1>16, <1>17, <1>18 DEF Sorts

\* In a strictly increasing stream every earlier field has a smaller type.
LEMMA IncreasingOrder ==
    ASSUME NEW fields \in Seq(FieldSet), StrictlyIncreasing(fields), NEW N \in Nat, N = Len(fields),
           NEW i \in 1..N
    PROVE  \A j \in (i + 1)..N : fields[i].type < fields[j].type
    <1>1. \A k \in 1..N : fields[k].type \in Nat BY TypesAreNumbers
    <1> DEFINE T == {j \in Nat : j \in (i + 1)..N /\ ~(fields[i].type < fields[j].type)}
    <1>2. T = {}
       <2>1. SUFFICES ASSUME T # {} PROVE FALSE OBVIOUS
       <2>2. PICK j \in T : \A m \in T : j <= m BY <2>1, Least
       <2>3. j \in Nat /\ j \in (i + 1)..N /\ ~(fields[i].type < fields[j].type) BY <2>2
       <2>4. PICK k \in Nat : k = j - 1 /\ k < j /\ k \in i..N BY <2>3
       <2>5. k \notin T
          <3>1. SUFFICES ASSUME k \in T PROVE FALSE OBVIOUS
          <3> HIDE DEF T
          <3>2. j <= k BY <2>2, <3>1
          <3> QED BY <2>3, <2>4, <3>2
       <2>6. PICK a \in Nat, b \in Nat, c \in Nat :
                a = fields[i].type /\ b = fields[k].type /\ c = fields[j].type
          <3>1. i \in 1..N /\ k \in 1..N /\ j \in 1..N BY <2>3, <2>4
          <3> QED BY <1>1, <3>1
       <2>7. b < c
          <3>1. j \in 2..Len(fields) BY <2>3
          <3>2. fields[j - 1].type < fields[j].type BY <3>1 DEF StrictlyIncreasing
          <3> QED BY <2>4, <2>6, <3>2
       <2>8. a <= b
          <3>1. CASE k = i BY <2>6, <3>1
          <3>2. CASE k # i
             <4>1. k \in (i + 1)..N BY <2>4, <3>2
             <4>2. fields[i].type < fields[k].type BY <2>4, <2>5, <4>1
             <4>3. a < b BY <2>6, <4>2
             <4> QED BY <4>3
          <3> QED BY <3>1, <3>2
       <2>9. a < c BY <2>7, <2>8
       <2> QED BY <2>3, <2>6, <2>9
    <1>3. ASSUME NEW j \in (i + 1)..N PROVE fields[i].type < fields[j].type
       <2>1. j \in Nat OBVIOUS
       <2> QED BY <1>2, <2>1
    <1> QED BY <1>3

\* A strictly increasing stream is in canonical order.
LEMMA IncreasingIsCanonical ==
    ASSUME NEW fields \in Seq(FieldSet), StrictlyIncreasing(fields)
    PROVE  Canonical(fields) = fields
    <1>1. PICK N \in Nat : N = Len(fields) /\ DOMAIN fields = 1..N BY LenProperties
    <1>2. \A i \in 1..N : fields[i].type \in Nat BY <1>1, TypesAreNumbers
    <1>3. ASSUME NEW i \in 1..N PROVE Place(fields, i) = i
       <2>1. ASSUME NEW j \in 1..N PROVE j \in Below(fields, i) <=> j <= i
          <3>1. PICK a \in Nat, b \in Nat : a = fields[i].type /\ b = fields[j].type BY <1>2
          <3>2. CASE j < i
             <4>1. i \in (j + 1)..N BY <3>2
             <4>2. b < a BY <1>1, <3>1, <4>1, IncreasingOrder
             <4> QED BY <1>1, <3>1, <3>2, <4>2 DEF Below
          <3>3. CASE j = i BY <1>1, <3>1, <3>3 DEF Below
          <3>4. CASE i < j
             <4>1. j \in (i + 1)..N BY <3>4
             <4>2. a < b BY <1>1, <3>1, <4>1, IncreasingOrder
             <4>3. ~(b < a) /\ b # a BY <4>2
             <4> QED BY <1>1, <3>1, <3>4, <4>3 DEF Below
          <3> QED BY <3>2, <3>3, <3>4
       <2>2. Below(fields, i) \subseteq 1..N BY <1>1 DEF Below
       <2>3. Below(fields, i) = 1..i
          <3>1. ASSUME NEW j PROVE j \in Below(fields, i) <=> j \in 1..i
             <4>1. j \in 1..i <=> j \in 1..N /\ j <= i OBVIOUS
             <4> QED BY <2>1, <2>2, <4>1
          <3> QED BY <3>1
       <2>4. Cardinality(1..i) = i
          <3>1. 1 \in Int /\ i \in Int OBVIOUS
          <3>2. Cardinality(1..i) = IF 1 > i THEN 0 ELSE i - 1 + 1 BY <3>1, FS_Interval, Zenon
          <3> QED BY <3>2
       <2> QED BY <2>3, <2>4 DEF Place, Below
    <1>4. ASSUME NEW n \in 1..N PROVE (CHOOSE i \in 1..N : Place(fields, i) = n) = n
       <2>1. Place(fields, n) = n BY <1>3
       <2>2. PICK c : c = CHOOSE i \in 1..N : Place(fields, i) = n OBVIOUS
       <2>3. c \in 1..N /\ Place(fields, c) = n BY <2>1, <2>2
       <2>4. c = n BY <1>3, <2>3
       <2> QED BY <2>2, <2>4
    <1>a. PICK q : q = [n \in 1..N |-> CHOOSE i \in 1..N : Place(fields, i) = n] OBVIOUS
    <1>b. Canonical(fields) = [n \in 1..N |-> fields[q[n]]] BY <1>1, <1>a DEF Canonical
    <1>c. ASSUME NEW n \in 1..N PROVE q[n] = n BY <1>4, <1>a
    <1>5. Canonical(fields) = [n \in 1..N |-> fields[n]] BY <1>b, <1>c
    <1>6. fields = [n \in 1..N |-> fields[n]] BY <1>1
    <1> QED BY <1>5, <1>6

\* What MarshalTLVs writes, and what ParseTLVs makes of items.
FieldOctets(fields) ==
    [i \in DOMAIN fields |->
        <<fields[i].type>> \o PutUint16(Len(fields[i].value)) \o fields[i].value]
FieldsOf(xs) == [i \in DOMAIN xs |-> [type |-> xs[i].head[1], value |-> xs[i].body]]
FieldsValid(fields) == \A i \in DOMAIN fields : validateTLVField(fields[i])

\* ParseTLVs, in these terms.
LEMMA TLVsParsed ==
    ASSUME NEW data
    PROVE  ParseTLVs(data) =
             IF Len(data) > MaxUint THEN Error
             ELSE IF Items(data, 3) = Error THEN Error
             ELSE IF StrictlyIncreasing(FieldsOf(Items(data, 3))) /\ FieldsValid(FieldsOf(Items(data, 3)))
             THEN FieldsOf(Items(data, 3)) ELSE Error
    BY DEF ParseTLVs, FieldsOf, FieldsValid, TLVHeaderSize

\* MarshalTLVs, in these terms.
LEMMA TLVsMarshalled ==
    ASSUME NEW fields
    PROVE  MarshalTLVs(fields) =
             IF /\ \A i \in 2..Len(fields) : Canonical(fields)[i - 1].type # Canonical(fields)[i].type
                /\ \A i \in DOMAIN fields : validateTLVField(fields[i]) /\ Len(fields[i].value) <= MaxUint
                /\ Len(FlattenSeq(FieldOctets(Canonical(fields)))) <= MaxUint
             THEN FlattenSeq(FieldOctets(Canonical(fields))) ELSE Error
    BY DEF MarshalTLVs, FieldOctets

\* The header of a field is its type and the length of its value.
LEMMA FieldHead ==
    ASSUME NEW head \in Seq(Octet), Len(head) = 3,
           NEW n \in Nat, GetUint16(head[2], head[3]) = n
    PROVE  <<head[1]>> \o PutUint16(n) = head
    <1>1. head[1] \in Octet /\ head[2] \in Octet /\ head[3] \in Octet
       <2>1. 1 \in 1..Len(head) /\ 2 \in 1..Len(head) /\ 3 \in 1..Len(head) OBVIOUS
       <2> QED BY <2>1, ElementOfSeq
    <1>2. PutUint16(n) = <<head[2], head[3]>> BY <1>1, LengthOctets, OctetsAreNumbers
    <1>3. PICK u, v : u = <<head[1]>> /\ v = <<head[2], head[3]>> OBVIOUS
    <1>4. /\ u \in Seq(Octet) /\ Len(u) = 1 /\ u[1] = head[1]
          /\ v \in Seq(Octet) /\ Len(v) = 2 /\ v[1] = head[2] /\ v[2] = head[3]
          BY <1>1, <1>3
    <1>5. PICK w : w = u \o v OBVIOUS
    <1>6. /\ w \in Seq(Octet) /\ Len(w) = 1 + 2 /\ w[1] = u[1]
          /\ \A i \in 1..2 : w[1 + i] = v[i]
       <2>1. GluedIn(Octet, u, v) BY <1>4, GlueFacts
       <2> QED BY <1>4, <1>5, <2>1 DEF GluedIn
    <1>7. Len(w) = 3 /\ w[1] = head[1] /\ w[2] = head[2] /\ w[3] = head[3]
       <2>1. w[1 + 1] = v[1] /\ w[1 + 2] = v[2] BY <1>6
       <2> QED BY <1>4, <1>6, <2>1
    <1>8. ASSUME NEW i \in 1..3 PROVE w[i] = head[i]
       <2>1. i = 1 \/ i = 2 \/ i = 3 OBVIOUS
       <2> QED BY <1>7, <2>1
    <1>9. w = head BY <1>6, <1>7, <1>8, SeqEqual
    <1> QED BY <1>2, <1>3, <1>5, <1>9

\* The octets of fields are those of the items they were parsed from.
LEMMA FieldsAreItems ==
    ASSUME NEW xs \in Seq(ItemSet(3))
    PROVE  FieldOctets(FieldsOf(xs)) = Octets(xs) /\ FieldsOf(xs) \in Seq(FieldSet)
    <1>1. PICK N \in Nat : N = Len(xs) /\ DOMAIN xs = 1..N BY LenProperties
    <1>2. PICK fields : fields = FieldsOf(xs) OBVIOUS
    <1>3. fields = [i \in 1..N |-> [type |-> xs[i].head[1], value |-> xs[i].body]]
          BY <1>1, <1>2 DEF FieldsOf
    <1>4. ASSUME NEW i \in 1..N
          PROVE  /\ <<fields[i].type>> \o PutUint16(Len(fields[i].value)) \o fields[i].value
                       = xs[i].head \o xs[i].body
                 /\ fields[i] \in FieldSet
       <2>1. PICK item \in ItemSet(3) : item = xs[i] BY <1>1
       <2>2. PICK head \in Seq(Octet), body \in Seq(Octet) : head = item.head /\ body = item.body
             BY DEF ItemSet
       <2>3. fields[i] = [type |-> head[1], value |-> body] BY <1>3, <2>1, <2>2
       <2>4. fields[i].type = head[1] /\ fields[i].value = body BY <2>3
       <2>5. PICK n \in Nat : n = Len(body) BY LenProperties
       <2>6. Len(head) = 3 /\ GetUint16(head[2], head[3]) = n BY <2>2, <2>5 DEF ItemSet
       <2>7. <<head[1]>> \o PutUint16(n) = head BY <2>6, FieldHead
       <2>8. head[1] \in Octet
          <3>1. 1 \in 1..Len(head) BY <2>6
          <3> QED BY <3>1, ElementOfSeq
       <2>9. fields[i] \in FieldSet BY <2>3, <2>8 DEF FieldSet
       <2> QED BY <2>1, <2>2, <2>4, <2>5, <2>7, <2>9
    <1>5. DOMAIN fields = 1..N BY <1>3
    <1>6. FieldOctets(fields) =
             [i \in 1..N |-> <<fields[i].type>> \o PutUint16(Len(fields[i].value)) \o fields[i].value]
          BY <1>5 DEF FieldOctets
    <1>7. Octets(xs) = [i \in 1..N |-> xs[i].head \o xs[i].body] BY <1>1 DEF Octets
    <1>8. FieldOctets(fields) = Octets(xs) BY <1>4, <1>6, <1>7
    <1>9. fields \in [1..N -> FieldSet] BY <1>3, <1>4
    <1>10. fields \in Seq(FieldSet) BY <1>9, Row
    <1> QED BY <1>2, <1>8, <1>10

\* A TLV stream that is accepted is marshalled to the same octets.
LEMMA TLVStream ==
    ASSUME NEW data \in Seq(Octet), NEW context, ParseTLVsFor(data, context) # Error
    PROVE  data = MarshalTLVsFor(ParseTLVsFor(data, context), context)
    <1>1. PICK xs : xs = Items(data, 3) OBVIOUS
    <1>2. PICK fields : fields = FieldsOf(xs) OBVIOUS
    <1>3. /\ ParseTLVs(data) # Error /\ ValidateTLVs(ParseTLVs(data), context)
          /\ ParseTLVsFor(data, context) = ParseTLVs(data)
          BY DEF ParseTLVsFor
    <1>4. /\ ~(Len(data) > MaxUint) /\ xs # Error /\ StrictlyIncreasing(fields)
          /\ FieldsValid(fields) /\ ParseTLVs(data) = fields
          BY <1>1, <1>2, <1>3, TLVsParsed
    <1>5. PICK len \in Nat : len = Len(data) BY LenProperties
    <1>6. len <= MaxUint /\ MaxUint \in Nat BY <1>4, <1>5, SizesAssumption
    <1>7. xs \in Seq(ItemSet(3)) /\ FlattenSeq(Octets(xs)) = data BY <1>1, <1>4, FlatOfItems
    <1>8. PICK N \in Nat : N = Len(xs) /\ DOMAIN xs = 1..N BY <1>7, LenProperties
    <1>9. FieldOctets(fields) = Octets(xs) /\ fields \in Seq(FieldSet)
          BY <1>2, <1>7, FieldsAreItems
    <1>10. DOMAIN fields = 1..N /\ Len(fields) = N
       <2>1. DOMAIN fields = 1..N BY <1>2, <1>8 DEF FieldsOf
       <2> QED BY <1>9, <2>1
    <1>11. Canonical(fields) = fields BY <1>4, <1>9, IncreasingIsCanonical
    <1>12. ASSUME NEW i \in 2..N PROVE fields[i - 1].type # fields[i].type
       <2>1. PICK j \in 1..N : j = i - 1 /\ i \in 1..N OBVIOUS
       <2>2. fields[j].type \in Nat /\ fields[i].type \in Nat BY <1>9, <1>10, <2>1, TypesAreNumbers
       <2>3. fields[j].type < fields[i].type BY <1>4, <1>10, <2>1 DEF StrictlyIncreasing
       <2>4. fields[j].type # fields[i].type BY <2>2, <2>3
       <2> QED BY <2>1, <2>4
    <1>13. ASSUME NEW i \in 1..N PROVE validateTLVField(fields[i]) /\ Len(fields[i].value) <= MaxUint
       <2>1. fields[i].value = xs[i].body BY <1>2, <1>8 DEF FieldsOf
       <2>2. Len(xs[i].body) \in Nat /\ Len(xs[i].body) <= Len(FlattenSeq(Octets(xs)))
             BY <1>7, <1>8, ItemsFit
       <2>3. Len(fields[i].value) <= MaxUint BY <1>5, <1>6, <1>7, <2>1, <2>2
       <2>4. validateTLVField(fields[i]) BY <1>4, <1>10 DEF FieldsValid
       <2> QED BY <2>3, <2>4
    <1>14. Len(FlattenSeq(FieldOctets(fields))) <= MaxUint BY <1>5, <1>6, <1>7, <1>9
    <1>15. MarshalTLVs(fields) = FlattenSeq(FieldOctets(fields))
       <2>1. \A i \in 2..Len(fields) : Canonical(fields)[i - 1].type # Canonical(fields)[i].type
             BY <1>10, <1>11, <1>12
       <2>2. \A i \in DOMAIN fields : validateTLVField(fields[i]) /\ Len(fields[i].value) <= MaxUint
             BY <1>10, <1>13
       <2> QED BY <1>11, <1>14, <2>1, <2>2, TLVsMarshalled
    <1>16. MarshalTLVsFor(fields, context) = data
           BY <1>3, <1>4, <1>7, <1>9, <1>15 DEF MarshalTLVsFor
    <1> QED BY <1>3, <1>4, <1>16

\* What a field is marshalled to.
FieldItem(field) ==
    [head |-> <<field.type>> \o PutUint16(Len(field.value)), body |-> field.value]

\* The header that MarshalTLVs writes says what the field is.
LEMMA FieldItemFacts ==
    ASSUME NEW t \in Octet, NEW body \in Seq(Octet), Len(body) <= MaxUint,
           NEW field, field = [type |-> t, value |-> body]
    PROVE  /\ FieldItem(field) \in ItemSet(3)
           /\ [type |-> FieldItem(field).head[1], value |-> FieldItem(field).body] = field
    <1>1. field.type = t /\ field.value = body OBVIOUS
    <1>2. PICK n \in Nat : n = Len(body) BY LenProperties
    <1>3. PICK v : v = PutUint16(n) OBVIOUS
    <1>4. v \in Seq(Octet) /\ Len(v) = 2 /\ GetUint16(v[1], v[2]) = n
          BY <1>2, <1>3, LengthFitsUint
    <1>5. PICK u : u = <<t>> OBVIOUS
    <1>6. u \in Seq(Octet) /\ Len(u) = 1 /\ u[1] = t BY <1>5
    <1>7. PICK w : w = u \o v OBVIOUS
    <1>8. /\ w \in Seq(Octet) /\ Len(w) = 1 + 2 /\ w[1] = u[1]
          /\ \A i \in 1..2 : w[1 + i] = v[i]
       <2>1. GluedIn(Octet, u, v) BY <1>4, <1>6, GlueFacts
       <2> QED BY <1>4, <1>6, <1>7, <2>1 DEF GluedIn
    <1>9. Len(w) = 3 /\ w[1] = t /\ w[2] = v[1] /\ w[3] = v[2]
       <2>1. w[1 + 1] = v[1] /\ w[1 + 2] = v[2] BY <1>8
       <2> QED BY <1>6, <1>8, <2>1
    <1>10. PICK item : item = [head |-> w, body |-> body] OBVIOUS
    <1>11. item.head = w /\ item.body = body BY <1>10
    <1>12. GetUint16(w[3 - 1], w[3]) = n BY <1>4, <1>9
    <1>13. item \in ItemSet(3) BY <1>2, <1>8, <1>9, <1>10, <1>11, <1>12 DEF ItemSet
    <1>14. FieldItem(field) = item BY <1>1, <1>2, <1>3, <1>5, <1>7, <1>10 DEF FieldItem
    <1>15. [type |-> item.head[1], value |-> item.body] = field BY <1>9, <1>11
    <1> QED BY <1>13, <1>14, <1>15

\* What is valid stays valid when it is sorted.
LEMMA SortedIsValid ==
    ASSUME NEW fields \in Seq(FieldSet), NEW c, Sorts(c, fields), NEW context,
           ValidateTLVs(fields, context)
    PROVE  ValidateTLVs(c, context)
    <1>1. PICK N \in Nat : N = Len(fields) /\ DOMAIN fields = 1..N BY LenProperties
    <1>2. /\ c \in Seq(FieldSet) /\ Len(c) = N
          /\ \A n \in 1..N : \E i \in 1..N : c[n] = fields[i]
          /\ \A i \in 1..N : \E n \in 1..N : c[n] = fields[i]
          BY <1>1 DEF Sorts
    <1>3. DOMAIN c = 1..N BY <1>2, LenProperties
    <1>4. Types(c) = Types(fields)
       <2>1. ASSUME NEW t PROVE t \in Types(c) <=> t \in Types(fields)
          <3>1. ASSUME t \in Types(c) PROVE t \in Types(fields)
             <4>1. PICK n \in 1..N : t = c[n].type BY <1>3, <3>1 DEF Types
             <4>2. PICK i \in 1..N : c[n] = fields[i] BY <1>2
             <4> QED BY <1>1, <4>1, <4>2 DEF Types
          <3>2. ASSUME t \in Types(fields) PROVE t \in Types(c)
             <4>1. PICK i \in 1..N : t = fields[i].type BY <1>1, <3>2 DEF Types
             <4>2. PICK n \in 1..N : c[n] = fields[i] BY <1>2
             <4> QED BY <1>3, <4>1, <4>2 DEF Types
          <3> QED BY <3>1, <3>2
       <2> QED BY <2>1
    <1>5. \A i \in 1..N : ValidIn(fields[i], context) BY <1>1 DEF ValidateTLVs
    <1>6. ASSUME NEW n \in 1..N PROVE ValidIn(c[n], context)
       <2>1. PICK i \in 1..N : c[n] = fields[i] BY <1>2
       <2> QED BY <1>5, <2>1
    <1>7. /\ Cardinality(Types(fields)) = Len(fields)
          /\ 141 \in Types(fields) <=> 142 \in Types(fields)
          /\ required(context) \subseteq Types(fields)
          /\ context = "handshake" => Types(fields) \cap {136, 137} # {}
          BY DEF ValidateTLVs
    <1>8. Cardinality(Types(c)) = Len(c) BY <1>1, <1>2, <1>4, <1>7
    <1> QED BY <1>3, <1>4, <1>6, <1>7, <1>8 DEF ValidateTLVs

\* Fields that are marshalled are parsed back, in canonical order.
LEMMA TLVValue ==
    ASSUME NEW fields \in Seq(FieldSet), NEW context, MarshalTLVsFor(fields, context) # Error
    PROVE  ParseTLVsFor(MarshalTLVsFor(fields, context), context) = Canonical(fields)
    <1>1. PICK c : c = Canonical(fields) OBVIOUS
    <1>2. PICK data : data = FlattenSeq(FieldOctets(c)) OBVIOUS
    <1>3. PICK N \in Nat : N = Len(fields) /\ DOMAIN fields = 1..N BY LenProperties
    <1>4. ValidateTLVs(fields, context) /\ MarshalTLVsFor(fields, context) = MarshalTLVs(fields)
          BY DEF MarshalTLVsFor
    <1>5. /\ \A i \in 2..N : c[i - 1].type # c[i].type
          /\ \A i \in 1..N : validateTLVField(fields[i]) /\ Len(fields[i].value) <= MaxUint
          /\ Len(data) <= MaxUint /\ MarshalTLVs(fields) = data
          BY <1>1, <1>2, <1>3, <1>4, TLVsMarshalled
    <1>6. Sorts(c, fields) BY <1>1, CanonicalSorts
    <1>7. /\ c \in Seq(FieldSet) /\ Len(c) = N
          /\ \A n \in 1..N : \E i \in 1..N : c[n] = fields[i]
          /\ \A n \in 2..N : c[n - 1].type <= c[n].type
          BY <1>3, <1>6 DEF Sorts
    <1>8. DOMAIN c = 1..N BY <1>7, LenProperties
    <1>9. ASSUME NEW n \in 1..N PROVE validateTLVField(c[n]) /\ Len(c[n].value) <= MaxUint
       <2>1. PICK i \in 1..N : c[n] = fields[i] BY <1>7
       <2> QED BY <1>5, <2>1
    <1>10. StrictlyIncreasing(c)
       <2>1. ASSUME NEW n \in 2..N PROVE c[n - 1].type < c[n].type
          <3>1. PICK m \in 1..N : m = n - 1 /\ n \in 1..N OBVIOUS
          <3>2. PICK a \in Nat, b \in Nat : a = c[m].type /\ b = c[n].type
                BY <1>7, <3>1, TypesAreNumbers
          <3>3. a <= b /\ a # b BY <1>5, <1>7, <3>1, <3>2
          <3>4. a < b BY <3>3
          <3> QED BY <3>1, <3>2, <3>4
       <2> QED BY <1>7, <2>1 DEF StrictlyIncreasing
    <1>11. PICK xs : xs = [n \in 1..N |-> FieldItem(c[n])] OBVIOUS
    <1>12. ASSUME NEW n \in 1..N
           PROVE  /\ xs[n] \in ItemSet(3)
                  /\ [type |-> xs[n].head[1], value |-> xs[n].body] = c[n]
                  /\ xs[n].head \o xs[n].body =
                        <<c[n].type>> \o PutUint16(Len(c[n].value)) \o c[n].value
       <2>1. PICK field \in FieldSet : field = c[n] BY <1>7, <1>8
       <2>2. xs[n] = FieldItem(field) BY <1>11, <2>1
       <2>3. PICK t \in Octet, body \in Seq(Octet) : field = [type |-> t, value |-> body]
             BY DEF FieldSet
       <2>4. field.value = body BY <2>3
       <2>5. Len(body) <= MaxUint BY <1>9, <2>1, <2>4
       <2>6. xs[n] \in ItemSet(3) /\ [type |-> xs[n].head[1], value |-> xs[n].body] = field
             BY <2>2, <2>3, <2>5, FieldItemFacts
       <2>7. xs[n].head = <<field.type>> \o PutUint16(Len(field.value)) /\ xs[n].body = field.value
             BY <2>2 DEF FieldItem
       <2> QED BY <2>1, <2>6, <2>7
    <1>13. xs \in [1..N -> ItemSet(3)] BY <1>11, <1>12
    <1>14. xs \in Seq(ItemSet(3)) /\ DOMAIN xs = 1..N BY <1>13, Row
    <1>15. Octets(xs) = FieldOctets(c) BY <1>8, <1>12, <1>14 DEF Octets, FieldOctets
    <1>16. FieldsOf(xs) = c
       <2>1. FieldsOf(xs) = [n \in 1..N |-> c[n]] BY <1>12, <1>14 DEF FieldsOf
       <2>2. c = [n \in 1..N |-> c[n]] BY <1>7, <1>8
       <2> QED BY <2>1, <2>2
    <1>17. Items(data, 3) = xs /\ data \in Seq(Octet) BY <1>2, <1>14, <1>15, ItemsOfFlat
    <1>18. xs # Error BY <1>14, NotError
    <1>19. ~(Len(data) > MaxUint)
       <2>1. MaxUint \in Nat BY SizesAssumption
       <2>2. Len(data) \in Nat BY <1>17, LenProperties
       <2> QED BY <1>5, <2>1, <2>2
    <1>20. FieldsValid(c) BY <1>8, <1>9 DEF FieldsValid
    <1>21. ParseTLVs(data) = c BY <1>10, <1>16, <1>17, <1>18, <1>19, <1>20, TLVsParsed
    <1>22. ValidateTLVs(c, context) BY <1>4, <1>6, SortedIsValid
    <1>23. ParseTLVsFor(data, context) = c BY <1>21, <1>22 DEF ParseTLVsFor
    <1> QED BY <1>1, <1>4, <1>5, <1>23

\* ParseTLVsFor accepts one encoding of a list of fields only, the one that
\* MarshalTLVsFor emits in the same context: for every stream.
THEOREM TLVStreamUnique ==
    ASSUME NEW context \in Contexts, NEW data \in Seq(Octet)
    PROVE  StreamUnique(StreamOf("tlv", context, data))
    <1>1. \/ ParseTLVsFor(data, context) = Error
          \/ data = MarshalTLVsFor(ParseTLVsFor(data, context), context)
          BY TLVStream
    <1> QED BY <1>1 DEF StreamUnique, StreamOf

\* So does ParseFrames, under every limit.
THEOREM FrameStreamUnique ==
    ASSUME NEW with \in Nat, NEW data \in Seq(Octet)
    PROVE  StreamUnique(StreamOf("frames", with, data))
    <1>1. \/ ParseFrames(data, with) = Error
          \/ data = MarshalFrames(ParseFrames(data, with), with)
          BY FramesStream
    <1> QED BY <1>1 DEF StreamUnique, StreamOf

\* Every list of fields that MarshalTLVsFor accepts, in whatever order, is what
\* ParseTLVsFor makes of the stream, sorted by type.
THEOREM TLVsSurvive ==
    ASSUME NEW context \in Contexts, NEW fields \in Seq(FieldSet)
    PROVE  ValueSurvives(ValueOf("tlv", context, fields))
    <1>1. MarshalTLVsFor(fields, context) # Error =>
             ParseTLVsFor(MarshalTLVsFor(fields, context), context) = Canonical(fields)
          BY TLVValue
    <1> QED BY <1>1 DEF ValueSurvives, ValueOf

\* Every list of frames that MarshalFrames accepts is what ParseFrames makes of
\* it under the same limit.
THEOREM FramesSurvive ==
    ASSUME NEW with \in Nat, NEW frames \in Seq(FrameSet)
    PROVE  ValueSurvives(ValueOf("frames", with, frames))
    <1>1. MarshalFrames(frames, with) # Error =>
             ParseFrames(MarshalFrames(frames, with), with) = frames
          BY FramesValue
    <1> QED BY <1>1 DEF ValueSurvives, ValueOf

-----------------------------------------------------------------------------
(* The samples of the run.                                                 *)

\* A sample of which the promise holds.
LEMMA StreamDraw ==
    ASSUME NEW of, NEW with, NEW data, StreamUnique(StreamOf(of, with, data)),
           Draw(StreamOf(of, with, data))
    PROVE  WireCanonical'
    <1>1. PICK s : s = StreamOf(of, with, data) OBVIOUS
    <1>2. StreamUnique(s) /\ s.form = "stream" BY <1>1 DEF StreamOf
    <1>3. sample' = s BY <1>1 DEF Draw
    <1> QED BY <1>2, <1>3 DEF WireCanonical, Drawn

\* Likewise for a value.
LEMMA ValueDraw ==
    ASSUME NEW of, NEW with, NEW value, ValueSurvives(ValueOf(of, with, value)),
           Draw(ValueOf(of, with, value))
    PROVE  WireCanonical'
    <1>1. PICK s : s = ValueOf(of, with, value) OBVIOUS
    <1>2. ValueSurvives(s) /\ s.form = "value" BY <1>1 DEF ValueOf
    <1>3. sample' = s BY <1>1 DEF Draw
    <1> QED BY <1>2, <1>3 DEF WireCanonical, Drawn

\* A sequence of equal octets.
LEMMA Filled ==
    ASSUME NEW octet \in Octet, NEW n \in Int
    PROVE  Fill(octet, n) \in Seq(Octet) /\ (n \in Nat => Len(Fill(octet, n)) = n)
    <1>1. CASE n \in Nat
       <2>1. Fill(octet, n) \in [1..n -> Octet] BY DEF Fill
       <2> QED BY <1>1, <2>1, Row
    <1>2. CASE n \notin Nat
       <2>1. 1..n = 1..0 BY <1>2
       <2>2. Fill(octet, n) \in [1..0 -> Octet] BY <2>1 DEF Fill
       <2>3. Fill(octet, n) \in Seq(Octet) BY <2>2, Row
       <2> QED BY <1>2, <2>3
    <1> QED BY <1>1, <1>2

\* A list is a sequence.
LEMMA Listed ==
    ASSUME NEW S, NEW items, items \subseteq S, NEW n \in Nat, NEW s \in Lists(items, n)
    PROVE  s \in Seq(S)
    <1>1. PICK k \in Nat : s \in [1..k -> items] BY DEF Lists
    <1>2. s \in [1..k -> S] BY <1>1
    <1> QED BY <1>2, Row

\* A stream without its last cells, however many, is a stream.
LEMMA Prefix ==
    ASSUME NEW S, NEW s \in Seq(S), NEW n \in Int, n <= Len(s)
    PROVE  SubSeq(s, 1, n) \in Seq(S)
    <1>1. PICK len \in Nat : len = Len(s) BY LenProperties
    <1>2. \A i \in 1..n : s[i] \in S BY <1>1
    <1> QED BY <1>2, SubSeqProperties

\* A damaged stream is a stream of octets.
LEMMA DamagedOctets ==
    ASSUME NEW data \in Seq(Octet), NEW d \in Damaged(data)
    PROVE  d \in Seq(Octet)
    <1>1. CASE d = data BY <1>1
    <1>2. CASE d = Append(data, 0)
       <2>1. 0 \in Octet BY DEF Octet
       <2> QED BY <1>2, <2>1
    <1>3. ASSUME NEW cut \in 1..4, d = SubSeq(data, 1, Len(data) - cut) PROVE d \in Seq(Octet)
       <2>1. PICK n \in Int : n = Len(data) - cut /\ n <= Len(data)
          <3>1. Len(data) \in Nat BY LenProperties
          <3> QED BY <3>1
       <2> QED BY <1>3, <2>1, Prefix
    <1> QED BY <1>1, <1>2, <1>3 DEF Damaged

\* Joined streams are a stream.
LEMMA FlatOctets ==
    ASSUME NEW seqs \in Seq(Seq(Octet))
    PROVE  FlattenSeq(seqs) \in Seq(Octet)
    <1>1. PICK g : Growing(g, seqs) /\ FlattenSeq(seqs) = g[Len(seqs)] BY FlattenFacts
    <1>2. Len(seqs) \in Nat BY LenProperties
    <1>3. Len(seqs) \in 0..Len(seqs) BY <1>2
    <1> QED BY <1>1, <1>3 DEF Growing

\* The fields that are sampled.
ShortFieldSet == {field \in FieldSet : Len(field.value) <= 255}

\* Their encoding, right or wrong, is a stream of octets.
LEMMA RawTLVsOctets ==
    ASSUME NEW fields \in Seq(ShortFieldSet)
    PROVE  RawTLVs(fields) \in Seq(Octet) /\ fields \in Seq(FieldSet)
    <1>1. PICK N \in Nat : N = Len(fields) /\ DOMAIN fields = 1..N BY LenProperties
    <1>2. PICK seqs : seqs = [i \in 1..N |-> <<fields[i].type>> \o PutUint16(Len(fields[i].value))
                                             \o fields[i].value] OBVIOUS
    <1>3. ASSUME NEW i \in 1..N PROVE seqs[i] \in Seq(Octet)
       <2>1. PICK field \in ShortFieldSet : field = fields[i] BY <1>1
       <2>2. PICK t \in Octet, value \in Seq(Octet) :
                field.type = t /\ field.value = value /\ Len(value) <= 255
             BY DEF ShortFieldSet, FieldSet
       <2>3. PICK n \in Nat : n = Len(value) /\ n <= 65535
          <3>1. Len(value) \in Nat BY LenProperties
          <3> QED BY <2>2, <3>1
       <2>4. PICK v \in Seq(Octet) : v = PutUint16(n) BY <2>3, LengthFits
       <2>5. <<t>> \in Seq(Octet) OBVIOUS
       <2>6. <<t>> \o v \o value \in Seq(Octet) BY <2>5
       <2> QED BY <1>2, <2>1, <2>2, <2>3, <2>4, <2>6
    <1>4. seqs \in [1..N -> Seq(Octet)] BY <1>2, <1>3
    <1>5. seqs \in Seq(Seq(Octet)) BY <1>4, Row
    <1>6. RawTLVs(fields) = FlattenSeq(seqs) BY <1>1, <1>2 DEF RawTLVs
    <1>7. ShortFieldSet \subseteq FieldSet BY DEF ShortFieldSet
    <1>8. fields \in Seq(FieldSet) BY <1>7, SeqMonotonic
    <1> QED BY <1>5, <1>6, <1>8, FlatOctets

\* The fields of the samples are such fields.
LEMMA TLVFieldsShort == TLVFields \subseteq ShortFieldSet
    <1>1. ASSUME NEW p \in TLVSizes PROVE [type |-> p[1], value |-> Fill(7, p[2])] \in ShortFieldSet
       <2>1. PICK t, n : t = p[1] /\ n = p[2] OBVIOUS
       <2>2. t \in {11, 12, 13, 129, 136, 143} /\ n \in 0..70
             BY <2>1 DEF TLVSizes, Around
       <2>3. t \in Octet /\ 7 \in Octet BY <2>2 DEF Octet
       <2>4. PICK value : value = Fill(7, n) OBVIOUS
       <2>5. value \in Seq(Octet) /\ Len(value) = n BY <2>2, <2>3, <2>4, Filled
       <2>6. [type |-> t, value |-> value] \in ShortFieldSet
             BY <2>2, <2>3, <2>5 DEF ShortFieldSet, FieldSet
       <2> QED BY <2>1, <2>4, <2>6
    <1> QED BY <1>1 DEF TLVFields

\* A message is a list of fields.
LEMMA MessageIsFields ==
    ASSUME NEW context, NEW rest \in Shortened(RequiredTypes(context)),
           NEW more \in Lists(OtherTypes, 2), NEW octet \in Octet
    PROVE  MessageFields(rest \o more, octet) \in Seq(FieldSet)
    <1>1. PICK all : all = RequiredTypes(context) OBVIOUS
    <1>2. all \in Seq(Octet)
       <2>1. 129..143 \subseteq Octet BY DEF Octet
       <2>2. RequiredTypes(context) \in Seq(129..143)
          <3>1. <<129, 130, 131, 133, 134, 135, 140>> \in Seq(129..143) OBVIOUS
          <3>2. <<129, 130, 131, 132, 133, 134, 135, 138, 139>> \in Seq(129..143) OBVIOUS
          <3>3. <<>> \in Seq(129..143) BY EmptySeq
          <3> QED BY <3>1, <3>2, <3>3, Zenon DEF RequiredTypes
       <2> QED BY <1>1, <2>1, <2>2, SeqMonotonic
    <1>3. ASSUME NEW i \in DOMAIN all PROVE RemoveAt(all, i) \in Seq(Octet)
       <2>1. PICK n \in Nat : n = Len(all) /\ DOMAIN all = 1..n BY <1>2, LenProperties
       <2>2. PICK m \in Nat : m = i - 1 /\ m <= n /\ i \in 1..n /\ i \in Nat BY <2>1
       <2>3. SubSeq(all, 1, m) \in Seq(Octet) BY <1>2, <2>1, <2>2, Prefix
       <2>4. From(all, i) \in Seq(Octet)
          <3>1. CutIn(Octet, all, i) BY <1>2, <2>1, <2>2, CutFacts
          <3> QED BY <3>1 DEF CutIn
       <2>5. SubSeq(all, i + 1, Len(all)) \in Seq(Octet) BY <2>4 DEF From
       <2> QED BY <2>2, <2>3, <2>5 DEF RemoveAt
    <1>4. PICK types : types = rest \o more OBVIOUS
    <1>5. rest \in Seq(Octet) BY <1>1, <1>2, <1>3 DEF Shortened
    <1>6. more \in Seq(Octet)
       <2>1. OtherTypes \subseteq Octet BY DEF OtherTypes, Octet
       <2> QED BY <2>1, Listed
    <1>7. types \in Seq(Octet) BY <1>4, <1>5, <1>6
    <1>8. PICK N \in Nat : DOMAIN types = 1..N BY <1>7, LenProperties
    <1>9. ASSUME NEW t \in Octet PROVE Sized(t, octet) \in FieldSet
       <2>1. PICK n : n = IF t \in DOMAIN fixedTLVLength THEN fixedTLVLength[t] ELSE 1 OBVIOUS
       <2>2. n \in Int
          <3>1. ASSUME t \in {12} \cup 129..142 PROVE fixedTLVLength[t] \in Int
                BY <3>1 DEF fixedTLVLength
          <3> QED BY <2>1, <3>1 DEF fixedTLVLength
       <2>3. Fill(octet, n) \in Seq(Octet) BY <2>2, Filled
       <2>4. Sized(t, octet) = [type |-> t, value |-> Fill(octet, n)] BY <2>1 DEF Sized
       <2> QED BY <2>3, <2>4 DEF FieldSet
    <1>10. MessageFields(types, octet) \in [1..N -> FieldSet]
           BY <1>7, <1>8, <1>9 DEF MessageFields
    <1> QED BY <1>4, <1>10, Row

\* Every sample of TLV streams and fields keeps the promise.
LEMMA TLVSamples == SampleTLVs => WireCanonical'
    <1>1. ASSUME NEW fields \in Lists(TLVFields, 3), NEW data \in Damaged(RawTLVs(fields)),
                 Draw([form |-> "stream", of |-> "tlv", with |-> "any", data |-> data])
          PROVE  WireCanonical'
       <2>1. fields \in Seq(ShortFieldSet) BY TLVFieldsShort, Listed
       <2>2. data \in Seq(Octet) BY <2>1, RawTLVsOctets, DamagedOctets
       <2>3. "any" \in Contexts BY DEF Contexts
       <2>4. StreamUnique(StreamOf("tlv", "any", data)) BY <2>2, <2>3, TLVStreamUnique
       <2>5. Draw(StreamOf("tlv", "any", data)) BY <1>1 DEF StreamOf
       <2> QED BY <2>4, <2>5, StreamDraw
    <1>2. ASSUME NEW fields \in Lists(TLVFields, 3),
                 Draw([form |-> "value", of |-> "tlv", with |-> "any", value |-> fields])
          PROVE  WireCanonical'
       <2>1. fields \in Seq(ShortFieldSet) BY TLVFieldsShort, Listed
       <2>2. fields \in Seq(FieldSet) BY <2>1, RawTLVsOctets
       <2>3. "any" \in Contexts BY DEF Contexts
       <2>4. ValueSurvives(ValueOf("tlv", "any", fields)) BY <2>2, <2>3, TLVsSurvive
       <2>5. Draw(ValueOf("tlv", "any", fields)) BY <1>2 DEF ValueOf
       <2> QED BY <2>4, <2>5, ValueDraw
    <1>3. ASSUME NEW context \in Contexts, NEW octet \in {7, 40}, NEW others \in Lists(OtherTypes, 2),
                 NEW types \in Shortened(RequiredTypes(context)),
                 Draw([form |-> "value", of |-> "tlv", with |-> context,
                       value |-> MessageFields(types \o others, octet)])
          PROVE  WireCanonical'
       <2>1. octet \in Octet BY DEF Octet
       <2>2. PICK fields \in Seq(FieldSet) : fields = MessageFields(types \o others, octet)
             BY <2>1, MessageIsFields
       <2>3. ValueSurvives(ValueOf("tlv", context, fields)) BY TLVsSurvive
       <2>4. Draw(ValueOf("tlv", context, fields)) BY <1>3, <2>2 DEF ValueOf
       <2> QED BY <2>3, <2>4, ValueDraw
    <1> QED BY <1>1, <1>2, <1>3 DEF SampleTLVs

\* The frames that are sampled.
ShortFrameSet == {frame \in FrameSet : Len(frame.body) <= 255}

\* Their encoding, right or wrong, is a stream of octets.
LEMMA RawFramesOctets ==
    ASSUME NEW frames \in Seq(ShortFrameSet)
    PROVE  RawFrames(frames) \in Seq(Octet) /\ frames \in Seq(FrameSet)
    <1>1. PICK N \in Nat : N = Len(frames) /\ DOMAIN frames = 1..N BY LenProperties
    <1>2. PICK seqs : seqs = [i \in 1..N |-> <<frames[i].type, frames[i].flags>>
                                 \o PutUint16(Len(frames[i].body)) \o frames[i].body] OBVIOUS
    <1>3. ASSUME NEW i \in 1..N PROVE seqs[i] \in Seq(Octet)
       <2>1. PICK frame \in ShortFrameSet : frame = frames[i] BY <1>1
       <2>2. PICK t \in Octet, f \in Octet, body \in Seq(Octet) :
                /\ frame.type = t /\ frame.flags = f /\ frame.body = body
                /\ Len(body) <= 255
             BY DEF ShortFrameSet, FrameSet
       <2>3. PICK n \in Nat : n = Len(body) /\ n <= 65535
          <3>1. Len(body) \in Nat BY LenProperties
          <3> QED BY <2>2, <3>1
       <2>4. PICK v \in Seq(Octet) : v = PutUint16(n) BY <2>3, LengthFits
       <2>5. <<t, f>> \in Seq(Octet) OBVIOUS
       <2>6. <<t, f>> \o v \o body \in Seq(Octet) BY <2>5
       <2> QED BY <1>2, <2>1, <2>2, <2>3, <2>4, <2>6
    <1>4. seqs \in [1..N -> Seq(Octet)] BY <1>2, <1>3
    <1>5. seqs \in Seq(Seq(Octet)) BY <1>4, Row
    <1>6. RawFrames(frames) = FlattenSeq(seqs) BY <1>1, <1>2 DEF RawFrames
    <1>7. ShortFrameSet \subseteq FrameSet BY DEF ShortFrameSet
    <1>8. frames \in Seq(FrameSet) BY <1>7, SeqMonotonic
    <1> QED BY <1>5, <1>6, <1>8, FlatOctets

\* At most 255 octets.
Short(s) == s \in Seq(Octet) /\ Len(s) <= 255

\* The bodies of the samples are short.
LEMMA BodiesShort ==
    ASSUME NEW t \in 0..9, NEW body \in Bodies(t)
    PROVE  body \in Seq(Octet) /\ Len(body) <= 255
    <1>1. ASSUME NEW o \in {0, 7}, NEW n \in 0..40
          PROVE  Fill(o, n) \in Seq(Octet) /\ Len(Fill(o, n)) = n
       <2>1. o \in Octet BY DEF Octet
       <2> QED BY <2>1, Filled
    <1>2. Short(<<>>) /\ Short(<<80>>) /\ Short(<<0, 1, 200>>)
       <2>1. {0, 1, 80, 200} \subseteq Octet BY DEF Octet
       <2> QED BY <2>1 DEF Short
    <1>3. ASSUME NEW s \in Seq(Octet), Len(s) <= 6, NEW n \in 0..40 PROVE Short(s \o Fill(0, n))
       <2>1. PICK f \in Seq(Octet) : f = Fill(0, n) /\ Len(f) = n BY <1>1
       <2>2. GluedIn(Octet, s, f) BY <2>1, GlueFacts
       <2>3. s \o f \in Seq(Octet) /\ Len(s \o f) = Len(s) + Len(f) BY <2>2 DEF GluedIn
       <2>4. Len(s) \in Nat BY LenProperties
       <2> QED BY <1>3, <2>1, <2>3, <2>4 DEF Short
    <1>4. ASSUME NEW ihl \in 4..6, NEW total \in 19..24, NEW n \in 19..24
          PROVE  Short(IPv4(ihl, total, n))
       <2>1. 64 + ihl \in Octet /\ 0 \in Octet /\ total \in Octet BY DEF Octet
       <2>2. PICK s : s = <<64 + ihl, 0, 0, total>> OBVIOUS
       <2>3. s \in Seq(Octet) /\ Len(s) = 4 BY <2>1, <2>2
       <2>4. PICK k \in 0..40 : k = n - 4 OBVIOUS
       <2>5. IPv4(ihl, total, n) = s \o Fill(0, k) BY <2>2, <2>4 DEF IPv4
       <2>6. Len(s) <= 6 BY <2>3
       <2>7. Short(s \o Fill(0, k)) BY <1>3, <2>3, <2>6
       <2> QED BY <2>5, <2>7
    <1>5. ASSUME NEW payload \in 0..1, NEW n \in 39..41 PROVE Short(IPv6(payload, n))
       <2>1. 96 \in Octet /\ 0 \in Octet /\ payload \in Octet BY DEF Octet
       <2>2. PICK s : s = <<96, 0, 0, 0, 0, payload>> OBVIOUS
       <2>3. s \in Seq(Octet) /\ Len(s) = 6 BY <2>1, <2>2
       <2>4. PICK k \in 0..40 : k = n - 6 OBVIOUS
       <2>5. IPv6(payload, n) = s \o Fill(0, k) BY <2>2, <2>4 DEF IPv6
       <2>6. Len(s) <= 6 BY <2>3
       <2>7. Short(s \o Fill(0, k)) BY <1>3, <2>3, <2>6
       <2> QED BY <2>5, <2>7
    <1>6. ASSUME body \in IPBodies PROVE Short(body)
       <2>1. Short(IPv4(5, 19, 19)) /\ Short(IPv4(5, 20, 20)) /\ Short(IPv4(5, 21, 20))
             BY <1>4
       <2>2. Short(IPv4(4, 20, 20)) /\ Short(IPv4(6, 20, 20)) /\ Short(IPv4(6, 24, 24))
             BY <1>4
       <2>3. Short(IPv6(0, 39)) /\ Short(IPv6(0, 40)) /\ Short(IPv6(1, 41)) /\ Short(IPv6(1, 40))
             BY <1>5
       <2> QED BY <1>2, <1>6, <2>1, <2>2, <2>3 DEF IPBodies
    <1>7. ASSUME NEW n \in 0..3 PROVE Short(Fill(7, n))
       <2>1. Fill(7, n) \in Seq(Octet) /\ Len(Fill(7, n)) = n
          <3>1. n \in 0..40 /\ 7 \in {0, 7} OBVIOUS
          <3> QED BY <1>1, <3>1
       <2>2. PICK f : f = Fill(7, n) OBVIOUS
       <2>3. f \in Seq(Octet) /\ Len(f) <= 255 BY <2>1, <2>2
       <2> QED BY <2>2, <2>3 DEF Short
    <1>8. Short(body) BY <1>2, <1>6, <1>7 DEF Bodies
    <1> QED BY <1>8 DEF Short

\* The frames of the samples are such frames.
LEMMA FramesShort == Frames \subseteq ShortFrameSet
    <1>1. ASSUME NEW t \in 0..9, NEW body \in Bodies(t)
          PROVE  [type |-> t, flags |-> 0, body |-> body] \in ShortFrameSet
       <2>1. t \in Octet /\ 0 \in Octet BY DEF Octet
       <2> QED BY <2>1, BodiesShort DEF ShortFrameSet, FrameSet
    <1>2. Flagged \in ShortFrameSet
       <2>1. 3 \in Octet /\ 1 \in Octet /\ 7 \in Octet BY DEF Octet
       <2>2. <<7>> \in Seq(Octet) /\ Len(<<7>>) <= 255 BY <2>1
       <2> QED BY <2>1, <2>2 DEF ShortFrameSet, FrameSet, Ping, Flagged
    <1>3. ASSUME NEW frame \in PlainFrames PROVE frame \in ShortFrameSet
       <2>1. \E t \in 0..9 : \E body \in Bodies(t) : frame = [type |-> t, flags |-> 0, body |-> body]
             BY Zenon DEF PlainFrames
       <2> QED BY <1>1, <2>1
    <1> QED BY <1>2, <1>3 DEF Frames

\* Every sample of frames keeps the promise.
LEMMA FrameSamples == SampleFrames => WireCanonical'
    <1>1. ASSUME NEW frames \in Lists(Frames, 2) \cup [1..3 -> ControlFrames]
          PROVE  frames \in Seq(ShortFrameSet)
       <2>1. CASE frames \in Lists(Frames, 2) BY <2>1, FramesShort, Listed
       <2>2. CASE frames \in [1..3 -> ControlFrames]
          <3>1. ControlFrames \subseteq ShortFrameSet BY FramesShort DEF ControlFrames
          <3>2. frames \in [1..3 -> ShortFrameSet] BY <2>2, <3>1
          <3> QED BY <3>2, Row
       <2> QED BY <2>1, <2>2
    <1>2. ASSUME NEW frames \in Seq(ShortFrameSet), NEW limit \in {0, 3, 15, 24},
                 NEW data \in Damaged(RawFrames(frames)),
                 Draw([form |-> "stream", of |-> "frames", with |-> limit, data |-> data])
          PROVE  WireCanonical'
       <2>1. data \in Seq(Octet) BY RawFramesOctets, DamagedOctets
       <2>2. limit \in Nat OBVIOUS
       <2>3. StreamUnique(StreamOf("frames", limit, data)) BY <2>1, <2>2, FrameStreamUnique
       <2>4. Draw(StreamOf("frames", limit, data)) BY <1>2 DEF StreamOf
       <2> QED BY <2>3, <2>4, StreamDraw
    <1>3. ASSUME NEW frames \in Seq(ShortFrameSet), NEW limit \in {0, 3, 15, 24},
                 Draw([form |-> "value", of |-> "frames", with |-> limit, value |-> frames])
          PROVE  WireCanonical'
       <2>1. frames \in Seq(FrameSet) BY RawFramesOctets
       <2>2. limit \in Nat OBVIOUS
       <2>3. ValueSurvives(ValueOf("frames", limit, frames)) BY <2>1, <2>2, FramesSurvive
       <2>4. Draw(ValueOf("frames", limit, frames)) BY <1>3 DEF ValueOf
       <2> QED BY <2>3, <2>4, ValueDraw
    <1> QED BY <1>1, <1>2, <1>3 DEF SampleFrames

\* Every sample of payloads keeps the promise.
LEMMA PayloadSamples == SamplePayloads => WireCanonical'
    <1>1. ASSUME NEW data \in Lists(0..2, 8), NEW kind \in {"initial", "handshake"},
                 Draw([form |-> "stream", of |-> kind, with |-> 0, data |-> data])
          PROVE  WireCanonical'
       <2>1. 0..2 \subseteq Octet BY DEF Octet
       <2>2. data \in Seq(Octet) BY <2>1, Listed
       <2>3. StreamUnique(StreamOf(kind, 0, data)) BY <2>2, PayloadStreamUnique
       <2>4. Draw(StreamOf(kind, 0, data)) BY <1>1 DEF StreamOf
       <2> QED BY <2>3, <2>4, StreamDraw
    <1>2. ASSUME NEW token \in 0..144, NEW encrypted \in 0..3,
                 Draw([form |-> "value", of |-> "initial", with |-> 0,
                       value |-> [token |-> Fill(7, token), key |-> Fill(8, EphemeralPublicKeySize),
                                  encrypted |-> Fill(9, encrypted)]])
          PROVE  WireCanonical'
       <2>1. 7 \in Octet /\ 8 \in Octet /\ 9 \in Octet BY DEF Octet
       <2>2. PICK size \in Nat : size = EphemeralPublicKeySize BY SizesAssumption
       <2>3. PICK t \in Seq(Octet) : t = Fill(7, token) BY <2>1, Filled
       <2>4. PICK k \in Seq(Octet) : k = Fill(8, size) /\ Len(k) = size
          <3>1. size \in Int OBVIOUS
          <3> QED BY <2>1, <3>1, Filled
       <2>5. PICK e \in Seq(Octet) : e = Fill(9, encrypted) BY <2>1, Filled
       <2>6. PICK p : p = [token |-> t, key |-> k, encrypted |-> e] OBVIOUS
       <2>7. ValueSurvives(ValueOf("initial", 0, p)) BY <2>2, <2>4, <2>6, PayloadSurvives
       <2>8. Draw(ValueOf("initial", 0, p)) BY <1>2, <2>2, <2>3, <2>4, <2>5, <2>6 DEF ValueOf
       <2> QED BY <2>7, <2>8, ValueDraw
    <1> QED BY <1>1, <1>2 DEF SamplePayloads

\* Every sample of datagrams keeps the promise.
LEMMA PacketSamples == SamplePackets => WireCanonical'
    <1>1. Headers \subseteq HeaderSet BY DEF Headers, HeaderSet
    <1>2. Payloads \subseteq Seq(Nat)
       <2>1. <<>> \in Seq(Nat) BY EmptySeq
       <2>2. <<7>> \in Seq(Nat) /\ <<5, 0, 1, 9>> \in Seq(Nat) /\ <<0, 0, 5, 0, 1, 9>> \in Seq(Nat)
             OBVIOUS
       <2> QED BY <2>1, <2>2 DEF Payloads
    <1>3. {0, HeaderSize - 1, HeaderSize + 4} \subseteq Nat BY DEF HeaderSize
    <1>4. ASSUME NEW header \in Headers, NEW payload \in Payloads, NEW limit \in Nat,
                 Draw([form |-> "stream", of |-> "packet", with |-> limit,
                       data |-> HeaderMarshal(header) \o payload])
          PROVE  WireCanonical'
       <2>1. PICK h \in HeaderSet, p \in Seq(Nat) : h = header /\ p = payload BY <1>1, <1>2
       <2>2. PICK data : data = HeaderMarshal(h) \o p OBVIOUS
       <2>3. data \in Seq(Nat) /\ parseHeaderPrefix(data) = h BY <2>2, PacketCells
       <2>4. data[8] \in Octet
          <3>1. PICK x : x = HeaderMarshal(h) OBVIOUS
          <3>2. x \in Seq(Nat) /\ Len(x) = 9 BY <3>1, HeaderCells
          <3>3. PICK n \in Nat : n = h.payloadLength BY DEF HeaderSet
          <3>4. PICK low \in Octet : low = n % 256
             <4>1. n % 256 \in 0..255 OBVIOUS
             <4> QED BY <4>1 DEF Octet
          <3>5. x[8] = low
             <4>1. PutUint16(n)[2] = low BY <3>4 DEF PutUint16
             <4>2. HeaderMarshal(h)[8] = PutUint16(n)[2] BY <3>3 DEF HeaderMarshal
             <4> QED BY <3>1, <4>1, <4>2
          <3>6. GluedIn(Nat, x, p) BY <3>2, GlueFacts
          <3>7. (x \o p)[8] = x[8]
             <4>1. 8 \in 1..Len(x) BY <3>2
             <4> QED BY <3>6, <4>1 DEF GluedIn
          <3> QED BY <2>2, <3>1, <3>5, <3>7
       <2>5. StreamUnique(StreamOf("packet", limit, data)) BY <2>3, <2>4, DatagramStreamUnique
       <2>6. Draw(StreamOf("packet", limit, data)) BY <1>4, <2>1, <2>2 DEF StreamOf
       <2> QED BY <2>5, <2>6, StreamDraw
    <1>5. ASSUME NEW header \in Headers, NEW payload \in Payloads, NEW limit \in Nat,
                 Draw([form |-> "value", of |-> "packet", with |-> limit,
                       value |-> [header |-> header, payload |-> payload]])
          PROVE  WireCanonical'
       <2>1. PICK h \in HeaderSet, p \in Seq(Nat) : h = header /\ p = payload BY <1>1, <1>2
       <2>2. PICK v : v = [header |-> h, payload |-> p] OBVIOUS
       <2>3. ValueSurvives(ValueOf("packet", limit, v)) BY <2>2, DatagramSurvives
       <2>4. Draw(ValueOf("packet", limit, v)) BY <1>5, <2>1, <2>2 DEF ValueOf
       <2> QED BY <2>3, <2>4, ValueDraw
    <1> QED BY <1>3, <1>4, <1>5 DEF SamplePackets

\* Every sample of relay requests keeps the promise.
LEMMA RelaySamples == SampleUDP => WireCanonical'
    <1>1. {58, 104, 7, 1, 2} \subseteq Octet BY DEF Octet
    <1>2. ASSUME NEW target \in Targets PROVE target \in Seq(Octet)
       <2>1. CASE target \in Lists({58, 104}, 3)
          <3>1. {58, 104} \subseteq Octet BY <1>1
          <3> QED BY <2>1, <3>1, Listed
       <2>2. ASSUME NEW n \in Around(MaxUint - 1), target = Append(Fill(104, n), 58)
             PROVE  target \in Seq(Octet)
          <3>1. MaxUint \in Int BY SizesAssumption
          <3>2. n \in Int BY <3>1 DEF Around
          <3>3. Fill(104, n) \in Seq(Octet) BY <1>1, <3>2, Filled
          <3> QED BY <1>1, <2>2, <3>3
       <2> QED BY <2>1, <2>2 DEF Targets
    <1>3. ASSUME NEW body \in Lists({58, 7}, 2) PROVE body \in Seq(Octet)
       <2>1. {58, 7} \subseteq Octet BY <1>1
       <2> QED BY <2>1, Listed
    <1>4. ASSUME NEW target \in Seq(Octet), NEW body \in Seq(Octet), NEW type \in {1, 2},
                 NEW n \in 0..MaxUint, NEW d \in Damaged(target \o body),
                 Draw([form |-> "stream", of |-> "udp", with |-> 0,
                       data |-> <<type>> \o PutUint16(n) \o d])
          PROVE  WireCanonical'
       <2>1. target \o body \in Seq(Octet)
          <3>1. GluedIn(Octet, target, body) BY GlueFacts
          <3> QED BY <3>1 DEF GluedIn
       <2>2. d \in Seq(Octet) BY <2>1, DamagedOctets
       <2>3. n \in Nat /\ n <= MaxUint BY SizesAssumption
       <2>4. PICK y : y = PutUint16(n) OBVIOUS
       <2>5. y \in Seq(Octet) /\ Len(y) = 2 /\ GetUint16(y[1], y[2]) = n
             BY <2>3, <2>4, LengthFitsUint
       <2>6. PICK x : x = <<type>> \o y OBVIOUS
       <2>7. x \in Seq(Octet) /\ Len(x) = 3 /\ x[2] = y[1] /\ x[3] = y[2]
             BY <1>1, <2>5, <2>6, OneMore
       <2>8. PICK data : data = x \o d OBVIOUS
       <2>9. data \in Seq(Octet) /\ data[2] = x[2] /\ data[3] = x[3]
          <3>1. GluedIn(Octet, x, d) BY <2>2, <2>7, GlueFacts
          <3>2. 2 \in 1..Len(x) /\ 3 \in 1..Len(x) BY <2>7
          <3> QED BY <2>8, <3>1, <3>2 DEF GluedIn
       <2>10. GetUint16(data[2], data[3]) <= MaxUint BY <2>3, <2>5, <2>7, <2>9
       <2>11. StreamUnique(StreamOf("udp", 0, data)) BY <2>9, <2>10, RelayStreamUnique
       <2>12. Draw(StreamOf("udp", 0, data)) BY <1>4, <2>4, <2>6, <2>8 DEF StreamOf
       <2> QED BY <2>11, <2>12, StreamDraw
    <1>5. ASSUME NEW target \in Seq(Octet), NEW body \in Seq(Octet),
                 Draw([form |-> "value", of |-> "udp", with |-> 0,
                       value |-> [target |-> target, body |-> body]])
          PROVE  WireCanonical'
       <2>1. PICK v : v = [target |-> target, body |-> body] OBVIOUS
       <2>2. ValueSurvives(ValueOf("udp", 0, v)) BY <2>1, RelaySurvives
       <2>3. Draw(ValueOf("udp", 0, v)) BY <1>5, <2>1 DEF ValueOf
       <2> QED BY <2>2, <2>3, ValueDraw
    <1> QED BY <1>2, <1>3, <1>4, <1>5 DEF SampleUDP

\* Every stream and value of the run's behaviours, in whatever format, context
\* and limit, is encoded in one way only: the invariant of the run, for all
\* sizes and limits that the constants can stand for.
THEOREM EncodingsAreCanonical == MCSpec => []WireCanonical
    <1>1. MCInit => WireCanonical BY DEF MCInit, WireCanonical, Drawn
    <1>2. WireCanonical /\ [MCNext]_<<vars, sample>> => WireCanonical'
       <2> SUFFICES ASSUME WireCanonical, [MCNext]_<<vars, sample>> PROVE WireCanonical' OBVIOUS
       <2>1. CASE UNCHANGED sample BY <2>1 DEF WireCanonical, Drawn
       <2>2. CASE SampleTLVs \/ SampleFrames \/ SamplePayloads \/ SamplePackets \/ SampleUDP
             BY <2>2, TLVSamples, FrameSamples, PayloadSamples, PacketSamples, RelaySamples
       <2>3. CASE SampleBackoff
             BY <2>3 DEF SampleBackoff, Draw, WireCanonical, Drawn
       <2> QED BY <2>1, <2>2, <2>3 DEF MCNext
    <1> QED BY <1>1, <1>2, PTL DEF MCSpec
=============================================================================
