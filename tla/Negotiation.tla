---------------------------- MODULE Negotiation -----------------------------
(***************************************************************************)
(* How client and server of internal/handshake agree on address families,  *)
(* datagram size, tunnel MTU and leases: the normalisation of both         *)
(* configurations (types.go), what INITIAL asks for, what HandleInitial    *)
(* selects and refuses (server.go) and what Finish accepts (client.go).    *)
(*                                                                         *)
(* Sizes are uint16: a subtraction that goes below zero wraps around.  An  *)
(* INITIAL comes from a client of this implementation or from any other    *)
(* peer that holds a registered key, whose fields are arbitrary.           *)
(***************************************************************************)
EXTENDS Integers

CONSTANTS
    MaxUint16,      \* 65535 in the code
    Overhead,       \* HeaderSize + AEADTagSize + FrameHeaderSize (52)
    MinimumMTU,     \* 576
    DefaultSize,    \* codec.DefaultMaxDatagramSize
    DefaultLease,   \* 600 seconds
    LeaseSeconds,   \* bound: the lease times a configuration may name
    WireSizes,      \* bound: the sizes of whole INITIAL and HANDSHAKE datagrams
    None            \* nothing yet

ASSUME SizeAssumption ==
    /\ MaxUint16 \in Nat /\ Overhead \in Nat /\ MinimumMTU \in Nat \ {0}
    /\ DefaultSize \in Nat
    /\ Overhead + MinimumMTU <= DefaultSize /\ DefaultSize <= MaxUint16
ASSUME LeaseAssumption ==
    LeaseSeconds \subseteq Nat /\ DefaultLease \in Nat \ {0}
ASSUME WireAssumption == WireSizes \subseteq Nat
ASSUME NoneAssumption == None \notin {"refused", "rejected", "negotiated"}

Uint16 == 0..MaxUint16
Families == {"ipv4", "ipv6"}
FamilyBits == Families \cup {"other"}       \* the byte may hold unknown bits

VARIABLES
    client,         \* clientOptions
    server,         \* serverOptions
    request,        \* the fields of INITIAL
    answer,         \* the fields of HANDSHAKE
    outcome         \* of HandleInitial or Finish

vars == <<client, server, request, answer, outcome>>

\* uint16 subtraction.
Minus(a, b) == IF a >= b THEN a - b ELSE a - b + MaxUint16 + 1
minUint16(left, right) == IF left < right THEN left ELSE right
OrDefault(value, default) == IF value = 0 THEN default ELSE value

-----------------------------------------------------------------------------
(* Configuration.                                                          *)

\* wireSize: the size of the INITIAL, which the retry token determines.
ClientConfigs ==
    [addressFamilies : SUBSET FamilyBits, maxDatagramSize : Uint16,
     minTunnelMTU : Uint16, maxTunnelMTU : Uint16, wireSize : WireSizes]

normalizeClientConfig(config) ==
    LET size == OrDefault(config.maxDatagramSize, DefaultSize) IN
    [addressFamilies |-> IF config.addressFamilies = {} THEN Families
                         ELSE config.addressFamilies,
     maxDatagramSize |-> size,
     minTunnelMTU |-> OrDefault(config.minTunnelMTU, MinimumMTU),
     maxTunnelMTU |-> OrDefault(config.maxTunnelMTU, Minus(size, Overhead)),
     wireSize |-> config.wireSize]

ValidClientOptions(options) ==
    /\ options.addressFamilies \subseteq Families
    /\ options.maxDatagramSize >= Overhead + MinimumMTU
    /\ options.minTunnelMTU <= options.maxTunnelMTU

\* unicast: the leases whose address a client accepts (global unicast);
\* wireSize: the size of the HANDSHAKE, which the DNS parameters determine.
ServerConfigs ==
    [addressFamilies : SUBSET FamilyBits, maxDatagramSize : Uint16,
     tunnelMTU : Uint16, leaseSeconds : LeaseSeconds,
     leases : SUBSET Families, unicast : SUBSET Families, wireSize : WireSizes]

normalizeServerConfig(config) ==
    LET size == OrDefault(config.maxDatagramSize, DefaultSize) IN
    [addressFamilies |-> IF config.addressFamilies = {} THEN {"ipv4"}
                         ELSE config.addressFamilies,
     maxDatagramSize |-> size,
     tunnelMTU |-> OrDefault(config.tunnelMTU, Minus(size, Overhead)),
     leaseSeconds |-> OrDefault(config.leaseSeconds, DefaultLease),
     leases |-> config.leases, unicast |-> config.unicast,
     wireSize |-> config.wireSize]

ValidServerOptions(options) ==
    /\ options.addressFamilies \subseteq Families
    /\ options.maxDatagramSize >= Overhead + MinimumMTU
    /\ MinimumMTU <= options.tunnelMTU
    /\ options.tunnelMTU <= Minus(options.maxDatagramSize, Overhead)
    /\ options.leases # {}

NewClient ==
    /\ server # None /\ client = None /\ request = None
    /\ \E config \in ClientConfigs :
          /\ ValidClientOptions(normalizeClientConfig(config))
          /\ client' = normalizeClientConfig(config)
    /\ UNCHANGED <<server, request, answer, outcome>>

NewServer ==
    /\ server = None
    /\ \E config \in ServerConfigs :
          /\ ValidServerOptions(normalizeServerConfig(config))
          /\ server' = normalizeServerConfig(config)
    /\ UNCHANGED <<client, request, answer, outcome>>

-----------------------------------------------------------------------------
(* INITIAL.  identity stands for the checks on version, deployment, client *)
(* CID, registration and absence of enrollment fields.                     *)

ForeignRequests ==
    [own : {FALSE}, identity : BOOLEAN, wireSize : WireSizes,
     addressFamilies : SUBSET FamilyBits, maxDatagramSize : Uint16]

\* Client.Start: marshalWirePacket fails when INITIAL exceeds the client's
\* own datagram size.
Start ==
    /\ client # None /\ request = None
    /\ client.wireSize <= client.maxDatagramSize
    /\ request' = [own |-> TRUE, identity |-> TRUE, wireSize |-> client.wireSize,
                   addressFamilies |-> client.addressFamilies,
                   maxDatagramSize |-> client.maxDatagramSize]
    /\ UNCHANGED <<client, server, answer, outcome>>

\* Another implementation sends INITIAL.
ForeignInitial ==
    /\ server # None /\ client = None /\ request = None
    /\ request' \in ForeignRequests
    /\ UNCHANGED <<client, server, answer, outcome>>

validateInitialFields ==
    /\ request.identity
    /\ request.addressFamilies # {} /\ request.addressFamilies \subseteq Families
    /\ request.maxDatagramSize >= Overhead

\* The families both sides support and the server has a lease for.
SelectedFamilies ==
    request.addressFamilies \cap server.addressFamilies \cap server.leases

SelectedMaxDatagram == minUint16(request.maxDatagramSize, server.maxDatagramSize)

\* Mutant: the tunnel MTU is not lowered to the selected datagram size.
ConfiguredTunnelMTU == server.tunnelMTU

SelectedTunnelMTU ==
    minUint16(server.tunnelMTU, Minus(SelectedMaxDatagram, Overhead))

\* Mutant: the smallest tunnel MTU is refused.
AnswersAboveMinimum ==
    /\ request.wireSize <= server.maxDatagramSize
    /\ validateInitialFields
    /\ SelectedFamilies # {}
    /\ SelectedTunnelMTU > MinimumMTU
    /\ server.wireSize <= SelectedMaxDatagram

\* HandleInitial parses the INITIAL, finds common parameters and marshals a
\* HANDSHAKE that fits into the selected datagram size ...
Answers ==
    /\ request.wireSize <= server.maxDatagramSize
    /\ validateInitialFields
    /\ SelectedFamilies # {}
    /\ SelectedTunnelMTU >= MinimumMTU
    /\ server.wireSize <= SelectedMaxDatagram

handshakeFields ==
    [addressFamilies |-> SelectedFamilies,
     maxDatagramSize |-> SelectedMaxDatagram,
     tunnelMTU |-> SelectedTunnelMTU,
     leaseSeconds |-> server.leaseSeconds,
     leases |-> SelectedFamilies \cap server.leases,
     unicast |-> server.unicast]

HandleInitial ==
    /\ request # None /\ answer = None /\ outcome = None
    /\ Answers
    /\ answer' = handshakeFields
    /\ UNCHANGED <<client, server, request, outcome>>

\* ... or fails.
HandleInitialFails ==
    /\ request # None /\ answer = None /\ outcome = None
    /\ ~Answers
    /\ outcome' = "refused"
    /\ UNCHANGED <<client, server, request, answer>>

-----------------------------------------------------------------------------
(* HANDSHAKE.                                                              *)

MTUInInterval ==
    client.minTunnelMTU <= answer.tunnelMTU /\ answer.tunnelMTU <= client.maxTunnelMTU

\* Mutant: a tunnel MTU that fills the datagram is refused.
HandshakeFieldsStrictMTU ==
    /\ answer.addressFamilies # {}
    /\ answer.addressFamilies \subseteq client.addressFamilies
    /\ Overhead <= answer.maxDatagramSize
    /\ answer.maxDatagramSize <= client.maxDatagramSize
    /\ MTUInInterval
    /\ answer.tunnelMTU < Minus(answer.maxDatagramSize, Overhead)
    /\ answer.leaseSeconds # 0
    /\ answer.leases = answer.addressFamilies
    /\ answer.leases \subseteq answer.unicast

validateHandshakeFields ==
    /\ answer.addressFamilies # {}
    /\ answer.addressFamilies \subseteq client.addressFamilies
    /\ Overhead <= answer.maxDatagramSize
    /\ answer.maxDatagramSize <= client.maxDatagramSize
    /\ MTUInInterval
    /\ answer.tunnelMTU <= Minus(answer.maxDatagramSize, Overhead)
    /\ answer.leaseSeconds # 0
    /\ answer.leases = answer.addressFamilies
    /\ answer.leases \subseteq answer.unicast

Finish ==
    /\ request # None /\ request.own
    /\ answer # None /\ outcome = None
    /\ outcome' = IF validateHandshakeFields THEN "negotiated" ELSE "rejected"
    /\ UNCHANGED <<client, server, request, answer>>

-----------------------------------------------------------------------------

Init ==
    /\ client = None /\ server = None
    /\ request = None /\ answer = None /\ outcome = None

Next ==
    \/ NewServer
    \/ NewClient
    \/ Start
    \/ ForeignInitial
    \/ HandleInitial
    \/ HandleInitialFails
    \/ Finish

Spec == Init /\ [][Next]_vars

-----------------------------------------------------------------------------
(* Properties.                                                             *)

\* Whatever a peer asks for, the server only answers with parameters that
\* hold together: a family has a lease and was asked for, neither side's
\* datagram size is exceeded, and a packet of the tunnel MTU fits into a
\* datagram - which a wrapped subtraction would break.
AnswerSound ==
    answer # None =>
        /\ answer.addressFamilies # {}
        /\ answer.addressFamilies \subseteq request.addressFamilies
        /\ answer.leases = answer.addressFamilies
        /\ answer.maxDatagramSize <= request.maxDatagramSize
        /\ answer.maxDatagramSize <= server.maxDatagramSize
        /\ MinimumMTU <= answer.tunnelMTU
        /\ answer.tunnelMTU + Overhead <= answer.maxDatagramSize

\* Client and server of this implementation agree: the client rejects an
\* answer to its own INITIAL only for what the server cannot know, its local
\* MTU interval and its view of the lease addresses.
RejectedOnlyLocally ==
    outcome = "rejected" => ~MTUInInterval \/ ~(answer.leases \subseteq answer.unicast)

\* The server refuses an INITIAL of this implementation only for lack of a
\* common family with a lease or because INITIAL or HANDSHAKE as a whole do
\* not fit: every valid pair of configurations has an acceptable datagram
\* size and tunnel MTU.
RefusedOnlyForFamiliesOrSize ==
    outcome = "refused" /\ request.own =>
        \/ client.addressFamilies \cap server.addressFamilies \cap server.leases = {}
        \/ client.wireSize > server.maxDatagramSize
        \/ server.wireSize > SelectedMaxDatagram
=============================================================================
