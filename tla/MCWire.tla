------------------------------- MODULE MCWire -------------------------------
(***************************************************************************)
(* Everything that is negotiated, encoded or computed without concurrency: *)
(* the behaviours of Negotiation, and samples for WireCodec and Backoff.   *)
(* In place of a negotiation one sample is drawn: a stream to parse, a     *)
(* value to marshal, or a policy with a retry count.  The samples stand on *)
(* both sides of every length and limit the code compares.                 *)
(***************************************************************************)
EXTENDS Negotiation, WireCodec, Backoff

VARIABLE sample

Undrawn == client = None /\ server = None /\ sample = None
Draw(s) == sample' = s /\ UNCHANGED vars

Fill(octet, n) == [i \in 1..n |-> octet]
Lists(items, n) == UNION {[1..k -> items] : k \in 0..n}

\* A stream as it is, without its last octets, or followed by one more.
Damaged(data) == {data, Append(data, 0)} \cup {SubSeq(data, 1, Len(data) - cut) : cut \in 1..4}

-----------------------------------------------------------------------------
(* TLV fields: unknown (11), fixed and variable length, unknown critical.  *)

Around(n) == {n - 1, n, n + 1}
TLVSizes == ({11} \X {0, 70}) \cup ({12} \X Around(8)) \cup ({13} \X {1, 70})
            \cup ({129} \X Around(1)) \cup ({136} \X Around(5)) \cup ({143} \X {0})
TLVFields == {[type |-> p[1], value |-> Fill(7, p[2])] : p \in TLVSizes}

RawTLVs(fields) ==
    FlattenSeq([i \in DOMAIN fields |->
        <<fields[i].type>> \o PutUint16(Len(fields[i].value)) \o fields[i].value])

\* The required fields of a message, less one and with up to two others.
RequiredTypes(context) ==
    CASE context = "initial" -> <<129, 130, 131, 133, 134, 135, 140>>
      [] context = "handshake" -> <<129, 130, 131, 132, 133, 134, 135, 138, 139>>
      [] OTHER -> <<>>
Shortened(s) == {s} \cup {RemoveAt(s, i) : i \in DOMAIN s}
OtherTypes == {11, 12, 13, 143} \cup 129..142
Sized(type, octet) ==
    [type |-> type, value |-> Fill(octet, IF type \in DOMAIN fixedTLVLength
                                          THEN fixedTLVLength[type] ELSE 1)]
MessageFields(types, octet) == [i \in DOMAIN types |-> Sized(types[i], octet)]

SampleTLVs ==
    \/ \E fields \in Lists(TLVFields, 3) :
          \/ \E data \in Damaged(RawTLVs(fields)) :
                Draw([form |-> "stream", of |-> "tlv", with |-> "any", data |-> data])
          \/ Draw([form |-> "value", of |-> "tlv", with |-> "any", value |-> fields])
    \/ \E context \in Contexts, octet \in {7, 40}, others \in Lists(OtherTypes, 2) :
       \E types \in Shortened(RequiredTypes(context)) :
          Draw([form |-> "value", of |-> "tlv", with |-> context,
                value |-> MessageFields(types \o others, octet)])

-----------------------------------------------------------------------------
(* Frames.                                                                 *)

IPv4(ihl, total, n) == <<64 + ihl, 0, 0, total>> \o Fill(0, n - 4)
IPv6(payload, n) == <<96, 0, 0, 0, 0, payload>> \o Fill(0, n - 6)
IPBodies == {<<>>, <<80>>, IPv4(5, 19, 19), IPv4(5, 20, 20), IPv4(5, 21, 20), IPv4(4, 20, 20),
             IPv4(6, 20, 20), IPv4(6, 24, 24), IPv6(0, 39), IPv6(0, 40), IPv6(1, 41), IPv6(1, 40)}

Bodies(type) == IF type = IPPacket THEN IPBodies
                ELSE {Fill(7, n) : n \in 0..3} \cup {<<0, 1, 200>>}
PlainFrames == UNION {{[type |-> t, flags |-> 0, body |-> body] : body \in Bodies(t)} : t \in 0..9}
Flagged == [type |-> Ping, flags |-> 1, body |-> <<7>>]
Frames == PlainFrames \cup {Flagged}
ControlFrames == {f \in Frames : f.type \in {Confirm, Ping, 5} /\ Len(f.body) \in 1..2}

RawFrames(frames) ==
    FlattenSeq([i \in DOMAIN frames |-> <<frames[i].type, frames[i].flags>>
                                        \o PutUint16(Len(frames[i].body)) \o frames[i].body])

SampleFrames ==
    \E frames \in Lists(Frames, 2) \cup [1..3 -> ControlFrames], limit \in {0, 3, 15, 24} :
       \/ \E data \in Damaged(RawFrames(frames)) :
             Draw([form |-> "stream", of |-> "frames", with |-> limit, data |-> data])
       \/ Draw([form |-> "value", of |-> "frames", with |-> limit, value |-> frames])

-----------------------------------------------------------------------------
(* Payloads and datagrams.                                                 *)

SamplePayloads ==
    \/ \E data \in Lists(0..2, 8), kind \in {"initial", "handshake"} :
          Draw([form |-> "stream", of |-> kind, with |-> 0, data |-> data])
    \/ \E token \in 0..144, encrypted \in 0..3 :
          Draw([form |-> "value", of |-> "initial", with |-> 0,
                value |-> [token |-> Fill(7, token), key |-> Fill(8, EphemeralPublicKeySize),
                           encrypted |-> Fill(9, encrypted)]])

Headers == [version : {1, 2}, kind : {1, 2, 3, 4, 16}, flags : {0, 1}, dcid : {0, 5},
            scid : {0, 6}, packetNumber : {0, 1}, payloadLength : {1, 4, 6}, reserved : {0, 1}]
Payloads == {<<>>, <<7>>, <<5, 0, 1, 9>>, <<0, 0, 5, 0, 1, 9>>}

SamplePackets ==
    \E header \in Headers, payload \in Payloads, limit \in {0, HeaderSize - 1, HeaderSize + 4} :
       \/ Draw([form |-> "stream", of |-> "packet", with |-> limit,
                data |-> HeaderMarshal(header) \o payload])
       \/ Draw([form |-> "value", of |-> "packet", with |-> limit,
                value |-> [header |-> header, payload |-> payload]])

Targets == Lists({58, 104}, 3) \cup {Append(Fill(104, n), 58) : n \in Around(MaxUint - 1)}

\* No two octets hold a length above MaxUint.
SampleUDP ==
    \E target \in Targets, body \in Lists({58, 7}, 2), type \in {1, 2} :
       \/ \E n \in (0..(Len(target) + 1)) \cap (0..MaxUint), data \in Damaged(target \o body) :
             Draw([form |-> "stream", of |-> "udp", with |-> 0,
                   data |-> <<type>> \o PutUint16(n) \o data])
       \/ Draw([form |-> "value", of |-> "udp", with |-> 0,
                value |-> [target |-> target, body |-> body]])

SampleBackoff ==
    \E policy \in Policies, retry \in 0..8 :
       Draw([form |-> "backoff", base |-> policy[1], maximum |-> policy[2], retry |-> retry])

-----------------------------------------------------------------------------

MCInit == Init /\ sample = None

MCNext ==
    \/ sample = None /\ Next /\ UNCHANGED sample
    \/ Undrawn /\ SampleTLVs
    \/ Undrawn /\ SampleFrames
    \/ Undrawn /\ SamplePayloads
    \/ Undrawn /\ SamplePackets
    \/ Undrawn /\ SampleUDP
    \/ Undrawn /\ SampleBackoff

MCSpec == MCInit /\ [][MCNext]_<<vars, sample>>

Drawn(form) == sample # None /\ sample.form = form

\* The codec is canonical in both directions (StreamUnique, ValueSurvives in
\* WireCodec): ParseTLVsFor, ParseFrames, ParseInitial, ParseHandshake,
\* ParsePacket and parseUDPRequest accept one encoding of a value only, and it
\* is the one that the marshaller of the same context and limit emits.
WireCanonical ==
    /\ Drawn("stream") => StreamUnique(sample)
    /\ Drawn("value") => ValueSurvives(sample)

\* The delay of a retransmission (boundedBackoff) doubles exactly and stops at
\* the maximum, whatever the policy and however close to the largest duration.
BackoffSaturates ==
    Drawn("backoff") => Saturates(sample.base, sample.retry, sample.maximum)
=============================================================================
