----------------------------- MODULE WireCodec ------------------------------
(***************************************************************************)
(* The encodings of internal/codec: TLV streams, inner frames, the         *)
(* payloads of INITIAL and HANDSHAKE, and whole datagrams; and the request *)
(* of the UDP relay of cmd/wg-proxy.  A stream is a sequence of octets, a  *)
(* length two of them, high octet first.  In the outer header every other  *)
(* field (version, kind, flags, the connection IDs, packet number,         *)
(* reserved) is a number of one cell, whatever its width.  Parsers and     *)
(* marshallers that return an error, return Error, whichever error it is:  *)
(* the order of their checks is left out.                                  *)
(***************************************************************************)
EXTENDS Integers, Sequences, SequencesExt, FiniteSetsExt, TLC

CONSTANTS
    MaxUint,                    \* math.MaxUint16, 65535 in the code
    DefaultMaxFramePlaintext,   \* the limits that 0 selects
    DefaultMaxDatagramSize,
    DefaultMaxCloseTextLength,  \* 256
    ConfirmBodySize,            \* 32
    ChallengeBodySize,          \* 8
    EphemeralPublicKeySize,     \* 32
    AEADTagSize,                \* 16
    MinRetryTokenSize,          \* 16
    Error                       \* no stream and no value

Octet == 0..255

\* A length has two octets.
ASSUME SizesAssumption ==
    /\ MaxUint \in 0..65535
    /\ DefaultMaxFramePlaintext \in 0..MaxUint
    /\ {DefaultMaxDatagramSize, EphemeralPublicKeySize, AEADTagSize} \subseteq Nat

\* It is not what a parser returns.
ASSUME ErrorAssumption ==
    /\ Error \notin [key : Seq(Octet), encrypted : Seq(Octet)]
    /\ Error \notin Seq([head : Seq(Octet), body : Seq(Octet)])

GetUint16(high, low) == 256 * high + low
PutUint16(n) == <<n \div 256, n % 256>>
From(data, offset) == SubSeq(data, offset + 1, Len(data))

\* A header of the given size, whose last two octets are the length of the
\* body that follows: where the body ends, and both.
ItemEnd(data, headerSize, offset) ==
    offset + headerSize + GetUint16(data[offset + headerSize - 1], data[offset + headerSize])
ItemAt(data, headerSize, offset) ==
    [head |-> SubSeq(data, offset + 1, offset + headerSize),
     body |-> SubSeq(data, offset + headerSize + 1, ItemEnd(data, headerSize, offset))]

\* A stream of such items.
Prepend(item, rest) == IF rest = Error THEN Error ELSE <<item>> \o rest
Items(data, headerSize) ==
    LET items[offset \in 0..Len(data)] ==
            IF offset = Len(data) THEN <<>>
            ELSE IF \/ offset + headerSize > Len(data)
                    \/ ItemEnd(data, headerSize, offset) > Len(data) THEN Error
            ELSE Prepend(ItemAt(data, headerSize, offset), items[ItemEnd(data, headerSize, offset)])
    IN  items[0]

-----------------------------------------------------------------------------
(* TLV fields.                                                             *)

TLVHeaderSize == 3
Contexts == {"any", "initial", "handshake"}

\* Types 12 and 13 (egress policy version, DNS parameters) are not critical;
\* 129..142 run from TLVVersion to TLVEnrollmentProof.
Critical(type) == type >= 128
knownTLV(type) == type \in {12, 13} \cup 129..142

fixedTLVLength ==
    [type \in {12} \cup 129..142 |->
        CASE type \in {129, 134} -> 1 [] type \in {135, 138} -> 2 [] type = 139 -> 4
          [] type = 136 -> 5 [] type \in {12, 131, 132, 133} -> 8 [] type \in {130, 141} -> 16
          [] type = 137 -> 17 [] type \in {140, 142} -> 32]

allowedInContext(type, context) ==
    CASE context = "initial" -> type \in {129, 130, 131, 133, 134, 135, 140, 141, 142}
      [] context = "handshake" -> type \in {12, 13} \cup 129..139
      [] OTHER -> FALSE

required(context) ==
    CASE context = "initial" -> {129, 130, 131, 133, 134, 135, 140}
      [] context = "handshake" -> 129..135 \cup {138, 139}
      [] OTHER -> {}

validateTLVField(field) ==
    /\ Critical(field.type) => knownTLV(field.type)
    /\ field.type \in DOMAIN fixedTLVLength =>
          Len(field.value) = fixedTLVLength[field.type]

Types(fields) == {fields[i].type : i \in DOMAIN fields}

\* What ValidateTLVs asks of one field: it may occur here, and a prefix is no
\* longer than its address.
ValidIn(field, context) ==
    /\ validateTLVField(field)
    /\ context # "any" /\ knownTLV(field.type) => allowedInContext(field.type, context)
    /\ field.type = 136 => field.value[5] <= 32
    /\ field.type = 137 => field.value[17] <= 128

ValidateTLVs(fields, context) ==
    LET seen == Types(fields) IN
    /\ Cardinality(seen) = Len(fields)
    /\ \A i \in DOMAIN fields : ValidIn(fields[i], context)
    /\ 141 \in seen <=> 142 \in seen
    /\ required(context) \subseteq seen
    /\ context = "handshake" => seen \cap {136, 137} # {}

\* Mutant: only repetition is refused.
NoRepetition(fields) ==
    \A i \in 2..Len(fields) : fields[i - 1].type # fields[i].type

StrictlyIncreasing(fields) ==
    \A i \in 2..Len(fields) : fields[i - 1].type < fields[i].type

ParseTLVs(data) ==
    LET items == Items(data, TLVHeaderSize)
        fields == [i \in DOMAIN items |-> [type |-> items[i].head[1], value |-> items[i].body]]
    IN  IF Len(data) > MaxUint THEN Error
        ELSE IF items = Error THEN Error
        ELSE IF StrictlyIncreasing(fields) /\ \A i \in DOMAIN fields : validateTLVField(fields[i])
        THEN fields ELSE Error

ParseTLVsFor(data, context) ==
    LET fields == ParseTLVs(data) IN
    IF fields = Error THEN Error
    ELSE IF ValidateTLVs(fields, context) THEN fields ELSE Error

\* The place of a field in the order of types: as sort.Slice leaves it unless
\* two types are equal, which MarshalTLVs refuses.
Place(fields, i) ==
    Cardinality({j \in DOMAIN fields : \/ fields[j].type < fields[i].type
                                       \/ fields[j].type = fields[i].type /\ j <= i})
Canonical(fields) ==
    [n \in DOMAIN fields |-> fields[CHOOSE i \in DOMAIN fields : Place(fields, i) = n]]

MarshalTLVs(fields) ==
    LET canonical == Canonical(fields)
        data == FlattenSeq([i \in DOMAIN canonical |->
                    <<canonical[i].type>> \o PutUint16(Len(canonical[i].value)) \o canonical[i].value])
    IN  IF /\ \A i \in 2..Len(fields) : canonical[i - 1].type # canonical[i].type
           /\ \A i \in DOMAIN fields :
                 validateTLVField(fields[i]) /\ Len(fields[i].value) <= MaxUint
           /\ Len(data) <= MaxUint
        THEN data ELSE Error

MarshalTLVsFor(fields, context) ==
    IF ValidateTLVs(fields, context) THEN MarshalTLVs(fields) ELSE Error

-----------------------------------------------------------------------------
(* Frames.                                                                 *)

FrameHeaderSize == 4
IPPacket == 1
Confirm == 2
Ping == 3
Pong == 4
CloseFrame == 8

validateIPPacket(packet) ==
    /\ packet # <<>>
    /\ \/ /\ packet[1] \div 16 = 4 /\ Len(packet) >= 20
          /\ 4 * (packet[1] % 16) \in 20..Len(packet)
          /\ GetUint16(packet[3], packet[4]) = Len(packet)
       \/ /\ packet[1] \div 16 = 6 /\ Len(packet) >= 40
          /\ 40 + GetUint16(packet[5], packet[6]) = Len(packet)

\* utf8.Valid, for text without characters of more than one octet.
ValidUTF8(text) == \A i \in DOMAIN text : text[i] < 128

DecodeClose(body) ==
    /\ Len(body) \in 2..(2 + DefaultMaxCloseTextLength)
    /\ ValidUTF8(From(body, 2))

validateFrame(frame) ==
    /\ frame.type \in 1..8 /\ frame.flags = 0
    /\ frame.type = IPPacket => validateIPPacket(frame.body)
    /\ frame.type = Confirm => Len(frame.body) = ConfirmBodySize
    /\ frame.type \in {Ping, Pong} => Len(frame.body) = ChallengeBodySize
    /\ frame.type = CloseFrame => DecodeClose(frame.body)

validateFrameCombination(frames) ==
    /\ IPPacket \in Types(frames) => Len(frames) = 1
    /\ Confirm \in Types(frames) =>
          Len(frames) = 2 /\ frames[1].type = Confirm /\ frames[2].type = Ping

normalizeFrameLimit(limit) ==
    IF limit = 0 THEN DefaultMaxFramePlaintext
    ELSE IF limit < FrameHeaderSize \/ limit > MaxUint THEN Error
    ELSE limit

FramesAcceptable(frames) ==
    /\ frames # <<>> /\ validateFrameCombination(frames)
    /\ \A i \in DOMAIN frames : validateFrame(frames[i])

ParseFrames(data, maxPlaintext) ==
    LET limit == normalizeFrameLimit(maxPlaintext)
        items == Items(data, FrameHeaderSize)
        frames == [i \in DOMAIN items |->
                     [type |-> items[i].head[1], flags |-> items[i].head[2], body |-> items[i].body]]
    IN  IF limit = Error THEN Error
        ELSE IF Len(data) > limit THEN Error
        ELSE IF items = Error THEN Error
        ELSE IF FramesAcceptable(frames) THEN frames ELSE Error

MarshalFrames(frames, maxPlaintext) ==
    LET limit == normalizeFrameLimit(maxPlaintext)
        data == FlattenSeq([i \in DOMAIN frames |->
                    <<frames[i].type, 0>> \o PutUint16(Len(frames[i].body)) \o frames[i].body])
    IN  IF limit = Error THEN Error
        ELSE IF /\ FramesAcceptable(frames)
                /\ \A i \in DOMAIN frames : Len(frames[i].body) <= MaxUint
                /\ Len(data) <= limit
        THEN data ELSE Error

-----------------------------------------------------------------------------
(* Outer payloads.                                                         *)

\* The public key, and the ciphertext whose length must be all that is left.
ParseKeyed(data) ==
    LET prefixSize == EphemeralPublicKeySize + 2
        encrypted == From(data, prefixSize)
    IN  IF Len(data) < prefixSize THEN Error
        ELSE IF /\ GetUint16(data[prefixSize - 1], data[prefixSize]) = Len(encrypted)
                /\ Len(encrypted) >= AEADTagSize
        THEN [key |-> SubSeq(data, 1, EphemeralPublicKeySize), encrypted |-> encrypted]
        ELSE Error

MarshalKeyed(key, encrypted) == key \o PutUint16(Len(encrypted)) \o encrypted

ParseHandshake(data) == IF Len(data) > MaxUint THEN Error ELSE ParseKeyed(data)

HandshakeMarshal(p) ==
    IF /\ Len(p.encrypted) \in AEADTagSize..MaxUint
       /\ EphemeralPublicKeySize + 2 + Len(p.encrypted) <= MaxUint
    THEN MarshalKeyed(p.key, p.encrypted) ELSE Error

ParseInitial(data) ==
    LET tokenLength == GetUint16(data[1], data[2])
        keyed == ParseKeyed(From(data, 2 + tokenLength))
    IN  IF Len(data) > MaxUint \/ Len(data) < 2 THEN Error
        ELSE IF tokenLength > Len(data) - 2 THEN Error
        ELSE IF keyed = Error THEN Error
        ELSE [token |-> SubSeq(data, 3, 2 + tokenLength),
              key |-> keyed.key, encrypted |-> keyed.encrypted]

InitialMarshal(p) ==
    IF /\ Len(p.token) <= MaxUint /\ Len(p.encrypted) \in AEADTagSize..MaxUint
       /\ 2 + Len(p.token) + EphemeralPublicKeySize + 2 + Len(p.encrypted) <= MaxUint
    THEN PutUint16(Len(p.token)) \o p.token \o MarshalKeyed(p.key, p.encrypted) ELSE Error

-----------------------------------------------------------------------------
(* Datagrams: a header of nine cells (32 octets in the code) and a payload. *)

HeaderSize == 9
Initial == 1
Retry == 2
HandshakeKind == 3
TransportKind == 16

validate(h) ==
    /\ h.version = 1 /\ h.kind \in {Initial, Retry, HandshakeKind, TransportKind}
    /\ h.flags = 0 /\ h.reserved = 0
    /\ h.dcid = 0 <=> h.kind = Initial
    /\ h.scid = 0 <=> h.kind = Retry
    /\ h.kind # TransportKind => h.packetNumber = 0

\* ParseRetry and ParseTransport only look at the length.
validateOuterPayload(kind, payload) ==
    /\ Len(payload) <= MaxUint
    /\ \/ kind = Initial /\ ParseInitial(payload) # Error
       \/ kind = Retry /\ Len(payload) >= MinRetryTokenSize
       \/ kind = HandshakeKind /\ ParseHandshake(payload) # Error
       \/ kind = TransportKind /\ Len(payload) >= AEADTagSize

normalizeDatagramLimit(limit) ==
    IF limit = 0 THEN DefaultMaxDatagramSize
    ELSE IF limit < HeaderSize \/ limit > HeaderSize + MaxUint THEN Error
    ELSE limit

parseHeaderPrefix(data) ==
    [version |-> data[1], kind |-> data[2], flags |-> data[3], dcid |-> data[4],
     scid |-> data[5], packetNumber |-> data[6],
     payloadLength |-> GetUint16(data[7], data[8]), reserved |-> data[9]]

HeaderMarshal(h) ==
    LET length == PutUint16(h.payloadLength) IN
    <<h.version, h.kind, h.flags, h.dcid, h.scid, h.packetNumber,
      length[1], length[2], h.reserved>>

ParsePacket(data, maxDatagramSize) ==
    LET limit == normalizeDatagramLimit(maxDatagramSize)
        header == parseHeaderPrefix(data)
        payload == From(data, HeaderSize)
    IN  IF limit = Error THEN Error
        ELSE IF Len(data) \notin HeaderSize..limit THEN Error
        ELSE IF /\ validate(header)
                /\ HeaderSize + header.payloadLength = Len(data)
                /\ validateOuterPayload(header.kind, payload)
        THEN [header |-> header, payload |-> payload] ELSE Error

\* PayloadLength is derived from the payload, never taken from the caller.
PacketMarshal(p, maxDatagramSize) ==
    LET limit == normalizeDatagramLimit(maxDatagramSize)
        header == [p.header EXCEPT !.payloadLength = Len(p.payload)]
    IN  IF limit = Error THEN Error
        ELSE IF /\ Len(p.payload) <= MaxUint /\ HeaderSize + Len(p.payload) <= limit
                /\ validateOuterPayload(header.kind, p.payload)
                /\ validate(header)
        THEN HeaderMarshal(header) \o p.payload ELSE Error

-----------------------------------------------------------------------------
(* Requests of the UDP relay: the target and its length, then the body.    *)

udpRequest == 1

\* net.SplitHostPort, for hosts without brackets: one colon.
SplitHostPort(target) == Cardinality({i \in DOMAIN target : target[i] = 58}) = 1

makeUDPRequest(p) ==
    IF SplitHostPort(p.target) /\ Len(p.target) <= MaxUint
    THEN <<udpRequest>> \o PutUint16(Len(p.target)) \o p.target \o p.body
    ELSE Error

parseUDPRequest(payload) ==
    LET n == GetUint16(payload[2], payload[3])
        target == SubSeq(payload, 4, 3 + n)
    IN  IF Len(payload) < 3 THEN Error
        ELSE IF payload[1] # udpRequest \/ n = 0 \/ Len(payload) < 3 + n THEN Error
        ELSE IF SplitHostPort(target) THEN [target |-> target, body |-> From(payload, 3 + n)]
        ELSE Error

-----------------------------------------------------------------------------
(* What the encodings promise.  A sample is a stream, or a value to be     *)
(* marshalled, with the context or the limit of the call.                  *)

\* "ParseTLVs parses a canonical stream", "MarshalTLVs ... emits the unique
\* canonical stream", and likewise for frames, payloads and datagrams: what a
\* parser accepts marshals back to the very octets it was parsed from, ...
StreamUnique(s) ==
    LET parsed == CASE s.of = "tlv" -> ParseTLVsFor(s.data, s.with)
                    [] s.of = "frames" -> ParseFrames(s.data, s.with)
                    [] s.of = "initial" -> ParseInitial(s.data)
                    [] s.of = "handshake" -> ParseHandshake(s.data)
                    [] s.of = "packet" -> ParsePacket(s.data, s.with)
                    [] s.of = "udp" -> parseUDPRequest(s.data)
    IN  \/ parsed = Error
        \/ s.data = CASE s.of = "tlv" -> MarshalTLVsFor(parsed, s.with)
                      [] s.of = "frames" -> MarshalFrames(parsed, s.with)
                      [] s.of = "initial" -> InitialMarshal(parsed)
                      [] s.of = "handshake" -> HandshakeMarshal(parsed)
                      [] s.of = "packet" -> PacketMarshal(parsed, s.with)
                      [] s.of = "udp" -> makeUDPRequest(parsed)

\* ... and what a marshaller emits parses back to the value it was given, in
\* canonical order and with the length of its payload filled in.
ValueSurvives(s) ==
    \/ s.of = "tlv" /\ LET data == MarshalTLVsFor(s.value, s.with) IN
          data # Error => ParseTLVsFor(data, s.with) = Canonical(s.value)
    \/ s.of = "frames" /\ LET data == MarshalFrames(s.value, s.with) IN
          data # Error => ParseFrames(data, s.with) = s.value
    \/ s.of = "initial" /\ LET data == InitialMarshal(s.value) IN
          data # Error => ParseInitial(data) = s.value
    \/ s.of = "packet" /\ LET data == PacketMarshal(s.value, s.with) IN
          data # Error => ParsePacket(data, s.with) =
              [s.value EXCEPT !.header.payloadLength = Len(s.value.payload)]
    \/ s.of = "udp" /\ LET data == makeUDPRequest(s.value) IN
          data # Error => parseUDPRequest(data) = s.value
=============================================================================
