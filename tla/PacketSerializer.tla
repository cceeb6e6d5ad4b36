-------------------------- MODULE PacketSerializer --------------------------
(***************************************************************************)
(* SerializePacket (src/net/json_packet.cc): the calls it makes on a       *)
(* JsonWriter for the bytes of one packet.  The headers are written in one *)
(* step each, the loop over the TCP options takes one step per turn.       *)
(***************************************************************************)
EXTENDS IpPacket, JsonString, FiniteSets

VARIABLES
  pc,
  packet,  \* the packet being serialized
  calls,   \* the calls that write a token, so far
  pack,    \* pack_ of the JsonWriter
  p        \* the offset of the option the loop has come to

(***************************************************************************)
(* Calls of the writer.  A string is a word of the format, an entry of one *)
(* of the name tables, an address or a sequence of bytes; an integer is    *)
(* given by its halves.                                                    *)
(***************************************************************************)
StartObject == [t |-> "StartObject"]
EndObject   == [t |-> "EndObject"]
StartArray  == [t |-> "StartArray"]
EndArray    == [t |-> "EndArray"]
BeginPack   == [t |-> "BeginPack"]
EndPack     == [t |-> "EndPack"]
Text(s)     == [t |-> "String", str |-> s]
Word(w)     == Text([word |-> w])
Entry(table, i) == Text([table |-> table, index |-> i])
Address(a)  == Text([address |-> a])
Property(n) == [t |-> "PropertyName", str |-> [word |-> n]]
Halves(v)   == [t |-> "Integer", str |-> [number |-> v], v |-> v]
Integer(n)  == Halves(<<n \div 65536, n % 65536>>)

\* What WriteString leaves of a string of data in the text.
Written(c) ==
  IF c.t = "String" /\ "bytes" \in DOMAIN c.str
  THEN Text([text |-> WriteRawString(c.str.bytes)]) ELSE c

Array(s) == <<StartArray>> \o s \o <<EndArray>>
Object(s) == <<StartObject>> \o s \o <<EndObject>>
Packed(s) == <<BeginPack>> \o s \o <<EndPack>>

Count(c, s) == Cardinality({i \in DOMAIN s : s[i] = c})

\* The calls in s that write a token.
Tokens(s) == FlattenSeq([i \in DOMAIN s |-> IF s[i] \in {BeginPack, EndPack} THEN <<>> ELSE <<s[i]>>])

\* The calls in s are made.
Emit(s) ==
  /\ calls' = calls \o Tokens(s)
  /\ pack' = pack + Count(BeginPack, s) - Count(EndPack, s)

(***************************************************************************)
(* The parts of a packet.                                                  *)
(***************************************************************************)
\* WriteIpFlags and WriteTcpFlags: bits gives the order they are tried in.
WriteFlags(table, bits, value) ==
  Array(FlattenSeq([i \in DOMAIN bits |->
          IF Bit(value, bits[i]) THEN <<Entry(table, bits[i])>> ELSE <<>>]))

WriteFriendlyStringOrInt(table, named, value) ==
  IF value \in named THEN Entry(table, value) ELSE Integer(value)

\* The IP header; its options are not written.
WriteIpHeader ==
  LET frag_off == DerefU16BE(packet, 6)
  IN  Object(<<Property("version")>>
        \o Packed(<<Integer(At(packet, 0) \div 16),
                    Property("tos"), Integer(At(packet, 1)),
                    Property("id"), Integer(DerefU16BE(packet, 4)),
                    Property("flags")>> \o WriteFlags("ipFlag", <<14, 13>>, frag_off))
        \o <<Property("fragmentOffset")>>
        \o Packed(<<Integer(frag_off % 8192),
                    Property("ttl"), Integer(At(packet, 8)),
                    Property("protocol"),
                    WriteFriendlyStringOrInt("protocol", kProtocolNames, protocol(packet))>>)
        \o <<Property("source")>>
        \o Packed(<<Address(Part(packet, 12, 4)),
                    Property("destination"), Address(Part(packet, 16, 4))>>))

\* Where the header after the IP header starts.
h == 4 * ihl(packet)

tcp_flags == At(packet, h + 13)
ack == Bit(tcp_flags, 4)
urg == Bit(tcp_flags, 5)
doff == At(packet, h + 12) \div 16

\* WriteTcpHeader up to the options.  The pack begun for the flags is not
\* ended.
WriteTcpFields ==
  <<Property("sourcePort")>>
  \o Packed(<<Integer(DerefU16BE(packet, h)),
              Property("destPort"), Integer(DerefU16BE(packet, h + 2))>>)
  \o <<Property("seqNumber")>>
  \o Packed(<<Halves(DerefU32BE(packet, h + 4))>>
            \o IF ack THEN <<Property("ackNumber"), Halves(DerefU32BE(packet, h + 8))>>
               ELSE <<>>)
  \o <<Property("flags"), BeginPack>>
  \o WriteFlags("tcpFlag", <<5, 4, 3, 2, 1, 0>>, tcp_flags)
  \o <<Property("windowSize")>>
  \o Packed(<<Integer(DerefU16BE(packet, h + 14))>>
            \o IF urg THEN <<Property("urgentPointer"), Integer(DerefU16BE(packet, h + 18))>>
               ELSE <<>>)

Lesser(m, n) == IF m < n THEN m ELSE n
Greater(m, n) == IF m > n THEN m ELSE n

options_size == Lesser(Len(packet) - h - 20, Greater(20, 4 * doff) - 20)
options_end == h + 20 + options_size

Option(type, values) == Array(<<Entry("tcpOption", type)>> \o values)

\* The options that are written, by type, with the size they must have; the
\* value of an option is at offset 2.
SizeOfOption == [type \in {2, 3, 4, 8} |->
                   CASE type = 2 -> 4 [] type = 3 -> 3 [] type = 4 -> 2 [] type = 8 -> 10]

WriteTcpOption(type, size) ==
  IF type \notin DOMAIN SizeOfOption \/ size # SizeOfOption[type] THEN <<>>
  ELSE Option(type,
         CASE type = 2 -> <<Integer(DerefU16BE(packet, p + 2))>>
           [] type = 3 -> <<Integer(At(packet, p + 2))>>
           [] type = 4 -> <<>>
           [] type = 8 -> <<Halves(DerefU32BE(packet, p + 2)),
                            Halves(DerefU32BE(packet, p + 6))>>)

\* Faulty variant: the ports are packed, and the pack is not ended.
WriteUdpHeaderPacked ==
  Object(<<Property("sourcePort"), BeginPack, Integer(DerefU16BE(packet, h)),
           Property("destPort"), Integer(DerefU16BE(packet, h + 2))>>)

WriteUdpHeader ==
  Object(<<Property("sourcePort"), Integer(DerefU16BE(packet, h)),
           Property("destPort"), Integer(DerefU16BE(packet, h + 2))>>)

WriteIcmpCode(type, code) ==
  CASE type = ICMP_DEST_UNREACH ->
         WriteFriendlyStringOrInt("unreachable", kIcmpDestinationUnreachableCodeNames, code)
    [] type = ICMP_REDIRECT ->
         WriteFriendlyStringOrInt("redirect", kIcmpRedirectMessageCodeNames, code)
    [] type = ICMP_PARAMETERPROB ->
         WriteFriendlyStringOrInt("badIpHeader", kIcmpBadIpHeaderCodeNames, code)
    [] OTHER -> Integer(code)

WriteIcmpHeader ==
  LET type == At(packet, h)
  IN  Object(<<Property("type")>>
        \o Packed(<<WriteFriendlyStringOrInt("icmpType", kIcmpTypeNames, type),
                    Property("code"), WriteIcmpCode(type, At(packet, h + 1))>>)
        \o CASE type \in IcmpEchoLike ->
                  <<Property("identifier")>>
                  \o Packed(<<Integer(DerefU16BE(packet, h + 4)),
                              Property("sequenceNumber"), Integer(DerefU16BE(packet, h + 6))>>)
             [] type = ICMP_DEST_UNREACH ->
                  <<Property("nextHopMtu"), Integer(DerefU16BE(packet, h + 6))>>
             [] type = ICMP_REDIRECT ->
                  <<Property("gateway"), Address(Part(packet, h + 4, 4))>>
             [] OTHER -> <<>>)

IsPlainText(s) == \A i \in DOMAIN s : s[i] >= 32 \/ s[i] \in {9, 10, 13}

\* The parts of s that end at the positions in ends.
SplitAt(s, ends) ==
  LET end(k) == CHOOSE e \in ends \cup {0} : Cardinality({i \in ends : i <= e}) = k
  IN  [k \in 1 .. Cardinality(ends) |-> SubSeq(s, end(k - 1) + 1, end(k))]

\* Faulty variant: what follows the last line feed is not written.
LinesEnded(s) == SplitAt(s, {i \in DOMAIN s : s[i] = 10})

\* The lines of s, each with its line feed; the last may have none.
Lines(s) == SplitAt(s, {i \in DOMAIN s : s[i] = 10 \/ i = Len(s)})

\* The lines of sixteen bytes that hexadecimal data is written in.
HexLines(s) ==
  [i \in 1 .. (Len(s) + 15) \div 16 |->
     FormatHex(SubSeq(s, 16 * i - 15, Lesser(16 * i, Len(s))))]

SerializeBytes(s) ==
  LET text == IsPlainText(s)
      lines == IF text THEN Lines(s) ELSE HexLines(s)
  IN  Object(<<Property("type"), Word(IF text THEN "text" ELSE "hex"),
               Property("data")>>
             \o Array([i \in DOMAIN lines |-> Text([bytes |-> lines[i]])]))

(***************************************************************************)
(* SerializePacket.                                                        *)
(***************************************************************************)
\* A packet whose IP header cannot be read is written as an empty object.
SerializeNothing ==
  /\ pc = "serialize"
  /\ Len(packet) < 20 \/ ihl(packet) < 5
  /\ Emit(Object(<<>>))
  /\ pc' = "serialized"
  /\ UNCHANGED <<packet, p>>

SerializeIp ==
  /\ pc = "serialize"
  /\ Len(packet) >= 20 /\ ihl(packet) >= 5
  /\ Emit(<<StartObject, Property("ip")>> \o WriteIpHeader)
  /\ pc' = "header2"
  /\ UNCHANGED <<packet, p>>

\* The second header is written if it is all there.
HasHeader2 ==
  /\ protocol(packet) \in {kProtocolTcp, kProtocolUdp, kProtocolIcmp}
  /\ Len(packet) >= h + Header2Size(protocol(packet))

SerializeTcp ==
  /\ pc = "header2"
  /\ HasHeader2 /\ protocol(packet) = kProtocolTcp
  /\ Emit(<<Property("tcp"), StartObject>> \o WriteTcpFields
          \o IF options_size > 0 THEN <<Property("options"), BeginPack, StartArray>> ELSE <<EndObject>>)
  /\ p' = h + 20
  /\ pc' = IF options_size > 0 THEN "options" ELSE "data"
  /\ UNCHANGED packet

\* An option is all there; the loop ends at one that is not, after the
\* end-of-options option, or with the options.
OptionAhead ==
  /\ p < options_end
  /\ At(packet, p) # 0
  /\ At(packet, p) = 1 \/ (p + 1 < options_end /\ p + At(packet, p + 1) <= options_end)

\* Faulty variant: only a known option takes the loop on.
TakeOptionKnown ==
  LET type == At(packet, p)
      size == IF type = 1 THEN 1 ELSE At(packet, p + 1)
  IN  /\ pc = "options"
      /\ OptionAhead
      /\ Emit(IF type = 1 THEN Option(1, <<>>) ELSE WriteTcpOption(type, size))
      /\ p' = IF type \in {1, 2, 3, 4, 8} THEN p + size ELSE p
      /\ UNCHANGED <<pc, packet>>

\* One turn of the loop: a known option is written, one with another size or
\* type is passed over.
TakeOption ==
  LET type == At(packet, p)
      size == IF type = 1 THEN 1 ELSE At(packet, p + 1)
  IN  /\ pc = "options"
      /\ OptionAhead
      /\ Emit(IF type = 1 THEN Option(1, <<>>) ELSE WriteTcpOption(type, size))
      /\ p' = p + size
      /\ UNCHANGED <<pc, packet>>

EndOptions ==
  /\ pc = "options"
  /\ ~OptionAhead
  /\ Emit((IF p < options_end /\ At(packet, p) = 0 THEN Option(0, <<>>) ELSE <<>>)
          \o <<EndArray, EndPack, EndObject>>)
  /\ pc' = "data"
  /\ UNCHANGED <<packet, p>>

SerializeUdp ==
  /\ pc = "header2"
  /\ HasHeader2 /\ protocol(packet) = kProtocolUdp
  /\ Emit(<<Property("udp")>> \o WriteUdpHeader)
  /\ pc' = "data"
  /\ UNCHANGED <<packet, p>>

SerializeIcmp ==
  /\ pc = "header2"
  /\ HasHeader2 /\ protocol(packet) = kProtocolIcmp
  /\ Emit(<<Property("icmp")>> \o WriteIcmpHeader)
  /\ pc' = "data"
  /\ UNCHANGED <<packet, p>>

SkipHeader2 ==
  /\ pc = "header2"
  /\ ~HasHeader2
  /\ pc' = "data"
  /\ UNCHANGED <<packet, calls, pack, p>>

data_offset ==
  h + CASE ~HasHeader2 -> 0
        [] HasHeader2 /\ protocol(packet) = kProtocolTcp -> 4 * doff
        [] OTHER -> 8

SerializeData ==
  /\ pc = "data"
  /\ Emit((IF Len(packet) > data_offset
           THEN <<Property("data")>> \o SerializeBytes(From(packet, data_offset))
           ELSE <<>>)
          \o <<EndObject>>)
  /\ pc' = "serialized"
  /\ UNCHANGED <<packet, p>>

SerializeStep ==
  \/ SerializeNothing \/ SerializeIp
  \/ SerializeTcp \/ TakeOption \/ EndOptions
  \/ SerializeUdp \/ SerializeIcmp \/ SkipHeader2 \/ SerializeData
=============================================================================
