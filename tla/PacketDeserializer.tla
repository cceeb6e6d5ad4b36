------------------------- MODULE PacketDeserializer -------------------------
(***************************************************************************)
(* DeserializePacket (src/net/json_packet.cc) over the tokens of a         *)
(* JsonReader.  r is the state of the call: the reader, the fields read    *)
(* for the header at hand and dest_buffer.  The helpers map one such state *)
(* to the next; once one of them has failed (ok is FALSE, the call will    *)
(* return false) the others leave the state as it is.                      *)
(***************************************************************************)
EXTENDS IpPacket, JsonString

VARIABLES
  dpc,
  r    \* [left, cur, str: the reader; ok; f: fields; buf: dest_buffer;
       \*  stale: history, a value was taken from a token that has none]

NoString == [none |-> 0]

\* The token that Next() makes of one that was written: a string of data is
\* read from its text, and Next() fails if it cannot be read.
Lexed(c) ==
  IF "str" \notin DOMAIN c \/ "text" \notin DOMAIN c.str THEN c
  ELSE IF ReadString(c.str.text).ok
       THEN [c EXCEPT !.str = [bytes |-> ReadString(c.str.text).value]]
       ELSE [t |-> "Error"]

\* A reader over the tokens ts, before its first Next().
ReaderOf(ts) == [left |-> ts, cur |-> [t |-> "None"], str |-> NoString, ok |-> TRUE,
                 f |-> <<>>, buf |-> <<>>, stale |-> FALSE]

(***************************************************************************)
(* The helpers.                                                            *)
(***************************************************************************)
\* Next() and ExpectNextJsonToken(reader, out_err): str_value_ changes only
\* with tokens that have a text.
Advance(s) ==
  IF ~s.ok \/ s.left = <<>> THEN [s EXCEPT !.ok = FALSE]
  ELSE LET c == Head(s.left)
       IN  [s EXCEPT !.cur = c, !.left = Tail(@), !.ok = c.t # "Error",
                     !.str = IF "str" \in DOMAIN c THEN c.str ELSE @]

Expect(s, condition) == [s EXCEPT !.ok = @ /\ condition]

ExpectCurrentToken(s, t) == Expect(s, s.cur.t = t)
ExpectNextToken(s, t) == ExpectCurrentToken(Advance(s), t)

Says(str, w) == "word" \in DOMAIN str /\ str.word = w

\* str is an entry of table that is in named.
Names(str, table, named) ==
  "table" \in DOMAIN str /\ str.table = table /\ str.index \in named

ExpectCurrentPropertyName(s, name) ==
  Expect(s, s.cur.t = "PropertyName" /\ Says(s.str, name))

ExpectNextPropertyName(s, name) == ExpectCurrentPropertyName(Advance(s), name)

\* The field called name gets the value v.
With(f, name, v) == [x \in {name} \cup DOMAIN f |-> IF x = name THEN v ELSE f[x]]
Set(s, name, v) == IF s.ok THEN [s EXCEPT !.f = With(@, name, v)] ELSE s

\* Faulty variant: the table is asked with operator[], which answers 0 for
\* what it does not know.
ExpectNextEnumValueOrZero(s, name, table, named) ==
  LET n == Advance(s)
  IN  IF ~n.ok THEN n
      ELSE Set([n EXCEPT !.stale = @ \/ n.cur.t # "String"], name,
               IF Names(n.str, table, named) THEN n.str.index ELSE 0)

\* ExpectNextEnumValue looks the text up whatever the token is.
ExpectNextEnumValue(s, name, table, named) ==
  LET n == Advance(s)
      found == Expect(n, Names(n.str, table, named))
  IN  IF ~found.ok THEN found
      ELSE Set([found EXCEPT !.stale = @ \/ n.cur.t # "String"], name, n.str.index)

ExpectNextEnumProperty(s, name, table, named) ==
  ExpectNextEnumValue(ExpectNextPropertyName(s, name), name, table, named)

\* An integer between min and max (8 and 16 bits).
ExpectNextValue(s, name, min, max) ==
  LET n == ExpectNextToken(s, "Integer")
      c == IF n.ok THEN Expect(n, n.cur.v[1] = 0 /\ n.cur.v[2] \in min .. max) ELSE n
  IN  IF c.ok THEN Set(c, name, c.cur.v[2]) ELSE c

\* An integer of 32 bits.
ExpectNextValue32(s, name) ==
  LET n == ExpectNextToken(s, "Integer")
      c == IF n.ok THEN Expect(n, n.cur.v[1] \in 0 .. 65535) ELSE n
  IN  IF c.ok THEN Set(c, name, c.cur.v) ELSE c

ExpectNextProperty(s, name, min, max) ==
  ExpectNextValue(ExpectNextPropertyName(s, name), name, min, max)

U16Property(s, name) == ExpectNextProperty(s, name, 0, 65535)

U32Property(s, name) == ExpectNextValue32(ExpectNextPropertyName(s, name), name)

\* ExpectIp4Value: inet_pton knows the texts of addresses.
ExpectIp4Property(s, name) ==
  LET n == ExpectNextToken(ExpectNextPropertyName(s, name), "String")
      c == Expect(n, "address" \in DOMAIN n.str)
  IN  IF c.ok THEN Set(c, name, c.str.address) ELSE c

\* The tokens after the current one at the positions in good, up to the
\* first other position: there the array has to end.
Elements(s, good) ==
  LET stops == {i \in 1 .. Len(s.left) : i \notin good}
      stop == CHOOSE i \in stops : \A j \in stops : i <= j
  IN  IF ~s.ok \/ stops = {} THEN [s EXCEPT !.ok = FALSE, !.left = <<>>]
      ELSE ExpectCurrentToken(
             Set([s EXCEPT !.left = SubSeq(@, stop + 1, Len(@)), !.cur = s.left[stop],
                           !.str = IF stop = 1 THEN @ ELSE s.left[stop - 1].str],
                 "elements", SubSeq(s.left, 1, stop - 1)),
             "EndArray")

Strings(ts) == {i \in DOMAIN ts : ts[i].t = "String"}

\* The set of the flags in an array of names, as numbers of bits.
DeserializeFlags(s, table, bits) ==
  LET n == ExpectNextToken(s, "StartArray")
      c == Elements(n, {i \in Strings(n.left) : Names(n.left[i].str, table, bits)})
  IN  IF c.ok THEN Set(c, "flags", {c.f.elements[i].str.index : i \in DOMAIN c.f.elements})
      ELSE c

\* The number whose bits are bits, all of them among those of the flags.
Value(bits) ==
  LET bit(b) == IF b \in bits THEN 2^b ELSE 0
  IN  bit(0) + bit(1) + bit(2) + bit(3) + bit(4) + bit(5) + bit(13) + bit(14)

\* AppendVectorU8: b goes to the end of dest_buffer.
Put(s, b) == IF s.ok THEN [s EXCEPT !.buf = @ \o b] ELSE s

\* The two words of a 32-bit field, in network order.
htonl(v) == htons(v[1]) \o htons(v[2])

(***************************************************************************)
(* The headers.                                                            *)
(***************************************************************************)
DeserializeIp4Header(s) ==
  LET s1 == ExpectNextProperty(ExpectNextToken(s, "StartObject"), "version", 4, 4)
      s2 == U16Property(ExpectNextProperty(s1, "tos", 0, 255), "id")
      s3 == DeserializeFlags(ExpectNextPropertyName(s2, "flags"), "ipFlag", IpFlags)
      s4 == ExpectNextProperty(s3, "fragmentOffset", 0, 8191)
      s5 == ExpectNextProperty(s4, "ttl", 0, 255)
      s6 == ExpectNextEnumProperty(s5, "protocol", "protocol", kProtocolNames)
      s7 == ExpectIp4Property(ExpectIp4Property(s6, "source"), "destination")
      s8 == ExpectNextToken(s7, "EndObject")
  IN  IF ~s8.ok THEN s8
      ELSE Put(s8, <<16 * 4 + 5, s8.f.tos, 0, 0>> \o htons(s8.f.id)
                   \o htons(s8.f.fragmentOffset + Value(s8.f.flags))
                   \o <<s8.f.ttl, s8.f.protocol, 0, 0>> \o s8.f.source \o s8.f.destination)

\* ackNumber may be there or not, the current token being a property name.
OptionalAckNumber(s) ==
  IF Says(s.str, "ackNumber")
  THEN ExpectNextToken(ExpectNextValue32(s, "ackNumber"), "PropertyName")
  ELSE Set(s, "ackNumber", <<0, 0>>)

\* The URG flag says whether urgentPointer is there.
UrgentPointer(s) ==
  IF s.ok /\ 5 \in s.f.flags THEN U16Property(s, "urgentPointer")
  ELSE Set(s, "urgentPointer", 0)

PutTcpHeader(s) ==
  IF ~s.ok THEN s
  ELSE Put(s, htons(s.f.sourcePort) \o htons(s.f.destPort)
              \o htonl(s.f.seqNumber) \o htonl(s.f.ackNumber)
              \o <<0, Value(s.f.flags \cap 0 .. 5)>> \o htons(s.f.windowSize)
              \o <<0, 0>> \o htons(s.f.urgentPointer))

\* DeserializeTcpHeader up to the options; doff is set when they are read.
DeserializeTcpFields(s) ==
  LET s1 == U16Property(U16Property(ExpectNextToken(s, "StartObject"), "sourcePort"), "destPort")
      s2 == OptionalAckNumber(ExpectNextToken(U32Property(s1, "seqNumber"), "PropertyName"))
      s3 == DeserializeFlags(ExpectCurrentPropertyName(s2, "flags"), "tcpFlag", kTcpFlags)
  IN  PutTcpHeader(Advance(UrgentPointer(U16Property(s3, "windowSize"))))

\* One option, from its StartArray to the token after its EndArray.
DeserializeTcpOption(s) ==
  LET s1 == ExpectNextEnumValue(ExpectCurrentToken(s, "StartArray"), "option", "tcpOption", kTcpOptions)
      type == s1.f.option
      s2 == CASE type \in {0, 1} -> Put(s1, <<type>>)
              [] type = 4 -> Put(s1, <<4, 2>>)
              [] type \in {2, 3} ->
                   LET v == ExpectNextValue(s1, "value", 0, 65535)
                   IN  IF v.ok THEN Put(v, <<type, 4>> \o htons(v.f.value)) ELSE v
              [] type = 5 -> Expect(s1, FALSE)
              [] type = 8 ->
                   LET v == ExpectNextValue32(ExpectNextValue32(s1, "value1"), "value2")
                   IN  IF v.ok THEN Put(v, <<8, 10>> \o htonl(v.f.value1) \o htonl(v.f.value2))
                       ELSE v
  IN  IF s1.ok THEN Advance(ExpectNextToken(s2, "EndArray")) ELSE s1

DeserializeUdpHeader(s) ==
  LET s1 == U16Property(U16Property(ExpectNextToken(s, "StartObject"), "sourcePort"), "destPort")
      s2 == ExpectNextToken(s1, "EndObject")
  IN  IF ~s2.ok THEN s2
      ELSE Put(s2, htons(s2.f.sourcePort) \o htons(s2.f.destPort) \o <<0, 0, 0, 0>>)

\* The code of an ICMP header, by name for the types that have names for it.
DeserializeIcmpCode(s, type) ==
  CASE type = ICMP_DEST_UNREACH ->
         ExpectNextEnumProperty(s, "code", "unreachable", kIcmpDestinationUnreachableCodeNames)
    [] type = ICMP_REDIRECT ->
         ExpectNextEnumProperty(s, "code", "redirect", kIcmpRedirectMessageCodeNames)
    [] type = ICMP_PARAMETERPROB ->
         ExpectNextEnumProperty(s, "code", "badIpHeader", kIcmpBadIpHeaderCodeNames)
    [] OTHER -> ExpectNextProperty(s, "code", 0, 255)

\* The last four bytes of an ICMP header.
DeserializeIcmpRest(s, type) ==
  LET echo == U16Property(U16Property(s, "identifier"), "sequenceNumber")
      mtu == U16Property(s, "nextHopMtu")
      gateway == ExpectIp4Property(s, "gateway")
  IN  CASE type \in IcmpEchoLike ->
             IF echo.ok THEN Set(echo, "rest", htons(echo.f.identifier) \o htons(echo.f.sequenceNumber))
             ELSE echo
        [] type = ICMP_DEST_UNREACH ->
             IF mtu.ok THEN Set(mtu, "rest", <<0, 0>> \o htons(mtu.f.nextHopMtu)) ELSE mtu
        [] type = ICMP_REDIRECT ->
             IF gateway.ok THEN Set(gateway, "rest", gateway.f.gateway) ELSE gateway
        [] OTHER -> Set(s, "rest", <<0, 0, 0, 0>>)

DeserializeIcmpHeader(s) ==
  LET s1 == ExpectNextEnumProperty(ExpectNextToken(s, "StartObject"), "type", "icmpType", kIcmpTypeNames)
      type == s1.f.type
      s2 == DeserializeIcmpRest(DeserializeIcmpCode(s1, type), type)
      s3 == ExpectNextToken(s2, "EndObject")
  IN  IF ~s1.ok THEN s1
      ELSE IF ~s3.ok THEN s3
      ELSE Put(s3, <<type, s3.f.code, 0, 0>> \o s3.f.rest)

\* The characters of a string of data; those of the words, names and
\* addresses, which nobody types there, are left open.
Characters(str) ==
  IF "bytes" \in DOMAIN str THEN str.bytes ELSE CHOOSE s \in Seq(Byte) : TRUE

\* Faulty variant: the end of the data is taken for that of the packet.
DeserializeDataOneEnd(s) ==
  LET s1 == ExpectNextToken(ExpectCurrentPropertyName(s, "data"), "StartObject")
      s2 == ExpectNextToken(ExpectNextPropertyName(s1, "type"), "String")
      hex == Says(s2.str, "hex")
      s3 == Expect(s2, hex \/ Says(s2.str, "text"))
      s4 == ExpectNextToken(ExpectNextPropertyName(s3, "data"), "StartArray")
      s5 == Elements(s4, Strings(s4.left))
      text == FlattenSeq([i \in DOMAIN s5.f.elements |-> Characters(s5.f.elements[i].str)])
      s6 == Put(s5, IF hex THEN ParseHex(text).out ELSE text)
  IN  IF ~s5.ok THEN s5
      ELSE ExpectNextToken(s6, "EndObject")

\* The data, the current token being what follows the headers.  What
\* ParseHex says of the text is not looked at.
DeserializeData(s) ==
  LET s1 == ExpectNextToken(ExpectCurrentPropertyName(s, "data"), "StartObject")
      s2 == ExpectNextToken(ExpectNextPropertyName(s1, "type"), "String")
      hex == Says(s2.str, "hex")
      s3 == Expect(s2, hex \/ Says(s2.str, "text"))
      s4 == ExpectNextToken(ExpectNextPropertyName(s3, "data"), "StartArray")
      s5 == Elements(s4, Strings(s4.left))
      text == FlattenSeq([i \in DOMAIN s5.f.elements |-> Characters(s5.f.elements[i].str)])
      s6 == Put(s5, IF hex THEN ParseHex(text).out ELSE text)
  IN  IF ~s5.ok THEN s5
      ELSE ExpectNextToken(ExpectNextToken(s6, "EndObject"), "EndObject")

\* The lengths and checksums of a packet that has been read.
Seal(q) ==
  LET size == Len(q)
      proto == protocol(q)
      ip1 == Patched(q, 2, htons(size % 256))
      ip2 == Patched(ip1, 10, ComputeIpChecksum(<<>>, Part(ip1, 0, 20)))
      udp == Patched(ip2, 24, htons(size - 20))
  IN  CASE proto = kProtocolIcmp -> Patched(ip2, 22, ComputeIpChecksum(<<>>, From(ip2, 20)))
        [] proto = kProtocolTcp  -> Patched(ip2, 36, ComputeIpChecksum(pseudo_header(ip2), From(ip2, 20)))
        [] proto = kProtocolUdp  -> Patched(udp, 26, ComputeIpChecksum(pseudo_header(udp), From(udp, 20)))
        [] OTHER -> ip2

(***************************************************************************)
(* DeserializePacket, from the token that playbacktun's loop has read.     *)
(***************************************************************************)
Go(s, next) == r' = s /\ dpc' = IF s.ok THEN next ELSE "refused"

ReadIp ==
  /\ dpc = "ip"
  /\ Go(DeserializeIp4Header(ExpectNextPropertyName(ExpectCurrentToken(r, "StartObject"), "ip")),
        "header2")

ReadTcp ==
  /\ dpc = "header2" /\ protocol(r.buf) = kProtocolTcp
  /\ LET s == DeserializeTcpFields(ExpectNextPropertyName(r, "tcp"))
     IN  IF s.ok /\ s.cur.t = "EndObject" THEN Go(s, "doff")
         ELSE Go(Advance(ExpectNextToken(ExpectCurrentPropertyName(s, "options"), "StartArray")),
                 "options")

ReadOption ==
  /\ dpc = "options" /\ r.cur.t # "EndArray"
  /\ Go(DeserializeTcpOption(r), "options")

ReadOptionsEnd ==
  /\ dpc = "options" /\ r.cur.t = "EndArray"
  /\ Go(ExpectNextToken(r, "EndObject"), "doff")

ReadDoff ==
  LET options_size == Len(r.buf) - 40
  IN  /\ dpc = "doff"
      /\ Go(Advance(Expect([r EXCEPT !.buf = Patched(@, 32, <<((5 + options_size \div 4) % 16) * 16>>)],
                           options_size % 4 = 0)),
            "data")

ReadUdp ==
  /\ dpc = "header2" /\ protocol(r.buf) = kProtocolUdp
  /\ Go(Advance(DeserializeUdpHeader(ExpectNextPropertyName(r, "udp"))), "data")

ReadIcmp ==
  /\ dpc = "header2" /\ protocol(r.buf) = kProtocolIcmp
  /\ Go(Advance(DeserializeIcmpHeader(ExpectNextPropertyName(r, "icmp"))), "data")

ReadNoHeader2 ==
  /\ dpc = "header2" /\ protocol(r.buf) \notin {kProtocolTcp, kProtocolUdp, kProtocolIcmp}
  /\ Go(Advance(r), "data")

ReadData ==
  /\ dpc = "data"
  /\ LET s == IF r.cur.t = "EndObject" THEN r ELSE DeserializeData(r)
     IN  Go([s EXCEPT !.buf = IF s.ok THEN Seal(@) ELSE @], "accepted")

DeserializeStep ==
  \/ ReadIp \/ ReadTcp \/ ReadOption \/ ReadOptionsEnd \/ ReadDoff
  \/ ReadUdp \/ ReadIcmp \/ ReadNoHeader2 \/ ReadData
=============================================================================
