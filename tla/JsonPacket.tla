----------------------------- MODULE JsonPacket -----------------------------
(***************************************************************************)
(* The life of a packet log: packets seen on a TUN interface are           *)
(* serialized one after the other through one JsonWriter, as PacketLogger  *)
(* does; the text may be edited by hand; playbacktun's loop deserializes   *)
(* it; and what it sent is logged and read once more.  Between the two,    *)
(* JsonWriter and JsonReader keep the sequence of tokens (RoundTrip of     *)
(* JsonPipe); the texts of strings of data are written and read by         *)
(* JsonString.                                                             *)
(***************************************************************************)
EXTENDS PacketSerializer, PacketDeserializer

CONSTANTS
  Logs,      \* the sequences of packets that are logged
  Editable,  \* those whose text is edited by hand
  Strays,    \* what is typed in place of, or in addition to, another scalar
  OtherNames \* the indices of the names that are typed in place of others

Null == [t |-> "Null"]

ASSUME LogsAssumption == Logs \subseteq Seq(Seq(Byte))

\* The halves of a number; its sign is that of the upper one.
Numbers == Int \X (0 .. 65535)

\* A scalar with a value is a number, or a string whose text is given.
ASSUME StraysAssumption ==
  \A s \in Strays :
    \/ s = Null
    \/ s.t = "Integer" /\ s.v \in Numbers /\ s = Halves(s.v)
    \/ s.t = "String" /\ s.str.text \in Seq(Byte) /\ s = Text([text |-> s.str.text])

ASSUME OtherNamesAssumption == OtherNames \subseteq Nat

VARIABLES
  sent,    \* the packets that are logged
  todo,    \* those of them still to be serialized
  got,     \* the packets that have been deserialized
  edited,  \* the text was changed by hand
  again    \* the packets that are logged were themselves read from a text

envVars == <<sent, todo, got, edited, again>>
vars == <<pc, packet, calls, pack, p, dpc, r, envVars>>

Init ==
  /\ sent \in Logs
  /\ todo = sent
  /\ got = <<>>
  /\ edited = FALSE
  /\ again = FALSE
  /\ pc = "serialized"
  /\ packet = <<>>
  /\ calls = <<>>
  /\ pack = 0
  /\ p = 0
  /\ dpc = "next"
  /\ r = ReaderOf(<<>>)

LogPacket ==
  /\ pc = "serialized"
  /\ todo # <<>>
  /\ packet' = Head(todo)
  /\ todo' = Tail(todo)
  /\ pc' = "serialize"
  /\ UNCHANGED <<calls, pack, p, dpc, r, sent, got, edited, again>>

Serialize == SerializeStep /\ UNCHANGED <<dpc, r, envVars>>

(***************************************************************************)
(* One change of the text by hand that leaves it JSON: the text is cut, a  *)
(* scalar is replaced, a name is replaced by another one of its table,     *)
(* something is added to an array or an object, or a property or a short   *)
(* array is taken out.                                                     *)
(***************************************************************************)
IsScalar(c) == c.t \in {"String", "Integer", "Null"}
Spliced(ts, i, n, s) == SubSeq(ts, 1, i - 1) \o s \o SubSeq(ts, i + n, Len(ts))
Is(ts, i, name) == i > 0 /\ ts[i].t = "PropertyName" /\ ts[i].str.word = name

Additions(ts, i) ==
  CASE ts[i].t = "StartArray" ->
         {<<s>> : s \in Strays}
         \cup (IF Is(ts, i - 1, "flags") THEN {<<Entry("tcpFlag", 6)>>} ELSE {})
         \cup (IF Is(ts, i - 1, "options") THEN {Option(2, <<Integer(1)>>)} ELSE {})
    [] ts[i].t = "StartObject" -> {<<Property("bogus"), s>> : s \in Strays}
    [] OTHER -> {}

Edits(ts) ==
  LET Positions == DOMAIN ts
  IN  {SubSeq(ts, 1, i) : i \in Positions}
      \cup {Spliced(ts, i, 1, <<s>>) : i \in {j \in Positions : IsScalar(ts[j])}, s \in Strays}
      \cup {Spliced(ts, i, 1, <<Entry(ts[i].str.table, n)>>) :
              i \in {j \in Positions : ts[j].t = "String" /\ "table" \in DOMAIN ts[j].str},
              n \in OtherNames}
      \cup (UNION {{Spliced(ts, i + 1, 0, s) : s \in Additions(ts, i)} : i \in Positions})
      \cup {Spliced(ts, i, 2, <<>>) :
              i \in {j \in Positions : ts[j].t = "PropertyName" /\ IsScalar(ts[j + 1])}}
      \cup {Spliced(ts, i, 3, <<>>) :
              i \in {j \in Positions : ts[j].t = "StartArray" /\ IsScalar(ts[j + 1])
                                       /\ ts[j + 2].t = "EndArray"}}

\* The beginning of Playback.  PacketLogger writes neither the brackets of
\* an array around the packets nor the commas between them; both have been
\* put in by hand.  (Playback aborts on a log without: see PlaybackTun.)
OpenLog ==
  /\ pc = "serialized"
  /\ todo = <<>> /\ sent # <<>>
  /\ LET log == Array(calls)
     IN  \E ts \in {log} \cup (IF ~again /\ sent \in Editable THEN Edits(log) ELSE {}) :
           /\ r' = ExpectNextToken(ReaderOf([i \in DOMAIN ts |-> Lexed(Written(ts[i]))]),
                                   "StartArray")
           /\ edited' = (ts # log)
  /\ dpc' = "next"
  /\ pc' = "playing"
  /\ UNCHANGED <<packet, calls, pack, p, sent, todo, got, again>>

(***************************************************************************)
(* playbacktun's loop.                                                     *)
(***************************************************************************)
\* Next() returns false or JSON_EndArray.
NoMorePackets == r.left # <<>> => Head(r.left).t \in {"Error", "EndArray"}

NextPacket ==
  /\ pc = "playing" /\ dpc = "next"
  /\ ~NoMorePackets
  /\ r' = Advance([ReaderOf(r.left) EXCEPT !.str = r.str])
  /\ dpc' = "ip"
  /\ UNCHANGED <<pc, packet, calls, pack, p, envVars>>

Deserialize == pc = "playing" /\ DeserializeStep /\ UNCHANGED <<pc, packet, calls, pack, p, envVars>>

SendPacket ==
  /\ pc = "playing" /\ dpc = "accepted"
  /\ got' = Append(got, r.buf)
  /\ dpc' = "next"
  /\ UNCHANGED <<pc, packet, calls, pack, p, r, sent, todo, edited, again>>

EndOfLog ==
  /\ pc = "playing" /\ dpc = "next"
  /\ NoMorePackets
  /\ pc' = "played"
  /\ UNCHANGED <<packet, calls, pack, p, dpc, r, envVars>>

\* What was sent is logged by another run of the program.
LogAgain ==
  /\ pc = "played" /\ ~again
  /\ sent' = got /\ todo' = got
  /\ got' = <<>>
  /\ edited' = FALSE
  /\ again' = TRUE
  /\ pc' = "serialized"
  /\ calls' = <<>> /\ pack' = 0
  /\ UNCHANGED <<packet, p, dpc, r>>

Next ==
  \/ LogPacket \/ Serialize \/ OpenLog
  \/ NextPacket \/ Deserialize \/ SendPacket \/ EndOfLog \/ LogAgain

\* A call of SerializePacket that has begun goes on.
Spec == Init /\ [][Next]_vars /\ WF_vars(Serialize)

(***************************************************************************)
(* Properties.                                                             *)
(***************************************************************************)
\* A packet without what DeserializePacket computes itself: the total
\* length, the checksums and the length of a UDP packet.
Body(q) ==
  LET ip == Patched(Patched(q, 2, <<0, 0>>), 10, <<0, 0>>)
  IN  CASE protocol(q) = kProtocolTcp  -> Patched(ip, 36, <<0, 0>>)
        [] protocol(q) = kProtocolUdp  -> Patched(ip, 24, <<0, 0, 0, 0>>)
        [] protocol(q) = kProtocolIcmp -> Patched(ip, 22, <<0, 0>>)
        [] OTHER -> ip

\* The options of a TCP header that survive: NOP, an EOL that is the last
\* byte, and whole maxSegmentSize, sackPermitted and timestamp options.
PlainOptions(o) ==
  LET n == Len(o)
      plain[i \in 0 .. n] ==
        \/ i = n
        \/ i < n /\ At(o, i) = 1 /\ plain[i + 1]
        \/ i + 1 = n /\ At(o, i) = 0
        \/ \E type \in {2, 4, 8} :
             LET size == SizeOfOption[type]
             IN  /\ i + size <= n
                 /\ At(o, i) = type /\ At(o, i + 1) = size
                 /\ plain[i + size]
  IN  plain[0]

FaithfulTcp(q) ==
  LET off == At(q, 32) \div 16
  IN  /\ Len(q) >= 40
      /\ off >= 5 /\ Len(q) >= 20 + 4 * off
      /\ At(q, 32) % 16 = 0 /\ At(q, 33) < 64
      /\ Bit(At(q, 33), 4) \/ Part(q, 28, 4) = <<0, 0, 0, 0>>
      /\ Bit(At(q, 33), 5) \/ Part(q, 38, 2) = <<0, 0>>
      /\ PlainOptions(Part(q, 40, 4 * off - 20))

FaithfulIcmp(q) ==
  LET type == At(q, 20)
      code == At(q, 21)
  IN  /\ Len(q) >= 28
      /\ type \in kIcmpTypeNames
      /\ type = ICMP_DEST_UNREACH =>
           code \in kIcmpDestinationUnreachableCodeNames /\ Part(q, 24, 2) = <<0, 0>>
      /\ type = ICMP_PARAMETERPROB => code \in kIcmpBadIpHeaderCodeNames
      /\ type \notin IcmpEchoLike \cup {ICMP_DEST_UNREACH} => Part(q, 24, 4) = <<0, 0, 0, 0>>

\* The packets that the text has a place for.
Faithful(q) ==
  /\ Len(q) >= 20
  /\ At(q, 0) = 16 * 4 + 5
  /\ ~Bit(DerefU16BE(q, 6), 15)
  /\ protocol(q) \in kProtocolNames
  /\ protocol(q) = kProtocolTcp  => FaithfulTcp(q)
  /\ protocol(q) = kProtocolUdp  => Len(q) >= 28
  /\ protocol(q) = kProtocolIcmp => FaithfulIcmp(q)

Over == pc = "played" \/ dpc = "refused"

\* A log that nobody has edited gives back its packets, byte for byte, if
\* and only if the text has a place for everything in each of them.  (Every
\* other packet is refused or comes back changed: IP options, reserved bits,
\* window scaling, selective acknowledgements, padding, unnamed protocols,
\* ICMP redirects and more.)
ReadsBack ==
  Over /\ ~edited =>
    (\A i \in DOMAIN sent : Faithful(sent[i]))
    <=> /\ pc = "played"
        /\ Len(got) = Len(sent)
        /\ \A i \in DOMAIN sent : Len(got[i]) = Len(sent[i]) /\ Body(got[i]) = Body(sent[i])

\* The sum of the words of s, the last one padded, and what a receiver makes
\* of it: every carry is added in.
WordSum(s) ==
  LET word(i) == 256 * s[2 * i - 1] + (IF 2 * i > Len(s) THEN 0 ELSE s[2 * i])
      sum[i \in 0 .. (Len(s) + 1) \div 2] == IF i = 0 THEN 0 ELSE sum[i - 1] + word(i)
  IN  sum[(Len(s) + 1) \div 2]

OnesSum(s) == IF WordSum(s) = 0 THEN 0 ELSE 1 + ((WordSum(s) - 1) % 65535)

\* Adding the carries to the sum of s has a carry itself.
SecondCarry(s) == (WordSum(s) % 65536) + (WordSum(s) \div 65536) >= 65536

\* What the second checksum of a packet covers, and where it is.
Covered(q) ==
  (IF protocol(q) = kProtocolIcmp THEN <<>>
   ELSE Part(q, 12, 8) \o <<0, At(q, 9), (Len(q) - 20) \div 256, (Len(q) - 20) % 256>>)
  \o From(q, 20)

Checksum2At(q) ==
  CASE protocol(q) = kProtocolTcp -> 36 [] protocol(q) = kProtocolUdp -> 26 [] OTHER -> 22

\* A receiver adds up what a checksum covers, the checksum included, and wants
\* nothing but ones.
IpChecksumRight(q) == OnesSum(Part(q, 0, 20)) = 65535

HasChecksum2(q) == protocol(q) \in {kProtocolTcp, kProtocolUdp, kProtocolIcmp}

Checksum2Right(q) == OnesSum(Covered(q)) = 65535

\* One folding of its sum is enough for the checksum.
IpFoldsOnce(q) == ~SecondCarry(Patched(Part(q, 0, 20), 10, <<0, 0>>))

Folds2Once(q) == ~SecondCarry(Covered(Patched(q, Checksum2At(q), <<0, 0>>)))

\* What the packets that DeserializePacket makes have at most wrong, whatever
\* text it accepts: a checksum whose sum needs a second folding and a total
\* length of 256 bytes or more.  Everything else that goes into them is right:
\* the pseudo header, a last byte without a pair, the place of the checksum,
\* the zeros in it, and that nothing is changed after it.
SealedRight ==
  \A i \in DOMAIN got :
    LET q == got[i]
    IN  /\ IpFoldsOnce(q) => IpChecksumRight(q)
        /\ Len(q) <= 65535 /\ HasChecksum2(q) /\ Folds2Once(q) => Checksum2Right(q)
        /\ Len(q) < 256 => DerefU16BE(q, 2) = Len(q)

\* And these are wrong indeed: each checksum is right if and only if one
\* folding of its sum was enough, and the total length if and only if it is
\* below 256.  (IP has no packets of more than 65535 bytes; longer texts are
\* no packets, and their sums need not fit into the code's uint32_t.)
Sealed(q) ==
  /\ IpChecksumRight(q) <=> IpFoldsOnce(q)
  /\ Len(q) <= 65535 /\ HasChecksum2(q) => (Checksum2Right(q) <=> Folds2Once(q))
  /\ DerefU16BE(q, 2) = Len(q) <=> Len(q) < 256

SealedExactly == \A i \in DOMAIN got : Sealed(got[i])

\* What README.markdown says: "The JSON deserialization code will set all the
\* appropriate checksums in the packets".  (ComputeIpChecksum folds its sum
\* once, so it does not when the folding has a carry.)
ChecksumsSet ==
  \A i \in DOMAIN got :
    /\ IpChecksumRight(got[i])
    /\ HasChecksum2(got[i]) => Checksum2Right(got[i])

\* When DeserializePacket has returned true the reader is at the EndObject
\* that ends the packet, so that playbacktun's loop finds the next packet or
\* the end of the array and not a part of this packet; this holds for edited texts too.
ReaderAtEnd ==
  dpc = "accepted" =>
    /\ r.cur.t = "EndObject"
    /\ r.left # <<>> => Head(r.left) \in {StartObject, EndArray}

\* ExpectNextEnumValue looks up str_value_ whatever the token is.  What an
\* earlier token left there is taken for a name in no IP, UDP or ICMP header,
\* and not in a TCP header without options; in one with options it is, when
\* the value typed for an option's name has no text.
StaleNames ==
  dpc = "accepted" /\ r.stale => protocol(r.buf) = kProtocolTcp /\ Len(r.buf) >= 44

\* What a packet leaves of pack_: one level for every TCP header, none for
\* anything else.  (After the first TCP packet the writer puts everything on
\* one line.)
PackDepth ==
  pc = "serialized" => pack = Count(Property("tcp"), calls)

\* The loop over the options ends, unless it comes to an option that says
\* that its size is 0.
OptionsEnd ==
  pc = "options" ~> \/ pc # "options"
                    \/ /\ p + 1 < options_end
                       /\ At(packet, p) \notin {0, 1} /\ At(packet, p + 1) = 0
=============================================================================
