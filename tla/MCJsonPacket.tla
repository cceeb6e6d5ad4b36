---------------------------- MODULE MCJsonPacket ----------------------------
(***************************************************************************)
(* A collection of packets in which every branch of the serializer and the *)
(* deserializer, and every way to lose something between them, occurs.     *)
(***************************************************************************)
EXTENDS JsonPacket

Zeros(n) == [i \in 1 .. n |-> 0]
Letters(n) == [i \in 1 .. n |-> IF i % 60 = 0 THEN 10 ELSE 97]
Greeting == <<72, 34, 13, 10, 200, 10, 10, 92>>
Binary(n) == [i \in 1 .. n |-> (37 * i) % 256]

\* A packet of the given protocol: no IP options, DF set.
Ip(proto, rest) ==
  <<69, 0, 0, 0, 182, 138, 64, 0, 64, proto, 0, 0, 192, 168, 1, 124, 8, 8, 8, 8>> \o rest

Udp(rest) == Ip(17, <<201, 224, 0, 53, 0, 0, 0, 0>> \o rest)
Icmp(type, code, four, rest) == Ip(1, <<type, code, 0, 0>> \o four \o rest)

\* A TCP packet with the given flags and options, as many as doff says.
TcpDoff(doff_, flags, acked, urgent, rest) ==
  Ip(6, <<205, 162, 0, 80, 103, 133, 60, 130>> \o acked \o <<16 * doff_, flags>>
        \o <<57, 8, 0, 0>> \o urgent \o rest)
Tcp(flags, options, rest) ==
  TcpDoff(5 + Len(options) \div 4, flags, IF Bit(flags, 4) THEN <<133, 218, 94, 83>> ELSE Zeros(4),
          IF Bit(flags, 5) THEN <<0, 9>> ELSE <<0, 0>>, options \o rest)

Mss == <<2, 4, 5, 180>>
SackPermitted == <<4, 2>>
Timestamp == <<8, 10, 255, 80, 138, 8, 0, 0, 0, 7>>
WindowScale == <<3, 3, 7>>
Nop == <<1>>

Ordinary == {
  Udp(Greeting), Udp(Binary(35)), Udp(<<>>),
  Icmp(8, 0, <<70, 73, 0, 1>>, Binary(17)), Icmp(3, 4, <<0, 0, 5, 220>>, Greeting),
  Icmp(12, 1, Zeros(4), <<>>), Icmp(11, 0, Zeros(4), <<0>>),
  Tcp(2, <<>>, <<>>), Tcp(24, <<>>, Greeting),
  Tcp(18, Mss \o SackPermitted \o Timestamp, <<>>),
  Tcp(58, Nop \o Nop \o Timestamp, Greeting), Tcp(16, <<1, 1, 1, 0>>, <<>>),
  Ip(2, <<34, 0, 1, 2>>), Ip(47, <<>>)}

\* The packets that something is lost of.
Odd == {
  <<69, 0, 0>>, <<68>> \o Zeros(19),                            \* no IP header
  <<70>> \o From(Ip(47, <<7, 4, 4, 0>>), 1),                    \* IP options
  <<71>> \o From(Ip(17, <<1, 2>>), 1),                          \* ... that are not all there
  Patched(Udp(<<>>), 6, <<128, 0>>),                            \* a reserved flag
  Patched(Udp(<<>>), 6, <<32, 5>>),                             \* (a fragment: nothing is)
  Ip(255, <<1>>), Ip(61, <<>>),                                 \* unnamed protocols
  Ip(6, Zeros(19)), Ip(17, Zeros(7)), Ip(1, <<8, 0>>),          \* half a header
  Icmp(5, 0, <<10, 0, 0, 1>>, Greeting), Icmp(3, 13, Zeros(4), <<>>),
  Icmp(3, 1, <<1, 0, 0, 0>>, <<>>), Icmp(12, 0, <<20, 0, 0, 0>>, <<>>),
  Icmp(12, 3, Zeros(4), <<>>), Icmp(1, 0, Zeros(4), <<>>),
  TcpDoff(4, 2, Zeros(4), <<0, 0>>, Greeting), TcpDoff(6, 2, Zeros(4), <<0, 0>>, <<1>>),
  TcpDoff(5, 2, <<0, 0, 0, 1>>, <<0, 0>>, <<>>), TcpDoff(5, 2, Zeros(4), <<0, 1>>, <<>>),
  Tcp(194, <<>>, <<>>), Patched(Tcp(2, <<>>, <<>>), 32, <<81>>),
  Tcp(2, Mss \o SackPermitted \o Timestamp \o Nop \o WindowScale, <<>>),
  Tcp(16, Nop \o Nop \o <<5, 10>> \o Binary(8), <<>>),
  Tcp(16, <<0, 0, 0, 0>>, Greeting), Tcp(16, <<1, 0, 1, 1>>, <<>>),
  Tcp(16, <<2, 3, 5, 1>>, <<>>), Tcp(16, <<30, 4, 1, 1>>, <<>>),
  Tcp(16, <<1, 1, 1, 9>>, <<>>), Tcp(16, <<2, 9, 0, 0>>, <<>>),
  Tcp(16, <<1, 9, 0, 1>>, <<>>), Tcp(16, <<4, 0, 1, 1>>, <<>>)} \* the last two: a size of 0

\* A packet whose UDP checksum needs a second folding, one whose IP checksum
\* does, and packets around 256 bytes.
Sums == {
  Udp(<<255, 255, 99, 142>>), Patched(Ip(47, <<>>), 4, <<104, 136>>),
  Udp(Letters(227)), Udp(Letters(228)), Tcp(24, <<>>, Letters(217))}

MCEditable ==
  {<<Tcp(58, Nop \o Nop \o Timestamp, Greeting)>>,
   <<Tcp(2, Mss \o SackPermitted \o Timestamp \o Nop \o WindowScale, <<>>)>>,
   <<Tcp(16, Timestamp \o Timestamp \o Timestamp \o Timestamp, <<>>)>>,
   <<Udp(<<>>), Icmp(8, 0, <<70, 73, 0, 1>>, Binary(17))>>}

MCLogs ==
  {<<q>> : q \in Ordinary \cup Odd \cup Sums}
  \cup {<<Tcp(24, <<>>, Greeting), Tcp(2, Mss, <<>>), Udp(Greeting)>>,
        <<Udp(<<>>), Icmp(5, 0, <<10, 0, 0, 1>>, Greeting)>>}
  \cup MCEditable

\* Texts typed by hand: in apostrophes, with every kind of escape, with one
\* that JSON does not have, with half of one, and with a quote inside.
Typed ==
  {<<39, 34, 92, 117, 50, 48, 65, 99, 39>>,
   <<34, 92, 98, 92, 47, 92, 117, 48, 48, 101, 57, 39, 34>>,
   <<34, 92, 39, 34>>, <<34, 92, 117, 48, 103, 48, 48, 34>>}

MCStrays ==
  {Null, Integer(65536), Halves(<<-1, 65535>>)}
  \cup {Text([text |-> s]) : s \in Typed}
=============================================================================
